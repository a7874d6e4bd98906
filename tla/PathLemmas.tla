---------------------------- MODULE PathLemmas ----------------------------
(***************************************************************************)
(* Facts about paths, which are sequences of names: prefixes, what lies a   *)
(* level further down, and what a folder's new path makes of the paths      *)
(* below it.                                                                *)
(***************************************************************************)
EXTENDS Integers, Sequences, SequencesExt, SequenceTheorems, WellFoundedInduction, TLAPS

\* Induction over path lengths goes by the shortest counterexample.
LEMMA Smallest ==
  ASSUME NEW S, S \subseteq Nat, S # {} PROVE \E x \in S : \A y \in S : x <= y
  <1>1. PICK R : R = OpToRel(<, Nat)
    OBVIOUS
  <1>2. IsWellFoundedOn(R, Nat)
    BY <1>1, NatLessThanWellFounded
  <1>3. PICK x \in S : \A y \in S : ~ (<<y, x>> \in R)
    BY <1>2, WFMin
  <1>4. \A m, n \in Nat : m < n => <<m, n>> \in R
    BY <1>1 DEF OpToRel
  <1>5. ASSUME NEW y \in S PROVE x <= y
    <2>1. x \in Nat /\ y \in Nat /\ ~(y < x)
      BY <1>3, <1>4
    <2> QED BY <2>1
  <1> QED BY <1>5

LEMMA PrefixElements ==
  ASSUME NEW S, NEW s \in Seq(S), NEW t \in Seq(S)
  PROVE  IsPrefix(s, t) <=> Len(s) <= Len(t) /\ \A i \in 1 .. Len(s) : s[i] = t[i]
  <1>1. Len(s) \in Nat /\ Len(t) \in Nat
    BY LenProperties
  <1>2. ASSUME Len(s) <= Len(t)
        PROVE  SubSeq(s, 1, Len(s)) = SubSeq(t, 1, Len(s)) <=> \A i \in 1 .. Len(s) : s[i] = t[i]
    <2>1. SubSeq(s, 1, Len(s)) = s
      BY SubSeqFull
    <2>2. \A i \in 1 .. Len(s) : t[i] \in S
      BY <1>1, <1>2, ElementOfSeq
    <2>3. PICK n \in Nat : n = Len(s)
      BY <1>1
    <2>4. /\ SubSeq(t, 1, n) \in Seq(S)
          /\ Len(SubSeq(t, 1, n)) = IF 1 <= n THEN n - 1 + 1 ELSE 0
          /\ \A i \in 1 .. n - 1 + 1 : SubSeq(t, 1, n)[i] = t[1 + i - 1]
      BY <2>2, <2>3, SubSeqProperties
    <2>5. Len(SubSeq(t, 1, n)) = n /\ \A i \in 1 .. n : SubSeq(t, 1, n)[i] = t[i]
      BY <2>3, <2>4
    <2>6. ASSUME \A i \in 1 .. Len(s) : s[i] = t[i] PROVE s = SubSeq(t, 1, n)
      BY <2>3, <2>4, <2>5, <2>6, SeqEqual
    <2> QED BY <2>1, <2>3, <2>5, <2>6
  <1> QED BY <1>2 DEF IsPrefix

\* One level further down.
LEMMA PrefixStep ==
  ASSUME NEW S, NEW s \in Seq(S), NEW t \in Seq(S), NEW n \in S
  PROVE  IsStrictPrefix(s, Append(t, n)) <=> IsPrefix(s, t)
  <1>1. /\ Append(t, n) \in Seq(S) /\ Len(Append(t, n)) = Len(t) + 1
        /\ \A i \in 1 .. Len(t) : Append(t, n)[i] = t[i]
    BY AppendProperties
  <1>2. Len(s) \in Nat /\ Len(t) \in Nat
    BY LenProperties
  <1>3. ASSUME IsPrefix(s, t) PROVE IsStrictPrefix(s, Append(t, n))
    <2>1. Len(s) <= Len(t) /\ \A i \in 1 .. Len(s) : s[i] = t[i]
      BY <1>3, PrefixElements
    <2>2. Len(s) <= Len(Append(t, n)) /\ s # Append(t, n)
      BY <1>1, <1>2, <2>1
    <2>3. \A i \in 1 .. Len(s) : s[i] = Append(t, n)[i]
      BY <1>1, <1>2, <2>1
    <2> QED BY <1>1, <2>2, <2>3, PrefixElements DEF IsStrictPrefix
  <1>4. ASSUME IsStrictPrefix(s, Append(t, n)) PROVE IsPrefix(s, t)
    <2>0. PICK a \in Seq(S) : a = Append(t, n) /\ IsPrefix(s, a) /\ s # a
      BY <1>1, <1>4 DEF IsStrictPrefix
    <2>. Len(s) <= Len(a) /\ \A i \in 1 .. Len(s) : s[i] = a[i]
      <3>1. IsPrefix(s, a) <=> Len(s) <= Len(a) /\ \A i \in 1 .. Len(s) : s[i] = a[i]
        BY PrefixElements
      <3> QED BY <2>0, <3>1
    <2>1. /\ Len(s) <= Len(t) + 1 /\ s # Append(t, n)
          /\ \A i \in 1 .. Len(s) : s[i] = Append(t, n)[i]
      BY <1>1, <2>0
    <2>2. Len(s) # Len(t) + 1
      BY <1>1, <2>1, SeqEqual
    <2>3. Len(s) <= Len(t)
      BY <1>2, <2>1, <2>2
    <2>4. \A i \in 1 .. Len(s) : s[i] = t[i]
      BY <1>1, <1>2, <2>1, <2>3
    <2> QED BY <2>3, <2>4, PrefixElements
  <1> QED BY <1>3, <1>4

LEMMA PrefixItself == ASSUME NEW S, NEW s \in Seq(S) PROVE IsPrefix(s, s)
  <1>1. Len(s) \in Nat
    BY LenProperties
  <1> QED BY <1>1 DEF IsPrefix

LEMMA PrefixOfEmpty == ASSUME NEW S, NEW s \in Seq(S) PROVE ~IsStrictPrefix(s, <<>>)
  <1>1. Len(s) \in Nat /\ (s # <<>> => Len(s) \in Nat \ {0}) /\ Len(<<>>) = 0
    BY LenProperties, EmptySeq
  <1> QED BY <1>1 DEF IsStrictPrefix, IsPrefix

LEMMA SameSteps ==
  ASSUME NEW S, NEW s \in Seq(S), NEW t \in Seq(S), NEW e \in S, NEW f \in S, Append(s, e) = Append(t, f)
  PROVE  s = t /\ e = f
  <1>1. PICK a : a = Append(s, e) /\ a = Append(t, f)
    OBVIOUS
  <1>2. PICK m \in Nat, n \in Nat : m = Len(s) /\ n = Len(t)
    BY LenProperties
  <1>3. Len(a) = m + 1 /\ a[m + 1] = e /\ \A i \in 1 .. m : a[i] = s[i]
    BY <1>1, <1>2, AppendProperties
  <1>4. Len(a) = n + 1 /\ a[n + 1] = f /\ \A i \in 1 .. n : a[i] = t[i]
    BY <1>1, <1>2, AppendProperties
  <1>5. m = n
    BY <1>3, <1>4
  <1>6. \A i \in 1 .. Len(s) : s[i] = t[i]
    BY <1>2, <1>3, <1>4, <1>5
  <1>7. s = t
    BY <1>2, <1>5, <1>6, SeqEqual
  <1> QED BY <1>3, <1>4, <1>5, <1>7

\* What lies below old goes to the same place below new.
Shifted(old, new, q) == new \o SubSeq(q, Len(old) + 1, Len(q))

LEMMA TailTyped ==
  ASSUME NEW S, NEW old \in Seq(S), NEW q \in Seq(S), Len(old) <= Len(q)
  PROVE  /\ SubSeq(q, Len(old) + 1, Len(q)) \in Seq(S)
         /\ Len(SubSeq(q, Len(old) + 1, Len(q))) = Len(q) - Len(old)
         /\ \A i \in 1 .. Len(q) - Len(old) : SubSeq(q, Len(old) + 1, Len(q))[i] = q[Len(old) + i]
  <1>1. PICK m \in Nat, n \in Nat : m = Len(old) /\ n = Len(q) /\ m <= n
    BY LenProperties
  <1>2. m + 1 \in Int /\ n \in Int /\ \A i \in m + 1 .. n : q[i] \in S
    BY <1>1, ElementOfSeq
  <1>3. /\ SubSeq(q, m + 1, n) \in Seq(S)
        /\ Len(SubSeq(q, m + 1, n)) = IF m + 1 <= n THEN n - (m + 1) + 1 ELSE 0
        /\ \A i \in 1 .. n - (m + 1) + 1 : SubSeq(q, m + 1, n)[i] = q[(m + 1) + i - 1]
    BY <1>2, SubSeqProperties
  <1>4. Len(SubSeq(q, m + 1, n)) = n - m
    BY <1>1, <1>3
  <1>5. ASSUME NEW i \in 1 .. n - m PROVE SubSeq(q, m + 1, n)[i] = q[m + i]
    <2>1. i \in 1 .. n - (m + 1) + 1 /\ (m + 1) + i - 1 = m + i
      BY <1>1
    <2> QED BY <1>3, <2>1
  <1> QED BY <1>1, <1>3, <1>4, <1>5

LEMMA ShiftedDown ==
  ASSUME NEW S, NEW old \in Seq(S), NEW new \in Seq(S), NEW q \in Seq(S), NEW n \in S, Len(old) <= Len(q)
  PROVE  /\ Shifted(old, new, q) \in Seq(S)
         /\ Shifted(old, new, Append(q, n)) = Append(Shifted(old, new, q), n)
  <1>1. PICK a : a = Append(q, n)
    OBVIOUS
  <1>2. /\ a \in Seq(S) /\ Len(a) = Len(q) + 1 /\ a[Len(q) + 1] = n
        /\ \A i \in 1 .. Len(q) : a[i] = q[i]
    BY <1>1, AppendProperties
  <1>3. PICK lo \in Nat, lq \in Nat, ln \in Nat : lo = Len(old) /\ lq = Len(q) /\ ln = Len(new) /\ lo <= lq
    BY LenProperties
  <1>4. PICK t : t = SubSeq(q, lo + 1, lq)
    OBVIOUS
  <1>5. t \in Seq(S) /\ Len(t) = lq - lo /\ \A i \in 1 .. lq - lo : t[i] = q[lo + i]
    BY <1>3, <1>4, TailTyped
  <1>6. PICK u : u = SubSeq(a, lo + 1, lq + 1)
    OBVIOUS
  <1>7. u \in Seq(S) /\ Len(u) = (lq + 1) - lo /\ \A i \in 1 .. (lq + 1) - lo : u[i] = a[lo + i]
    <2>1. Len(old) <= Len(a)
      BY <1>2, <1>3
    <2> QED BY <1>2, <1>3, <1>6, <2>1, TailTyped
  <1>8. u = Append(t, n)
    <2>1. /\ Append(t, n) \in Seq(S) /\ Len(Append(t, n)) = (lq - lo) + 1
          /\ \A i \in 1 .. lq - lo : Append(t, n)[i] = t[i]
          /\ Append(t, n)[(lq - lo) + 1] = n
      BY <1>5, AppendProperties
    <2>2. ASSUME NEW i \in 1 .. Len(u) PROVE u[i] = Append(t, n)[i]
      <3>1. CASE i \in 1 .. lq - lo
        <4>1. lo + i \in 1 .. lq /\ i \in 1 .. (lq + 1) - lo
          BY <1>3, <3>1
        <4> QED BY <1>2, <1>3, <1>5, <1>7, <2>1, <3>1, <4>1
      <3>2. CASE i \notin 1 .. lq - lo
        <4>0. i \in 1 .. (lq + 1) - lo
          BY <1>7
        <4>1. i = (lq - lo) + 1 /\ lo + i = lq + 1 /\ i \in 1 .. (lq + 1) - lo
          BY <1>3, <3>2, <4>0
        <4> QED BY <1>2, <1>3, <1>7, <2>1, <4>1
      <3> QED BY <3>1, <3>2
    <2>3. Len(u) = Len(Append(t, n))
      BY <1>3, <1>7, <2>1
    <2> QED BY <1>7, <2>1, <2>2, <2>3, SeqEqual
  <1>9. new \o t \in Seq(S)
    BY <1>5, ConcatProperties
  <1>10. new \o Append(t, n) = Append(new \o t, n)
    <2>1. <<n>> \in Seq(S) /\ Append(t, n) = t \o <<n>> /\ Append(new \o t, n) = (new \o t) \o <<n>>
      BY <1>5, <1>9, AppendIsConcat
    <2>2. PICK e \in Seq(S) : e = <<n>>
      BY <2>1
    <2>3. (new \o t) \o e = new \o (t \o e)
      BY <1>5, ConcatAssociative
    <2> QED BY <2>1, <2>2, <2>3
  <1> QED BY <1>1, <1>2, <1>3, <1>4, <1>6, <1>8, <1>9, <1>10 DEF Shifted

LEMMA ShiftedItself ==
  ASSUME NEW S, NEW old \in Seq(S), NEW new \in Seq(S) PROVE Shifted(old, new, old) = new
  <1>1. Len(old) \in Nat
    BY LenProperties
  <1>2. SubSeq(old, Len(old) + 1, Len(old)) = <<>>
    BY <1>1, SubSeqEmpty
  <1> QED BY <1>2, ConcatEmptySeq DEF Shifted

\* The folder of an entry.
LEMMA FrontOfAppend == ASSUME NEW S, NEW s \in Seq(S), NEW e \in S PROVE Front(Append(s, e)) = s
  <1>1. PICK a : a = Append(s, e)
    OBVIOUS
  <1>2. PICK m \in Nat : m = Len(s)
    BY LenProperties
  <1>3. a \in Seq(S) /\ Len(a) = m + 1 /\ \A x \in 1 .. m : a[x] = s[x]
    BY <1>1, <1>2, AppendProperties
  <1>4. Front(a) = SubSeq(a, 1, m)
    BY <1>2, <1>3 DEF Front
  <1>5. \A x \in 1 .. m : a[x] \in S
    BY <1>2, <1>3, ElementOfSeq
  <1>6. /\ SubSeq(a, 1, m) \in Seq(S)
        /\ Len(SubSeq(a, 1, m)) = IF 1 <= m THEN m - 1 + 1 ELSE 0
        /\ \A x \in 1 .. m - 1 + 1 : SubSeq(a, 1, m)[x] = a[1 + x - 1]
    BY <1>2, <1>5, SubSeqProperties
  <1>7. Len(SubSeq(a, 1, m)) = Len(s) /\ \A x \in 1 .. Len(s) : SubSeq(a, 1, m)[x] = s[x]
    BY <1>2, <1>3, <1>6
  <1>8. SubSeq(a, 1, m) = s
    BY <1>6, <1>7, SeqEqual
  <1> QED BY <1>1, <1>4, <1>8
=============================================================================
