-------------------------- MODULE Services_proofs --------------------------
(***************************************************************************)
(* Proofs about public links, grants, people, albums and rate limits, for  *)
(* any numbers of users, visitors, links, photos, nodes and requests.      *)
(***************************************************************************)
EXTENDS Shares, Grants, People, Albums, RateLimit, PathLemmas, FiniteSetTheorems

-----------------------------------------------------------------------------
(* Public links                                                            *)

LinkRow ==
  [there : {TRUE}, node : Node, owner : User, pw : BOOLEAN, expired : BOOLEAN,
   cap : SUBSET Caps, count : Nat, revoked : BOOLEAN]

RootVisit == [at : {"root"}, link : Link, owner : User, shared : Node, rel : RelPaths]
LateVisit == [at : {"charge", "open"}, link : Link, owner : User, id : Node, file : BOOLEAN]

\* What a request knows; the path it has read is left open.
VisitOK(w) ==
  \/ w = NoVisit
  \/ w \in RootVisit
  \/ w.at = "path" /\ w.link \in Link /\ w.owner \in User
  \/ w \in LateVisit

LinkTypes ==
  /\ link \in [Link -> LinkRow \cup {NoLink, Gone}]
  /\ visit = [v \in Visitor |-> visit[v]] /\ \A v \in Visitor : VisitOK(visit[v])
  /\ opened \in [Link -> Nat]

\* The visitors whose download of l is counted and whose stream is not open yet.
Charged(l) == {v \in Visitor : visit[v].at = "open" /\ visit[v].link = l}

\* A download is counted before its stream opens: what was opened, and what is about
\* to be, was counted, and no more than the cap was.
CountedFirst(l) ==
  link[l].there =>
    /\ \A c \in link[l].cap : link[l].count <= c
    /\ \A F \in SUBSET Charged(l) : IsFiniteSet(F) => opened[l] + Cardinality(F) <= link[l].count

\* Nobody knows a token that was not given yet.
Ungiven(l) ==
  link[l] = NoLink =>
    opened[l] = 0 /\ \A v \in Visitor : visit[v] # NoVisit => visit[v].link # l

LinkInv == LinkTypes /\ \A l \in Link : CountedFirst(l) /\ Ungiven(l)

LEMMA LinkRows ==
  ASSUME NEW w \in LinkRow
  PROVE  w.there /\ w.count \in Nat /\ w.cap \subseteq Nat /\ w.owner \in User /\ w.node \in Node
  BY SharesAssumption DEF LinkRow

LEMMA NoRows == /\ ~NoLink.there /\ ~Gone.there /\ NoLink # Gone
                /\ NoVisit.at = "idle" /\ NoVisit \notin RootVisit \cup LateVisit
                /\ \A w \in LinkRow : w # NoLink /\ w # Gone
  <1>1. ~NoLink.there /\ ~Gone.there /\ NoVisit.at = "idle"
    BY DEF NoLink, Gone, NoVisit
  <1>2. NoLink # Gone
    <2>1. Gone.used /\ ~NoLink.used
      BY DEF NoLink, Gone
    <2> QED BY <2>1
  <1>3. NoVisit \notin RootVisit \cup LateVisit
    BY <1>1 DEF RootVisit, LateVisit
  <1>4. \A w \in LinkRow : w.there
    BY DEF LinkRow
  <1> QED BY <1>1, <1>2, <1>3, <1>4

\* A link that is there has a row of its own.
LEMMA LinkThere ==
  ASSUME LinkTypes, NEW l \in Link, link[l].there
  PROVE  link[l] \in LinkRow
  BY NoRows DEF LinkTypes

LEMMA LinkInit == ShareInit => LinkInv
  <1> SUFFICES ASSUME ShareInit PROVE LinkInv
    OBVIOUS
  <1>1. LinkTypes
    BY DEF ShareInit, LinkTypes, VisitOK
  <1>2. \A l \in Link : ~link[l].there /\ opened[l] = 0
    BY NoRows DEF ShareInit
  <1>3. \A v \in Visitor : visit[v] = NoVisit
    BY DEF ShareInit
  <1> QED BY <1>1, <1>2, <1>3 DEF LinkInv, CountedFirst, Ungiven

\* The owner, the sweep and the clock take links away or leave their counts alone.
LEMMA CountsLeft ==
  ASSUME LinkInv, visit' = visit, opened' = opened,
         link' = [l \in Link |-> link'[l]],
         \A l \in Link : \/ link'[l] = link[l] \/ link'[l] = Gone
                         \/ /\ link[l].there /\ link'[l] \in LinkRow
                            /\ link'[l].cap = link[l].cap /\ link'[l].count = link[l].count
  PROVE  LinkInv'
  <1>1. LinkTypes'
    BY DEF LinkInv, LinkTypes
  <1>2. ASSUME NEW l \in Link PROVE CountedFirst(l)' /\ Ungiven(l)'
    <2>1. CASE link'[l] = link[l]
      BY <2>1 DEF LinkInv, CountedFirst, Ungiven, Charged
    <2>2. CASE link'[l] = Gone
      BY <2>2, NoRows DEF CountedFirst, Ungiven
    <2>3. CASE /\ link[l].there /\ link'[l] \in LinkRow
               /\ link'[l].cap = link[l].cap /\ link'[l].count = link[l].count
      <3>1. link'[l] # NoLink
        BY <2>3, NoRows
      <3> QED BY <2>3, <3>1 DEF LinkInv, CountedFirst, Ungiven, Charged
    <2> QED BY <2>1, <2>2, <2>3
  <1> QED BY <1>1, <1>2 DEF LinkInv

\* A request goes on, and no stream is about to be opened for it.
LEMMA VisitGoesOn ==
  ASSUME LinkInv, NEW v \in Visitor, NEW w, VisitOK(w), w.at # "open",
         w # NoVisit => link[w.link] # NoLink, Visits(v, w)
  PROVE  LinkInv'
  <1>1. LinkTypes'
    BY DEF LinkInv, LinkTypes, Visits
  <1>2. ASSUME NEW l \in Link PROVE CountedFirst(l)' /\ Ungiven(l)'
    <2>1. Charged(l)' \subseteq Charged(l)
      BY DEF Charged, Visits, LinkInv, LinkTypes
    <2>2. CountedFirst(l)'
      BY <2>1 DEF CountedFirst, Visits, LinkInv
    <2>3. Ungiven(l)'
      BY DEF Ungiven, Visits, LinkInv, LinkTypes
    <2> QED BY <2>2, <2>3
  <1> QED BY <1>1, <1>2 DEF LinkInv

LEMMA RequestKnown ==
  ASSUME LinkInv, NEW v \in Visitor, visit[v] # NoVisit
  PROVE  visit[v].link \in Link /\ link[visit[v].link] # NoLink /\ visit[v].owner \in User
  <1>1. visit[v].link \in Link /\ visit[v].owner \in User
    BY DEF LinkInv, LinkTypes, VisitOK, RootVisit, LateVisit
  <1> QED BY <1>1 DEF LinkInv, Ungiven

LEMMA CreateLinkKeeps ==
  ASSUME LinkInv, NEW u \in Sharer, NEW l \in Link, NEW i \in Node, handleCreateShare(u, l, i)
  PROVE  LinkInv'
  <1>1. PICK pw \in BOOLEAN, cap \in {{}} \cup {{c} : c \in Caps} : Create(u, l, i, pw, cap)
    BY DEF handleCreateShare
  <1> DEFINE fresh == [there |-> TRUE, node |-> i, owner |-> u, pw |-> pw,
                       expired |-> FALSE, cap |-> cap, count |-> 0, revoked |-> FALSE]
  <1>2. fresh \in LinkRow
    <2>1. cap \in SUBSET Caps /\ u \in User
      BY SharesAssumption
    <2> QED BY <2>1 DEF LinkRow
  <1>3. link[l] = NoLink /\ link' = [link EXCEPT ![l] = fresh]
    BY <1>1 DEF Create
  <1>4. visit' = visit /\ opened' = opened
    BY DEF handleCreateShare
  <1>5. fresh.count = 0 /\ \A c \in fresh.cap : c >= 0
    BY SharesAssumption
  <1> HIDE DEF fresh
  <1>6. LinkTypes'
    BY <1>2, <1>3, <1>4 DEF LinkInv, LinkTypes
  <1>7. opened[l] = 0 /\ Charged(l) = {}
    BY <1>3, NoRows DEF LinkInv, Ungiven, Charged
  <1>8. ASSUME NEW k \in Link PROVE CountedFirst(k)' /\ Ungiven(k)'
    <2>1. CASE k = l
      <3>1. link'[k] = fresh /\ fresh # NoLink
        BY <1>2, <1>3, <2>1, NoRows DEF LinkInv, LinkTypes
      <3>2. Charged(k)' = {} /\ opened'[k] = 0
        BY <1>4, <1>7, <2>1 DEF Charged
      <3>3. CountedFirst(k)'
        BY <1>5, <3>1, <3>2, FS_EmptySet DEF CountedFirst
      <3> QED BY <3>1, <3>3 DEF Ungiven
    <2>2. CASE k # l
      BY <1>3, <1>4, <2>2 DEF LinkInv, LinkTypes, CountedFirst, Ungiven, Charged
    <2> QED BY <2>1, <2>2
  <1> QED BY <1>6, <1>8 DEF LinkInv

LEMMA OwnerKeeps ==
  ASSUME LinkInv, NEW l \in Link,
         (\E u \in Sharer : handleRevokeShare(u, l)) \/ Expire(l) \/ DeleteStale(l)
  PROVE  LinkInv'
  <1>1. link[l] \in LinkRow
    BY LinkThere DEF LinkInv, handleRevokeShare, Revoke, Expire, DeleteStale
  <1>2. /\ visit' = visit /\ opened' = opened
        /\ \/ link' = [link EXCEPT ![l].revoked = TRUE]
           \/ link' = [link EXCEPT ![l].expired = TRUE]
           \/ link' = [link EXCEPT ![l] = Gone]
    BY DEF handleRevokeShare, Revoke, Expire, DeleteStale
  <1>3. \/ link'[l] = Gone
        \/ /\ link[l].there /\ link'[l] \in LinkRow
           /\ link'[l].cap = link[l].cap /\ link'[l].count = link[l].count
    <2>1. \A w \in LinkRow : /\ w.there
                             /\ [w EXCEPT !.revoked = TRUE] \in LinkRow
                             /\ [w EXCEPT !.revoked = TRUE].cap = w.cap
                             /\ [w EXCEPT !.revoked = TRUE].count = w.count
                             /\ [w EXCEPT !.expired = TRUE] \in LinkRow
                             /\ [w EXCEPT !.expired = TRUE].cap = w.cap
                             /\ [w EXCEPT !.expired = TRUE].count = w.count
      BY DEF LinkRow
    <2>2. link'[l] \in {[link[l] EXCEPT !.revoked = TRUE], [link[l] EXCEPT !.expired = TRUE], Gone}
      BY <1>2 DEF LinkInv, LinkTypes
    <2> QED BY <1>1, <2>1, <2>2
  <1>4. \A k \in Link : k # l => link'[k] = link[k]
    BY <1>2 DEF LinkInv, LinkTypes
  <1>5. link' = [k \in Link |-> link'[k]]
    BY <1>2 DEF LinkInv, LinkTypes
  <1> QED BY <1>2, <1>3, <1>4, <1>5, CountsLeft

LEMMA TreeChangeKeepsLinks ==
  ASSUME LinkInv, NEW u \in Sharer, TreeChange(u)
  PROVE  LinkInv'
  <1>1. visit' = visit /\ opened' = opened /\ link' = LinksOf(node')
    BY DEF TreeChange
  <1>2. \A l \in Link : link'[l] \in {link[l], Gone}
    BY <1>1 DEF LinksOf
  <1>3. link' = [l \in Link |-> link'[l]]
    BY <1>1 DEF LinksOf
  <1> QED BY <1>1, <1>2, <1>3, CountsLeft

LEMMA UnlockKeeps ==
  ASSUME LinkInv, NEW v \in Visitor, NEW l \in Link, handleShareUnlock(v, l)
  PROVE  LinkInv'
  <1>1. link' = link /\ visit' = visit /\ opened' = opened
    BY DEF handleShareUnlock
  <1>2. link' = [k \in Link |-> link'[k]]
    BY <1>1 DEF LinkInv, LinkTypes
  <1> QED BY <1>1, <1>2, CountsLeft

LEMMA ContentKeeps ==
  ASSUME LinkInv, NEW v \in Visitor, NEW l \in Link, NEW rel \in RelPaths,
         handleShareContent(v, l, rel)
  PROVE  LinkInv'
  <1> DEFINE w == [at |-> "root", link |-> l, owner |-> link[l].owner, shared |-> link[l].node,
                   rel |-> rel]
  <1>1. Visits(v, w) /\ link[l].there
    BY DEF handleShareContent, OpenContent, checkValidity
  <1>2. link[l] \in LinkRow
    BY <1>1, LinkThere DEF LinkInv
  <1>3. w \in RootVisit
    BY <1>2, LinkRows DEF RootVisit
  <1>4. w.link = l /\ w.at = "root"
    OBVIOUS
  <1> HIDE DEF w
  <1>5. VisitOK(w)
    BY <1>3 DEF VisitOK
  <1>6. link[w.link] # NoLink
    BY <1>2, <1>4, NoRows
  <1> QED BY <1>1, <1>4, <1>5, <1>6, VisitGoesOn

\* The answers of resolveNode: nothing, the node, or the path to look for.
LEMMA ResolvesKeeps ==
  ASSUME LinkInv, NEW v \in Visitor, visit[v] # NoVisit, NEW i \in Node, NEW root,
         \/ Visits(v, NoVisit)
         \/ Visits(v, [at |-> "charge", link |-> visit[v].link, owner |-> visit[v].owner, id |-> i,
                       file |-> node[i].kind = "file"])
         \/ Visits(v, [at |-> "path", link |-> visit[v].link, owner |-> visit[v].owner,
                       rel |-> visit[v].rel, root |-> root])
  PROVE  LinkInv'
  <1> DEFINE c == [at |-> "charge", link |-> visit[v].link, owner |-> visit[v].owner, id |-> i,
                   file |-> node[i].kind = "file"]
             p == [at |-> "path", link |-> visit[v].link, owner |-> visit[v].owner,
                   rel |-> visit[v].rel, root |-> root]
  <1>1. visit[v].link \in Link /\ link[visit[v].link] # NoLink /\ visit[v].owner \in User
    BY RequestKnown
  <1>2. c \in LateVisit
    <2>1. (node[i].kind = "file") \in BOOLEAN
      OBVIOUS
    <2> QED BY <1>1, <2>1 DEF LateVisit
  <1>3. c.link = visit[v].link /\ c.at = "charge"
    OBVIOUS
  <1>4. p.link = visit[v].link /\ p.at = "path" /\ p.owner = visit[v].owner
    OBVIOUS
  <1>5. Visits(v, NoVisit) \/ Visits(v, c) \/ Visits(v, p)
    OBVIOUS
  <1> HIDE DEF c, p
  <1>6. VisitOK(NoVisit) /\ VisitOK(c) /\ VisitOK(p)
    BY <1>1, <1>2, <1>4 DEF VisitOK
  <1>7. CASE Visits(v, NoVisit)
    BY <1>6, <1>7, NoRows, VisitGoesOn
  <1>8. CASE Visits(v, c)
    BY <1>1, <1>3, <1>6, <1>8, VisitGoesOn
  <1>9. CASE Visits(v, p)
    BY <1>1, <1>4, <1>6, <1>9, VisitGoesOn
  <1> QED BY <1>5, <1>7, <1>8, <1>9

LEMMA ResolveKeeps ==
  ASSUME LinkInv, NEW v \in Visitor, ResolveRoot(v) \/ ResolvePath(v) \/ View(v)
  PROVE  LinkInv'
  <1>1. visit[v] # NoVisit
    BY NoRows DEF ResolveRoot, ResolvePath, View
  <1>2. CASE ResolveRoot(v)
    <2>1. visit[v].shared \in Node
      BY <1>1, <1>2 DEF ResolveRoot, LinkInv, LinkTypes, VisitOK, RootVisit, LateVisit
    <2> QED BY <1>1, <1>2, <2>1, ResolvesKeeps DEF ResolveRoot
  <1>3. CASE ResolvePath(v)
    <2>1. Visits(v, NoVisit) \/ \E i \in Node :
            Visits(v, [at |-> "charge", link |-> visit[v].link, owner |-> visit[v].owner, id |-> i,
                       file |-> node[i].kind = "file"])
      BY <1>3 DEF ResolvePath
    <2>2. CASE Visits(v, NoVisit)
      BY <2>2, NoRows, VisitGoesOn DEF VisitOK
    <2> QED BY <1>1, <2>1, <2>2, ResolvesKeeps
  <1>4. CASE View(v)
    BY <1>4, NoRows, VisitGoesOn DEF View, VisitOK
  <1> QED BY <1>2, <1>3, <1>4

\* The download is counted in the statement that checks the cap, before its stream opens.
LEMMA ChargeKeeps ==
  ASSUME LinkInv, NEW v \in Visitor, TryIncrementDownload(v)
  PROVE  LinkInv'
  <1> DEFINE w == visit[v]
  <1>1. w.at = "charge" /\ w # NoVisit
    BY NoRows DEF TryIncrementDownload
  <1>2. w.link \in Link /\ link[w.link] # NoLink /\ w \in LateVisit
    BY <1>1, RequestKnown DEF LinkInv, LinkTypes, VisitOK, RootVisit
  <1>3. CASE ~Chargeable(link[w.link])
    BY <1>3, NoRows, VisitGoesOn DEF TryIncrementDownload, VisitOK
  <1>4. CASE Chargeable(link[w.link])
    <2> PICK l \in Link : l = w.link
      BY <1>2
    <2>1. /\ link' = [link EXCEPT ![l].count = @ + 1]
          /\ visit' = [visit EXCEPT ![v].at = "open"]
          /\ opened' = opened
      BY <1>4 DEF TryIncrementDownload
    <2>2. /\ link[l] \in LinkRow /\ link[l].there /\ link[l].count \in Nat
          /\ link[l].cap \subseteq Nat /\ \A c \in link[l].cap : link[l].count < c
      BY <1>4, LinkThere, LinkRows DEF LinkInv, Chargeable
    <2>3. PICK m \in Nat : m = link[l].count + 1
      BY <2>2
    <2>4. link'[l] = [link[l] EXCEPT !.count = m]
      BY <2>1, <2>3 DEF LinkInv, LinkTypes
    <2>5. /\ link'[l] \in LinkRow /\ link'[l].count = m /\ link'[l].cap = link[l].cap
          /\ link'[l].there
      BY <2>2, <2>4 DEF LinkRow
    <2>6. \A k \in Link : k # l => link'[k] = link[k]
      BY <2>1 DEF LinkInv, LinkTypes
    <2>7. /\ visit'[v] = [w EXCEPT !.at = "open"]
          /\ \A x \in Visitor : x # v => visit'[x] = visit[x]
          /\ visit' = [x \in Visitor |-> visit'[x]]
      BY <2>1 DEF LinkInv, LinkTypes
    <2>8. visit'[v] \in LateVisit /\ visit'[v].at = "open" /\ visit'[v].link = l
      BY <1>2, <2>7 DEF LateVisit
    <2>9. LinkTypes'
      <3>1. link' \in [Link -> LinkRow \cup {NoLink, Gone}]
        BY <2>1, <2>5, <2>6 DEF LinkInv, LinkTypes
      <3>2. \A x \in Visitor : VisitOK(visit'[x])
        BY <2>7, <2>8 DEF LinkInv, LinkTypes, VisitOK
      <3> QED BY <2>1, <2>7, <3>1, <3>2 DEF LinkInv, LinkTypes, VisitOK
    <2>10. ASSUME NEW k \in Link PROVE Ungiven(k)'
      BY <1>2, <2>1, <2>5, <2>6, <2>7, <2>8, NoRows DEF LinkInv, Ungiven
    <2>11. CountedFirst(l)'
      <3>1. \A c \in link'[l].cap : link'[l].count <= c
        BY <2>2, <2>3, <2>5
      <3>2. ASSUME NEW F \in SUBSET Charged(l)', IsFiniteSet(F)
            PROVE  opened'[l] + Cardinality(F) <= link'[l].count
        <4>1. F \ {v} \in SUBSET Charged(l)
          BY <2>7 DEF Charged
        <4>2. /\ IsFiniteSet(F \ {v}) /\ Cardinality(F \ {v}) \in Nat /\ Cardinality(F) \in Nat
              /\ Cardinality(F) <= Cardinality(F \ {v}) + 1
          <5>1. IsFiniteSet(F \ {v}) /\ Cardinality(F \ {v}) \in {Cardinality(F), Cardinality(F) - 1}
            BY <3>2, FS_RemoveElement
          <5>2. Cardinality(F) \in Nat /\ Cardinality(F \ {v}) \in Nat
            BY <3>2, <5>1, FS_CardinalityType
          <5> QED BY <5>1, <5>2
        <4>3. opened[l] + Cardinality(F \ {v}) <= link[l].count /\ opened[l] \in Nat
          BY <2>2, <4>1, <4>2 DEF LinkInv, CountedFirst, LinkTypes
        <4> QED BY <2>1, <2>2, <2>3, <2>5, <4>2, <4>3
      <3> QED BY <3>1, <3>2 DEF CountedFirst
    <2>12. ASSUME NEW k \in Link, k # l PROVE CountedFirst(k)'
      <3>1. Charged(k)' = Charged(k)
        <4>1. visit[v].at # "open" /\ visit'[v].link # k
          BY <1>1, <2>8, <2>12
        <4> QED BY <2>7, <4>1 DEF Charged
      <3> QED BY <2>1, <2>6, <2>12, <3>1 DEF LinkInv, CountedFirst
    <2> QED BY <2>9, <2>10, <2>11, <2>12 DEF LinkInv
  <1> QED BY <1>3, <1>4

LEMMA OpenKeeps ==
  ASSUME LinkInv, NEW v \in Visitor, Open(v)
  PROVE  LinkInv'
  <1>1. visit[v].at = "open" /\ visit[v] # NoVisit
    BY NoRows DEF Open
  <1> PICK l \in Link : l = visit[v].link /\ link[l] # NoLink
    BY <1>1, RequestKnown
  <1>2. /\ link' = link /\ visit' = [visit EXCEPT ![v] = NoVisit]
        /\ opened' = opened \/ opened' = [opened EXCEPT ![l] = @ + 1]
    BY DEF Open
  <1>3. /\ visit'[v] = NoVisit /\ \A x \in Visitor : x # v => visit'[x] = visit[x]
        /\ visit' = [x \in Visitor |-> visit'[x]]
    BY <1>2 DEF LinkInv, LinkTypes
  <1>4. /\ opened \in [Link -> Nat] /\ opened' \in [Link -> Nat]
        /\ opened'[l] \in {opened[l], opened[l] + 1}
        /\ \A k \in Link : k # l => opened'[k] = opened[k]
    BY <1>2 DEF LinkInv, LinkTypes
  <1>5. LinkTypes'
    BY <1>2, <1>3, <1>4 DEF LinkInv, LinkTypes, VisitOK
  <1>6. ASSUME NEW k \in Link PROVE Ungiven(k)'
    BY <1>2, <1>3, <1>4 DEF LinkInv, Ungiven
  <1>7. Charged(l)' = Charged(l) \ {v} /\ v \in Charged(l)
    BY <1>1, <1>3, NoRows DEF Charged
  <1>8. CountedFirst(l)'
    <2> SUFFICES ASSUME link[l].there, NEW F \in SUBSET (Charged(l) \ {v}), IsFiniteSet(F)
                 PROVE  opened'[l] + Cardinality(F) <= link[l].count
      BY <1>2, <1>7 DEF CountedFirst, LinkInv
    <2>1. F \cup {v} \in SUBSET Charged(l) /\ v \notin F
      BY <1>7
    <2>2. IsFiniteSet(F \cup {v}) /\ Cardinality(F \cup {v}) = Cardinality(F) + 1
          /\ Cardinality(F) \in Nat
      BY <2>1, FS_AddElement, FS_CardinalityType
    <2>3. opened[l] + (Cardinality(F) + 1) <= link[l].count
      BY <2>1, <2>2 DEF LinkInv, CountedFirst
    <2>4. link[l].count \in Nat
      BY LinkThere, LinkRows DEF LinkInv
    <2> QED BY <1>4, <2>2, <2>3, <2>4
  <1>9. ASSUME NEW k \in Link, k # l PROVE CountedFirst(k)'
    <2>1. Charged(k)' = Charged(k)
      BY <1>3, <1>9, NoRows DEF Charged
    <2> QED BY <1>2, <1>4, <1>9, <2>1 DEF LinkInv, CountedFirst
  <1> QED BY <1>5, <1>6, <1>8, <1>9 DEF LinkInv

LEMMA LinkStep == LinkInv /\ [ShareNext]_shareVars => LinkInv'
  <1> SUFFICES ASSUME LinkInv, [ShareNext]_shareVars PROVE LinkInv'
    OBVIOUS
  <1>1. CASE ShareStep
    <2>1. CASE \E u \in Sharer, l \in Link :
                 handleRevokeShare(u, l) \/ \E i \in Node : handleCreateShare(u, l, i)
      BY <2>1, CreateLinkKeeps, OwnerKeeps
    <2>2. CASE \E l \in Link : Expire(l) \/ DeleteStale(l)
      BY <2>2, OwnerKeeps
    <2>3. CASE \E u \in Sharer : TreeChange(u)
      BY <2>3, TreeChangeKeepsLinks
    <2>4. CASE \E v \in Visitor, l \in Link :
                 handleShareUnlock(v, l) \/ \E rel \in RelPaths : handleShareContent(v, l, rel)
      BY <2>4, UnlockKeeps, ContentKeeps
    <2>5. CASE \E v \in Visitor : \/ ResolveRoot(v) \/ ResolvePath(v) \/ View(v)
                                  \/ TryIncrementDownload(v) \/ Open(v)
      BY <2>5, ResolveKeeps, ChargeKeeps, OpenKeeps
    <2> QED BY <1>1, <2>1, <2>2, <2>3, <2>4, <2>5 DEF ShareStep
  <1>2. CASE UNCHANGED shareVars
    <2>1. link' = [k \in Link |-> link'[k]]
      BY <1>2 DEF shareVars, LinkInv, LinkTypes
    <2> QED BY <1>2, <2>1, CountsLeft DEF shareVars
  <1> QED BY <1>1, <1>2 DEF ShareNext

\* However many visitors race for the last download of a link, and whatever its owner
\* does meanwhile, no more streams are opened than its cap allows
\* (shares.go, TryIncrementDownload).
THEOREM LinkCapsHold == ShareSpec => []CapHolds
  <1>1. LinkInv => CapHolds
    <2> SUFFICES ASSUME LinkInv, NEW l \in Link, link[l].there
                 PROVE  opened[l] <= link[l].count /\ \A c \in link[l].cap : link[l].count <= c
      BY DEF CapHolds
    <2>1. opened[l] + Cardinality({}) <= link[l].count /\ opened[l] \in Nat
      BY FS_EmptySet DEF LinkInv, CountedFirst, LinkTypes
    <2>2. link[l].count \in Nat
      BY LinkThere, LinkRows DEF LinkInv
    <2> QED BY <2>1, <2>2, FS_EmptySet DEF LinkInv, CountedFirst
  <1> QED BY <1>1, LinkInit, LinkStep, PTL DEF ShareSpec

-----------------------------------------------------------------------------
(* The tree that grants are given on                                       *)

Tables == [Node -> NodeRow \cup {NoNode}]

\* The rows that are there stay, and stay their owner's.
OwnersKept(t, new) == \A i \in Node : t[i].there => new[i].there /\ new[i].owner = t[i].owner

LEMMA RowShapes ==
  /\ ~NoNode.there
  /\ \A w \in NodeRow : /\ w.there /\ w.owner \in User /\ w.path \in Seq(Name)
                        /\ \A s \in Node \cup {Live} :
                             /\ [w EXCEPT !.trash = s] \in NodeRow
                             /\ [w EXCEPT !.trash = s].owner = w.owner
                        /\ \A p \in Seq(Name) :
                             /\ [w EXCEPT !.path = p] \in NodeRow
                             /\ [w EXCEPT !.path = p].owner = w.owner
                             /\ \A i \in Node, n \in Name :
                                  /\ [w EXCEPT !.parent = i, !.name = n, !.path = p] \in NodeRow
                                  /\ [w EXCEPT !.parent = i, !.name = n, !.path = p].owner = w.owner
  BY DEF NodeRow, NoNode

LEMMA ThereIsRow ==
  ASSUME NEW t \in Tables, NEW i \in Node, t[i].there
  PROVE  t[i] \in NodeRow
  BY RowShapes DEF Tables

LEMMA CreatedRows ==
  ASSUME NEW t \in Tables, NEW u \in User, NEW i \in Node, ~t[i].there, NEW p \in Node, NEW n \in Name,
         NEW kind \in {"file", "folder"}
  PROVE  Created(t, u, i, p, n, kind) \in Tables /\ OwnersKept(t, Created(t, u, i, p, n, kind))
  <1> DEFINE row == [there |-> TRUE, owner |-> u, kind |-> kind, parent |-> p,
                     name |-> n, path |-> Append(t[p].path, n), trash |-> Live]
  <1>1. CASE GetLive(t, u, p)
    <2>1. t[p].path \in Seq(Name)
      BY <1>1, ThereIsRow, RowShapes DEF GetLive, Owns
    <2>2. Append(t[p].path, n) \in Seq(Name)
      BY <2>1
    <2>3. row \in NodeRow
      BY <2>2 DEF NodeRow
    <2> HIDE DEF row
    <2>4. [t EXCEPT ![i] = row] \in Tables /\ OwnersKept(t, [t EXCEPT ![i] = row])
      BY <2>3 DEF Tables, OwnersKept
    <2>5. OwnersKept(t, t)
      BY DEF OwnersKept
    <2>6. Created(t, u, i, p, n, kind) \in {t, [t EXCEPT ![i] = row]}
      BY DEF Created, OrRefused, row
    <2> QED BY <2>4, <2>5, <2>6
  <1>2. CASE ~GetLive(t, u, p)
    BY <1>2 DEF Created, OwnersKept
  <1> QED BY <1>1, <1>2

LEMMA MarkedRows ==
  ASSUME NEW t \in Tables, NEW u \in User, NEW i \in Node
  PROVE  /\ Trashed(t, u, i) \in Tables /\ OwnersKept(t, Trashed(t, u, i))
         /\ Restored(t, u, i) \in Tables /\ OwnersKept(t, Restored(t, u, i))
  <1>0. OwnersKept(t, t)
    BY DEF OwnersKept
  <1>1. ASSUME NEW S \in SUBSET Node, \A j \in S : t[j].there, NEW s \in Node \cup {Live}, NEW m,
               m = [j \in Node |-> IF j \in S THEN [t[j] EXCEPT !.trash = s] ELSE t[j]]
        PROVE  m \in Tables /\ OwnersKept(t, m)
    <2>1. \A j \in S : t[j] \in NodeRow
      BY <1>1, ThereIsRow
    <2> QED BY <1>1, <2>1, RowShapes DEF Tables, OwnersKept
  <1>2. PICK S \in SUBSET Node :
          S = {j \in Node : j = i \/ (j \in Beneath(t, u, t[i].path) /\ IsLive(t, j))}
    OBVIOUS
  <1>3. PICK R \in SUBSET Node : R = {j \in Node : t[j].there /\ t[j].trash = i}
    OBVIOUS
  <1>4. Trashed(t, u, i) \in Tables /\ OwnersKept(t, Trashed(t, u, i))
    <2>1. CASE GetLive(t, u, i) /\ i \notin Roots
      <3>1. \A j \in S : t[j].there
        BY <1>2, <2>1 DEF GetLive, Owns, IsLive
      <3>2. Trashed(t, u, i) = [j \in Node |-> IF j \in S THEN [t[j] EXCEPT !.trash = i] ELSE t[j]]
        BY <1>2, <2>1 DEF Trashed
      <3> QED BY <1>1, <3>1, <3>2
    <2>2. CASE ~(GetLive(t, u, i) /\ i \notin Roots)
      <3>1. Trashed(t, u, i) = t
        BY <2>2 DEF Trashed
      <3> QED BY <1>0, <3>1
    <2> QED BY <2>1, <2>2
  <1>5. [j \in Node |-> IF t[j].there /\ t[j].trash = i THEN [t[j] EXCEPT !.trash = Live] ELSE t[j]]
          = [j \in Node |-> IF j \in R THEN [t[j] EXCEPT !.trash = Live] ELSE t[j]]
    BY <1>3
  <1>6. \/ Restored(t, u, i) = t
        \/ Restored(t, u, i) = [j \in Node |-> IF j \in R THEN [t[j] EXCEPT !.trash = Live] ELSE t[j]]
    BY <1>5 DEF Restored, OrRefused
  <1>7. \A j \in R : t[j].there
    BY <1>3
  <1>8. Restored(t, u, i) \in Tables /\ OwnersKept(t, Restored(t, u, i))
    BY <1>0, <1>1, <1>6, <1>7
  <1> QED BY <1>4, <1>8

LEMMA MovedRows ==
  ASSUME NEW t \in Tables, NEW u \in User, NEW i \in Node, NEW p \in Node, NEW n \in Name
  PROVE  Moved(t, u, i, p, n) \in Tables /\ OwnersKept(t, Moved(t, u, i, p, n))
  <1> DEFINE old == t[i].path
             new == Append(t[p].path, n)
             below == IF t[i].kind = "folder" THEN Beneath(t, u, old) ELSE {}
             row(j) == CASE j = i -> [t[j] EXCEPT !.parent = p, !.name = n, !.path = new]
                         [] j \in below -> [t[j] EXCEPT !.path = new \o SubSeq(@, Len(old) + 1, Len(@))]
                         [] OTHER -> t[j]
             moved == [j \in Node |-> row(j)]
  <1>0. OwnersKept(t, t)
    BY DEF OwnersKept
  <1>1. CASE GetLive(t, u, i) /\ GetLive(t, u, p)
    <2>1. t[i] \in NodeRow /\ t[p] \in NodeRow
      BY <1>1, ThereIsRow DEF GetLive, Owns
    <2>2. t[i].path \in Seq(Name) /\ t[p].path \in Seq(Name)
      BY <2>1, RowShapes
    <2>3. new \in Seq(Name) /\ Len(old) \in Nat
      BY <2>2
    <2>4. ASSUME NEW j \in below
          PROVE  /\ t[j] \in NodeRow
                 /\ new \o SubSeq(t[j].path, Len(old) + 1, Len(t[j].path)) \in Seq(Name)
      <3>1. t[j] \in NodeRow
        BY <2>4, ThereIsRow DEF Beneath, Owns
      <3>2. t[j].path \in Seq(Name)
        BY <3>1, RowShapes
      <3>3. SubSeq(t[j].path, Len(old) + 1, Len(t[j].path)) \in Seq(Name)
        BY <2>3, <3>2, SubSeqProperties
      <3> QED BY <2>3, <3>1, <3>3
    <2>5. Moved(t, u, i, p, n) = t \/ Moved(t, u, i, p, n) = moved
      <3>1. OrRefused(t, moved) = t \/ OrRefused(t, moved) = moved
        <4> HIDE DEF moved
        <4> QED BY DEF OrRefused
      <3> DEFINE allowed == /\ GetLive(t, u, i) /\ i \notin Roots
                            /\ GetLive(t, u, p) /\ t[p].kind = "folder"
                            /\ ~(t[i].kind = "folder" /\ IsPrefix(old, t[p].path))
                            /\ SamePath \/ below \subseteq Family(t, i)
      <3>2. Moved(t, u, i, p, n) = IF allowed THEN OrRefused(t, moved) ELSE t
        BY Zenon DEF Moved
      <3> HIDE DEF moved, allowed
      <3> QED BY <3>1, <3>2
    <2>0. i \notin below
      BY DEF Beneath, IsStrictPrefix
    <2> HIDE DEF old, new, below
    <2>6. ASSUME NEW j \in Node
          PROVE  /\ row(j) \in NodeRow \cup {NoNode}
                 /\ t[j].there => row(j).there /\ row(j).owner = t[j].owner
      <3>1. CASE j = i
        <4>1. row(j) = [t[j] EXCEPT !.parent = p, !.name = n, !.path = new]
          BY <2>0, <3>1
        <4> HIDE DEF row
        <4>2. row(j) \in NodeRow /\ row(j).there /\ row(j).owner = t[j].owner
          BY <2>1, <2>3, <3>1, <4>1 DEF NodeRow
        <4> QED BY <4>2
      <3>2. CASE j # i /\ j \in below
        <4>1. row(j) = [t[j] EXCEPT !.path = new \o SubSeq(@, Len(old) + 1, Len(@))]
          BY <3>2
        <4> HIDE DEF row
        <4>2. row(j) \in NodeRow /\ row(j).there /\ row(j).owner = t[j].owner
          BY <2>4, <3>2, <4>1 DEF NodeRow
        <4> QED BY <4>2
      <3>3. CASE j # i /\ j \notin below
        <4>1. row(j) = t[j]
          BY <3>3
        <4> HIDE DEF row
        <4> QED BY <4>1 DEF Tables
      <3> QED BY <3>1, <3>2, <3>3
    <2> HIDE DEF row
    <2>7. moved \in Tables /\ OwnersKept(t, moved)
      BY <2>6 DEF Tables, OwnersKept
    <2> QED BY <1>0, <2>5, <2>7
  <1>2. CASE ~(GetLive(t, u, i) /\ GetLive(t, u, p))
    <2>1. Moved(t, u, i, p, n) = t
      BY <1>2 DEF Moved
    <2> HIDE DEF moved
    <2> QED BY <1>0, <2>1
  <1> QED BY <1>1, <1>2

LEMMA PurgedRows ==
  ASSUME NEW t \in Tables, NEW u \in User, NEW i \in Node
  PROVE  /\ Purged(t, u, i) \in Tables
         /\ \A j \in Node : Purged(t, u, i)[j].there => Purged(t, u, i)[j] = t[j]
  BY RowShapes DEF Purged, Tables

-----------------------------------------------------------------------------
(* The tree that is shared                                                 *)

LEMMA PrefixOfPrefix ==
  ASSUME NEW S, NEW s \in Seq(S), NEW t \in Seq(S), NEW u \in Seq(S), IsPrefix(s, t), IsPrefix(t, u)
  PROVE  IsPrefix(s, u)
  <1>1. PICK l \in Nat, m \in Nat, n \in Nat : l = Len(s) /\ m = Len(t) /\ n = Len(u)
    BY LenProperties
  <1>2. l <= m /\ \A i \in 1 .. l : s[i] = t[i]
    BY <1>1, PrefixElements
  <1>3. m <= n /\ \A i \in 1 .. m : t[i] = u[i]
    BY <1>1, PrefixElements
  <1>4. l <= n /\ \A i \in 1 .. l : s[i] = u[i]
    BY <1>1, <1>2, <1>3
  <1> QED BY <1>1, <1>4, PrefixElements

LEMMA ARow ==
  ASSUME NEW t, SoundTree(t), NEW i \in Node
  PROVE  /\ t[i] = NoNode \/ t[i] \in NodeRow
         /\ t[i].there <=> t[i] \in NodeRow
         /\ t[i].there => /\ t[i].owner \in User /\ t[i].parent \in Node /\ t[i].path \in Seq(Name)
                          /\ t[i].trash \in Node \cup {Live} /\ Len(t[i].path) \in Nat
  <1>1. t[i] \in NodeRow \cup {NoNode}
    BY DEF SoundTree
  <1>2. /\ ~NoNode.there
        /\ \A w \in NodeRow : /\ w.there /\ w.owner \in User /\ w.parent \in Node /\ w.path \in Seq(Name)
                              /\ w.trash \in Node \cup {Live}
    BY DEF NodeRow, NoNode
  <1>3. t[i].there <=> t[i] \in NodeRow
    BY <1>1, <1>2
  <1>4. t[i].there => Len(t[i].path) \in Nat
    BY <1>2, <1>3, LenProperties
  <1> QED BY <1>1, <1>2, <1>3, <1>4

LEMMA ARoot ==
  ASSUME NEW t, SoundTree(t), NEW r \in Roots
  PROVE  /\ r \in Node /\ IsLive(t, r) /\ t[r].path = <<>> /\ t[r].parent = r /\ t[r].kind = "folder"
         /\ \A q \in Roots : t[q].owner = t[r].owner => q = r
  <1>1. ASSUME NEW u \in User
        PROVE  /\ RootOf[u] \in Node /\ t[RootOf[u]] = RootRow(u) /\ RootRow(u).owner = u
               /\ RootRow(u).there /\ RootRow(u).trash = Live /\ RootRow(u).path = <<>>
               /\ RootRow(u).parent = RootOf[u] /\ RootRow(u).kind = "folder"
    BY SharedTreeAssumption DEF SoundTree, RootRow
  <1>2. PICK u \in User : r = RootOf[u]
    BY DEF Roots
  <1>3. ASSUME NEW q \in Roots, t[q].owner = t[r].owner PROVE q = r
    <2>1. PICK v \in User : q = RootOf[v]
      BY DEF Roots
    <2> QED BY <1>1, <1>2, <1>3, <2>1
  <1> QED BY <1>1, <1>2, <1>3 DEF IsLive

\* A node and its folder, one level above.
LEMMA InFolder ==
  ASSUME NEW t, SoundTree(t), NEW i \in Node \ Roots, t[i].there
  PROVE  \E p \in Node, n \in Name, k \in Nat :
           /\ p = t[i].parent /\ n = t[i].name /\ k = Len(t[p].path) /\ Len(t[i].path) = k + 1
           /\ t[p].there /\ t[p].owner = t[i].owner /\ t[p].kind = "folder"
           /\ t[p].path \in Seq(Name) /\ t[i].path = Append(t[p].path, n) /\ t[i].path # <<>>
           /\ IsLive(t, i) => IsLive(t, p)
  <1>1. PICK p \in Node : p = t[i].parent
    BY ARow
  <1>2. /\ t[p].there /\ t[p].owner = t[i].owner /\ t[p].kind = "folder"
        /\ t[i].name \in Name /\ t[i].path = Append(t[p].path, t[i].name)
    BY <1>1 DEF SoundTree, InFolders
  <1>3. PICK s \in Seq(Name), n \in Name : s = t[p].path /\ n = t[i].name
    BY <1>2, ARow
  <1>4. PICK k \in Nat : k = Len(s)
    BY LenProperties
  <1>5. Append(s, n) \in Seq(Name) /\ Len(Append(s, n)) = k + 1
    BY <1>4, AppendProperties
  <1>6. Append(s, n) # <<>>
    BY <1>4, <1>5, EmptySeq
  <1>7. IsLive(t, i) => IsLive(t, p)
    BY <1>1, <1>2 DEF SoundTree, Units, IsLive
  <1> QED BY <1>1, <1>2, <1>3, <1>4, <1>5, <1>6, <1>7

\* Of one owner, two live nodes do not share a path: the shortest such path would have
\* two folders.
LEMMA OneAtPath ==
  ASSUME NEW t, SoundTree(t), NEW i \in Node, NEW j \in Node, IsLive(t, i), IsLive(t, j),
         t[i].owner = t[j].owner, t[i].path = t[j].path
  PROVE  i = j
  <1> DEFINE Twin(a, b) == /\ IsLive(t, a) /\ IsLive(t, b) /\ a # b
                           /\ t[a].owner = t[b].owner /\ t[a].path = t[b].path
             S == {Len(t[a].path) : a \in {a \in Node : \E b \in Node : Twin(a, b)}}
  <1> SUFFICES ASSUME i # j PROVE FALSE
    OBVIOUS
  <1>1. S \subseteq Nat /\ S # {}
    <2>1. i \in {a \in Node : \E b \in Node : Twin(a, b)}
      OBVIOUS
    <2>2. S # {}
      BY <2>1
    <2>3. S \subseteq Nat
      BY ARow DEF IsLive
    <2> QED BY <2>2, <2>3
  <1>2. PICK n \in S : \A m \in S : n <= m
    <2> HIDE DEF S
    <2> QED BY <1>1, Smallest
  <1>3. PICK a \in Node, b \in Node : Twin(a, b) /\ n = Len(t[a].path)
    BY <1>2
  <1>4. a \notin Roots /\ b \notin Roots
    <2>1. ASSUME NEW c \in Node \ Roots, IsLive(t, c) PROVE t[c].path # <<>>
      BY <2>1, InFolder DEF IsLive
    <2>2. ASSUME NEW c \in Roots PROVE t[c].path = <<>>
      BY <2>2, ARoot
    <2>3. ~(a \in Roots /\ b \in Roots)
      BY <1>3, ARoot
    <2> QED BY <1>3, <2>1, <2>2, <2>3
  <1>5. t[a].there /\ t[b].there
    BY <1>3 DEF IsLive
  <1>6. PICK p \in Node, e \in Name, k \in Nat :
          /\ p = t[a].parent /\ e = t[a].name /\ k = Len(t[p].path) /\ Len(t[a].path) = k + 1
          /\ t[p].owner = t[a].owner /\ t[p].path \in Seq(Name) /\ t[a].path = Append(t[p].path, e)
          /\ (IsLive(t, a) => IsLive(t, p))
    BY <1>4, <1>5, InFolder
  <1>7. PICK q \in Node, f \in Name :
          /\ q = t[b].parent /\ f = t[b].name /\ t[q].owner = t[b].owner
          /\ t[q].path \in Seq(Name) /\ t[b].path = Append(t[q].path, f) /\ (IsLive(t, b) => IsLive(t, q))
    BY <1>4, <1>5, InFolder
  <1>8. t[p].path = t[q].path /\ e = f
    <2>1. PICK v \in Seq(Name), w \in Seq(Name) : v = t[p].path /\ w = t[q].path
      BY <1>6, <1>7
    <2>2. Append(v, e) = Append(w, f)
      BY <1>3, <1>6, <1>7, <2>1
    <2>3. v = w /\ e = f
      BY <2>2, SameSteps
    <2> QED BY <2>1, <2>3
  <1>9. CASE p = q
    BY <1>3, <1>4, <1>6, <1>7, <1>8, <1>9 DEF SoundTree, FreeNames
  <1>10. CASE p # q
    <2>1. Twin(p, q)
      BY <1>3, <1>6, <1>7, <1>8, <1>10
    <2>2. Len(t[p].path) \in S
      BY <2>1
    <2>3. n <= k
      BY <1>2, <1>6, <2>2
    <2>4. n = k + 1
      BY <1>3, <1>6
    <2> QED BY <2>3, <2>4
  <1> QED BY <1>9, <1>10

\* Closed along parent_id.
Upward(t, S) == \A k \in S : t[k].there => t[k].parent \in S

LEMMA AboveLeast ==
  ASSUME NEW t, SoundTree(t), NEW i \in Node
  PROVE  /\ Above(t, i) \in SUBSET Node /\ i \in Above(t, i) /\ Upward(t, Above(t, i))
         /\ \A S \in SUBSET Node : i \in S /\ Upward(t, S) => Above(t, i) \subseteq S
  <1>1. \A j : j \in Above(t, i) <=> /\ j \in Node
                                     /\ \A S \in SUBSET Node : Upward(t, S) /\ i \in S => j \in S
    BY DEF Above, Upward
  <1>2. \A k \in Node : t[k].there => t[k].parent \in Node
    BY ARow
  <1>3. ASSUME NEW k \in Above(t, i), t[k].there PROVE t[k].parent \in Above(t, i)
    <2>1. \A S \in SUBSET Node : Upward(t, S) /\ i \in S => t[k].parent \in S
      BY <1>1, <1>3 DEF Upward
    <2> QED BY <1>1, <1>2, <1>3, <2>1
  <1> QED BY <1>1, <1>3 DEF Upward

\* What is above a node is there, the same owner's and a prefix of its path.
LEMMA AboveCovers ==
  ASSUME NEW t, SoundTree(t), NEW j \in Node, t[j].there, NEW i \in Above(t, j)
  PROVE  /\ i \in Node /\ t[i].there /\ t[i].owner = t[j].owner /\ IsPrefix(t[i].path, t[j].path)
         /\ IsLive(t, j) => IsLive(t, i)
  <1>1. PICK u \in Seq(Name) : u = t[j].path /\ IsPrefix(u, u)
    BY ARow, PrefixItself
  <1>2. PICK S \in SUBSET Node :
          \A k \in Node : k \in S <=> /\ t[k].there /\ t[k].owner = t[j].owner /\ IsPrefix(t[k].path, u)
                                      /\ IsLive(t, j) => IsLive(t, k)
    <2>1. PICK S : S = {k \in Node : /\ t[k].there /\ t[k].owner = t[j].owner /\ IsPrefix(t[k].path, u)
                                     /\ IsLive(t, j) => IsLive(t, k)}
      OBVIOUS
    <2> QED BY <2>1
  <1>3. ASSUME NEW k \in S PROVE t[k].parent \in S
    <2>1. k \in Node /\ t[k].there /\ t[k].owner = t[j].owner /\ IsPrefix(t[k].path, u)
          /\ (IsLive(t, j) => IsLive(t, k))
      BY <1>2
    <2>2. CASE k \in Roots
      <3>1. t[k].parent = k
        BY <2>2, ARoot
      <3> QED BY <3>1
    <2>3. CASE k \notin Roots
      <3>1. PICK p \in Node, n \in Name :
              /\ p = t[k].parent /\ t[p].there /\ t[p].owner = t[k].owner /\ t[p].path \in Seq(Name)
              /\ t[k].path = Append(t[p].path, n) /\ (IsLive(t, k) => IsLive(t, p))
        BY <2>1, <2>3, InFolder
      <3>2. PICK s \in Seq(Name), w \in Seq(Name) : s = t[p].path /\ w = t[k].path /\ w = Append(s, n)
        BY <3>1, AppendProperties
      <3>3. IsPrefix(s, w)
        BY <3>2, PrefixItself, PrefixStep DEF IsStrictPrefix
      <3>4. IsPrefix(s, u)
        BY <2>1, <3>2, <3>3, PrefixOfPrefix
      <3> QED BY <1>2, <2>1, <3>1, <3>2, <3>4
    <2> QED BY <2>2, <2>3
  <1>4. j \in S /\ Upward(t, S)
    BY <1>1, <1>2, <1>3 DEF Upward
  <1>5. i \in S
    BY <1>4, AboveLeast
  <1> QED BY <1>1, <1>2, <1>5

\* What is above a node, but for the node itself, is above its folder, and the other way round.
LEMMA AboveFolder ==
  ASSUME NEW t, SoundTree(t), NEW j \in Node, t[j].there
  PROVE  Above(t, j) = {j} \cup Above(t, t[j].parent)
  <1>1. PICK p \in Node : p = t[j].parent
    BY ARow
  <1>2. PICK A \in SUBSET Node, B \in SUBSET Node : A = Above(t, j) /\ B = Above(t, p)
    BY AboveLeast
  <1>3. /\ j \in A /\ Upward(t, A) /\ \A S \in SUBSET Node : j \in S /\ Upward(t, S) => A \subseteq S
        /\ p \in B /\ Upward(t, B) /\ \A S \in SUBSET Node : p \in S /\ Upward(t, S) => B \subseteq S
    BY <1>2, AboveLeast
  <1>4. p \in A
    BY <1>1, <1>3 DEF Upward
  <1>5. B \subseteq A
    BY <1>3, <1>4
  <1>6. PICK C \in SUBSET Node : C = {j} \cup B
    OBVIOUS
  <1>7. Upward(t, C) /\ j \in C
    BY <1>1, <1>3, <1>6 DEF Upward
  <1>8. A \subseteq C
    BY <1>3, <1>7
  <1> QED BY <1>1, <1>2, <1>3, <1>5, <1>6, <1>8

\* Nothing is above a root.
LEMMA AboveRoot ==
  ASSUME NEW t, SoundTree(t), NEW r \in Roots PROVE Above(t, r) = {r}
  <1>1. r \in Node /\ t[r].parent = r
    BY ARoot
  <1>2. Upward(t, {r}) /\ {r} \in SUBSET Node
    BY <1>1 DEF Upward
  <1>3. Above(t, r) \subseteq {r} /\ r \in Above(t, r)
    BY <1>1, <1>2, AboveLeast
  <1> QED BY <1>3

\* What is above another node has a shorter path.
LEMMA AboveShorter ==
  ASSUME NEW t, SoundTree(t), NEW j \in Node, t[j].there, NEW i \in Above(t, j), i # j
  PROVE  IsStrictPrefix(t[i].path, t[j].path) /\ j \notin Roots /\ i \in Above(t, t[j].parent)
  <1>1. j \notin Roots
    BY AboveRoot
  <1>2. PICK p \in Node, n \in Name :
          /\ p = t[j].parent /\ t[p].there /\ t[p].path \in Seq(Name) /\ t[j].path = Append(t[p].path, n)
    BY <1>1, InFolder
  <1>3. i \in Above(t, p)
    BY <1>2, AboveFolder
  <1>4. IsPrefix(t[i].path, t[p].path) /\ t[i].path \in Seq(Name)
    BY <1>2, <1>3, AboveCovers, ARow
  <1>5. IsStrictPrefix(t[i].path, t[j].path)
    BY <1>2, <1>4, PrefixStep
  <1> QED BY <1>1, <1>2, <1>3, <1>5

\* A live node is below each live node of its owner whose path covers its own: of those
\* that are not, the one with the shortest path would have a folder that is not.
LEMMA CoversAbove ==
  ASSUME NEW t, SoundTree(t), NEW g \in Node, IsLive(t, g), NEW i \in Node, IsLive(t, i),
         t[g].owner = t[i].owner, IsPrefix(t[g].path, t[i].path)
  PROVE  g \in Above(t, i)
  <1> DEFINE Stray(a) == /\ IsLive(t, a) /\ t[g].owner = t[a].owner /\ IsPrefix(t[g].path, t[a].path)
                         /\ g \notin Above(t, a)
             S == {Len(t[a].path) : a \in {a \in Node : Stray(a)}}
  <1> SUFFICES ASSUME g \notin Above(t, i) PROVE FALSE
    OBVIOUS
  <1>1. S \subseteq Nat /\ S # {}
    <2>1. i \in {a \in Node : Stray(a)}
      OBVIOUS
    <2>2. S # {}
      BY <2>1
    <2>3. S \subseteq Nat
      BY ARow DEF IsLive
    <2> QED BY <2>2, <2>3
  <1>2. PICK n \in S : \A m \in S : n <= m
    <2> HIDE DEF S
    <2> QED BY <1>1, Smallest
  <1>3. PICK a \in Node : Stray(a) /\ n = Len(t[a].path)
    BY <1>2
  <1>4. PICK s \in Seq(Name) : s = t[g].path
    BY ARow DEF IsLive
  <1>5. a # g
    BY <1>3, AboveLeast
  <1>6. t[a].path # s
    BY <1>3, <1>4, <1>5, OneAtPath
  <1>7. IsStrictPrefix(s, t[a].path)
    BY <1>3, <1>4, <1>6 DEF IsStrictPrefix
  <1>8. a \notin Roots
    BY <1>4, <1>7, ARoot, PrefixOfEmpty
  <1>9. PICK p \in Node, e \in Name, k \in Nat :
          /\ p = t[a].parent /\ k = Len(t[p].path) /\ Len(t[a].path) = k + 1
          /\ t[p].owner = t[a].owner /\ t[p].path \in Seq(Name) /\ t[a].path = Append(t[p].path, e)
          /\ (IsLive(t, a) => IsLive(t, p))
    <2>1. t[a].there
      BY <1>3 DEF IsLive
    <2> QED BY <1>8, <2>1, InFolder
  <1>10. IsPrefix(s, t[p].path)
    BY <1>7, <1>9, PrefixStep
  <1>11. g \notin Above(t, p)
    BY <1>3, <1>9, AboveFolder DEF IsLive
  <1>12. Stray(p)
    BY <1>3, <1>4, <1>9, <1>10, <1>11
  <1>13. k \in S
    BY <1>9, <1>12
  <1>14. n <= k
    BY <1>2, <1>13
  <1>15. k \in Nat /\ n = k + 1
    BY <1>3, <1>9
  <1> HIDE DEF S, Stray
  <1> QED BY <1>14, <1>15

\* What the properties of a table say of one row.
RowInTree(t, i) ==
  LET p == t[i].parent
      d == t[i].trash
  IN /\ p \in Node /\ t[p].there /\ t[p].owner = t[i].owner /\ t[p].kind = "folder"
     /\ t[i].name \in Name /\ t[i].path = Append(t[p].path, t[i].name)
     /\ IF d = Live THEN t[p].trash = Live
        ELSE d \in Node /\ t[d].there /\ t[d].trash = d /\ (i # d => t[p].trash = d)

LEMMA RowsInTree ==
  ASSUME NEW t
  PROVE  SoundTree(t) <=> /\ t \in Tables /\ \A u \in User : t[RootOf[u]] = RootRow(u)
                          /\ \A i \in Node \ Roots : t[i].there => RowInTree(t, i)
                          /\ FreeNames(t)
  <1>1. ASSUME SoundTree(t), NEW i \in Node \ Roots, t[i].there PROVE RowInTree(t, i)
    <2>1. t[i].parent \in Node /\ t[i].trash \in Node \cup {Live}
      BY <1>1, ARow
    <2> QED BY <1>1, <2>1 DEF SoundTree, InFolders, Units, RowInTree
  <1>2. ASSUME \A i \in Node \ Roots : t[i].there => RowInTree(t, i)
        PROVE  InFolders(t) /\ Units(t)
    BY <1>2 DEF InFolders, Units, RowInTree
  <1> QED BY <1>1, <1>2 DEF SoundTree, Tables

LEMMA CreatedSound ==
  ASSUME NEW t, SoundTree(t), NEW u \in User, NEW i \in Node, ~t[i].there, NEW p \in Node, NEW n \in Name,
         NEW kind \in {"file", "folder"}
  PROVE  SoundTree(Created(t, u, i, p, n, kind))
  <1>1. PICK row : row = [there |-> TRUE, owner |-> u, kind |-> kind, parent |-> p,
                          name |-> n, path |-> Append(t[p].path, n), trash |-> Live]
    OBVIOUS
  <1>2. PICK tt : tt = [t EXCEPT ![i] = row]
    OBVIOUS
  <1>3. CASE Created(t, u, i, p, n, kind) = t
    BY <1>3
  <1>4. CASE Created(t, u, i, p, n, kind) # t
    <2>1. GetLive(t, u, p) /\ t[p].kind = "folder" /\ Created(t, u, i, p, n, kind) = tt /\ FreeNames(tt)
      BY <1>1, <1>2, <1>4 DEF Created, OrRefused
    <2>2. tt \in Tables
      BY <2>1, CreatedRows DEF SoundTree, Tables
    <2>3. tt[i] = row /\ (\A j \in Node : j # i => tt[j] = t[j]) /\ p # i /\ i \notin Roots
      BY <1>2, <2>1, ARoot DEF SoundTree, IsLive, GetLive
    <2>4. \A v \in User : tt[RootOf[v]] = RootRow(v)
      <3>1. ASSUME NEW v \in User PROVE RootOf[v] \in Node /\ RootOf[v] # i
        BY <2>3, SharedTreeAssumption DEF Roots
      <3> QED BY <2>3, <3>1 DEF SoundTree
    <2>5. ASSUME NEW j \in Node \ Roots, tt[j].there PROVE RowInTree(tt, j)
      <3>1. CASE j = i
        <4>1. /\ row.there /\ row.owner = u /\ row.parent = p /\ row.name = n
              /\ row.path = Append(t[p].path, n) /\ row.trash = Live
          BY <1>1
        <4>2. tt[p] = t[p] /\ t[p].there /\ t[p].owner = u /\ t[p].trash = Live
          BY <2>1, <2>3 DEF GetLive, Owns, IsLive
        <4>3. tt[i] = row /\ tt[p].kind = "folder" /\ p # i
          BY <2>1, <2>3, <4>2
        <4> QED BY <3>1, <4>1, <4>2, <4>3 DEF RowInTree
      <3>2. CASE j # i
        <4>1. tt[j] = t[j] /\ RowInTree(t, j)
          BY <2>3, <2>5, <3>2, RowsInTree
        <4>2. PICK q : q = t[j].parent
          OBVIOUS
        <4>3. q \in Node /\ q # i /\ tt[q] = t[q]
          BY <2>3, <4>1, <4>2 DEF RowInTree
        <4>4. t[j].trash # Live => tt[t[j].trash] = t[t[j].trash]
          BY <2>3, <4>1 DEF RowInTree
        <4> QED BY <4>1, <4>2, <4>3, <4>4 DEF RowInTree
      <3> QED BY <3>1, <3>2
    <2> QED BY <2>1, <2>2, <2>4, <2>5, RowsInTree
  <1> QED BY <1>3, <1>4

\* Only what is deleted together changes.
Marking(t, S, d) == [j \in Node |-> IF j \in S THEN [t[j] EXCEPT !.trash = d] ELSE t[j]]

MarkedOnly(t, tt, S, d) ==
  /\ tt \in Tables /\ \A v \in User : tt[RootOf[v]] = RootRow(v)
  /\ \A j \in Node : /\ tt[j].there <=> t[j].there
                     /\ t[j].there => /\ tt[j].owner = t[j].owner /\ tt[j].kind = t[j].kind
                                      /\ tt[j].parent = t[j].parent /\ tt[j].name = t[j].name
                                      /\ tt[j].path = t[j].path
                     /\ tt[j].trash = IF j \in S THEN d ELSE t[j].trash

LEMMA Marked ==
  ASSUME NEW t, SoundTree(t), NEW S \in SUBSET Node, \A j \in S : t[j].there, S \cap Roots = {},
         NEW d \in Node \cup {Live}, NEW tt, tt = Marking(t, S, d)
  PROVE  MarkedOnly(t, tt, S, d)
  <1>1. tt = [j \in Node |-> IF j \in S THEN [t[j] EXCEPT !.trash = d] ELSE t[j]]
    BY DEF Marking
  <1>2. ASSUME NEW w \in NodeRow, NEW q, q = [w EXCEPT !.trash = d]
        PROVE  /\ q \in NodeRow /\ q.there /\ w.there /\ q.owner = w.owner /\ q.kind = w.kind /\ q.parent = w.parent
               /\ q.name = w.name /\ q.path = w.path /\ q.trash = d
    BY <1>2 DEF NodeRow
  <1>3. ASSUME NEW j \in Node
        PROVE  /\ tt[j] \in NodeRow \cup {NoNode}
               /\ tt[j].there <=> t[j].there
               /\ t[j].there => /\ tt[j].owner = t[j].owner /\ tt[j].kind = t[j].kind
                                /\ tt[j].parent = t[j].parent /\ tt[j].name = t[j].name
                                /\ tt[j].path = t[j].path
               /\ tt[j].trash = IF j \in S THEN d ELSE t[j].trash
    <2>1. CASE j \in S
      <3>1. PICK w \in NodeRow : w = t[j]
        BY <2>1, ARow
      <3>2. PICK q : q = [w EXCEPT !.trash = d]
        OBVIOUS
      <3>3. tt[j] = q
        BY <1>1, <2>1, <3>1, <3>2
      <3> QED BY <1>2, <2>1, <3>1, <3>2, <3>3
    <2>2. CASE j \notin S
      <3>1. tt[j] = t[j]
        BY <1>1, <2>2
      <3> QED BY <2>2, <3>1, ARow
    <2> QED BY <2>1, <2>2
  <1>4. ASSUME NEW v \in User PROVE tt[RootOf[v]] = RootRow(v)
    <2>1. RootOf[v] \in Node /\ RootOf[v] \notin S /\ t[RootOf[v]] = RootRow(v)
      BY SharedTreeAssumption DEF Roots, SoundTree
    <2> QED BY <1>1, <2>1
  <1>5. tt \in Tables
    BY <1>1, <1>3 DEF Tables
  <1> QED BY <1>3, <1>4, <1>5 DEF MarkedOnly

LEMMA TrashedSound ==
  ASSUME NEW t, SoundTree(t), NEW u \in User, NEW i \in Node
  PROVE  SoundTree(Trashed(t, u, i))
  <1>1. CASE ~(GetLive(t, u, i) /\ i \notin Roots)
    BY <1>1 DEF Trashed
  <1>2. CASE GetLive(t, u, i) /\ i \notin Roots
    <2>1. PICK old \in Seq(Name) : old = t[i].path /\ IsPrefix(old, old)
      BY <1>2, ARow, PrefixItself DEF GetLive, Owns
    <2>2. t[i].there /\ t[i].owner = u /\ t[i].trash = Live /\ i # Live
      BY <1>2, SharedTreeAssumption DEF GetLive, Owns, IsLive
    <2>3. PICK S \in SUBSET Node :
            \A j \in Node : /\ j \in S <=> j = i \/ (j \in Beneath(t, u, old) /\ IsLive(t, j))
                            /\ j \in S <=> \/ j = i
                                           \/ /\ t[j].there /\ t[j].owner = u /\ t[j].trash = Live
                                              /\ IsStrictPrefix(old, t[j].path)
      <3>1. PICK S \in SUBSET Node : S = {j \in Node : j = i \/ (j \in Beneath(t, u, old) /\ IsLive(t, j))}
        OBVIOUS
      <3>2. \A j \in Node : j \in S <=> j = i \/ (j \in Beneath(t, u, old) /\ IsLive(t, j))
        BY <3>1
      <3>3. \A j \in Node : j \in Beneath(t, u, old) /\ IsLive(t, j)
                              <=> /\ t[j].there /\ t[j].owner = u /\ t[j].trash = Live
                                  /\ IsStrictPrefix(old, t[j].path)
        BY DEF Beneath, IsLive, Owns
      <3> QED BY <3>2, <3>3
    <2>4. PICK tt : tt = Marking(t, S, i)
      OBVIOUS
    <2>5. Trashed(t, u, i) = tt
      BY <1>2, <2>1, <2>3, <2>4 DEF Trashed, Marking
    <2>6. \A j \in S : t[j].there /\ t[j].trash = Live
      BY <2>2, <2>3
    <2>7. S \cap Roots = {}
      <3> SUFFICES ASSUME NEW r \in Roots, r \in S PROVE FALSE
        OBVIOUS
      <3>1. r # i /\ t[r].path = <<>>
        BY <1>2, ARoot
      <3>2. IsStrictPrefix(old, <<>>)
        BY <2>3, <3>1
      <3> QED BY <3>2, PrefixOfEmpty
    <2>8. /\ tt \in Tables /\ \A v \in User : tt[RootOf[v]] = RootRow(v)
          /\ \A j \in Node : /\ tt[j].there <=> t[j].there
                             /\ t[j].there => /\ tt[j].owner = t[j].owner /\ tt[j].kind = t[j].kind
                                              /\ tt[j].parent = t[j].parent /\ tt[j].name = t[j].name
                                              /\ tt[j].path = t[j].path
                             /\ tt[j].trash = IF j \in S THEN i ELSE t[j].trash
      <3>1. MarkedOnly(t, tt, S, i)
        BY <2>4, <2>6, <2>7, Marked
      <3> QED BY <3>1 DEF MarkedOnly
    <2>9. FreeNames(tt)
      <3>1. \A j \in Node : IsLive(tt, j) => IsLive(t, j)
        BY <2>2, <2>8 DEF IsLive
      <3>2. \A j \in Node : IsLive(t, j) => tt[j].parent = t[j].parent /\ tt[j].name = t[j].name
        BY <2>8 DEF IsLive
      <3>3. FreeNames(t)
        BY DEF SoundTree
      <3> QED BY <3>1, <3>2, <3>3 DEF FreeNames
    <2>10. ASSUME NEW j \in Node \ Roots, tt[j].there PROVE RowInTree(tt, j)
      <3>1. t[j].there /\ RowInTree(t, j)
        BY <2>8, <2>10, RowsInTree
      <3>2. PICK p \in Node, n \in Name : /\ p = t[j].parent /\ n = t[j].name /\ t[p].there /\ t[p].owner = t[j].owner
                                          /\ t[p].kind = "folder" /\ t[j].path = Append(t[p].path, n)
                                          /\ t[p].path \in Seq(Name)
        BY <3>1, ARow DEF RowInTree
      <3>3. /\ tt[j].parent = p /\ tt[j].name = n /\ tt[p].there /\ tt[p].owner = tt[j].owner
            /\ tt[p].kind = "folder" /\ tt[j].path = Append(tt[p].path, n)
        BY <2>8, <3>1, <3>2
      <3>4. IsPrefix(old, t[p].path) <=> IsStrictPrefix(old, t[j].path)
        BY <3>2, PrefixStep
      <3>5. CASE j \in S
        <4>1. tt[j].trash = i /\ tt[i].there /\ tt[i].trash = i
          BY <2>2, <2>3, <2>8, <3>5
        <4>2. ASSUME j # i PROVE p \in S
          <5>1. t[j].owner = u /\ t[j].trash = Live /\ IsStrictPrefix(old, t[j].path)
            BY <2>3, <3>5, <4>2
          <5>2. t[p].trash = Live /\ IsPrefix(old, t[p].path)
            BY <3>1, <3>2, <3>4, <5>1 DEF RowInTree
          <5>3. CASE t[p].path = old
            <6>1. IsLive(t, p) /\ IsLive(t, i) /\ t[p].owner = t[i].owner
              BY <2>2, <3>2, <5>1, <5>2 DEF IsLive
            <6>2. p = i
              BY <2>1, <5>3, <6>1, OneAtPath
            <6> QED BY <2>3, <6>2
          <5>4. CASE t[p].path # old
            BY <2>3, <3>2, <5>1, <5>2, <5>4 DEF IsStrictPrefix
          <5> QED BY <5>3, <5>4
        <4> QED BY <2>2, <2>8, <3>2, <3>3, <4>1, <4>2 DEF RowInTree
      <3>6. CASE j \notin S
        <4>1. tt[j].trash = t[j].trash
          BY <2>8, <3>6
        <4>2. CASE t[j].trash = Live
          <5>1. t[p].trash = Live /\ t[p].owner = t[j].owner
            BY <3>1, <3>2, <4>2 DEF RowInTree
          <5>2. p \notin S
            <6> SUFFICES ASSUME p \in S PROVE FALSE
              OBVIOUS
            <6>1. t[p].owner = u /\ IsPrefix(old, t[p].path)
              BY <2>1, <2>2, <2>3 DEF IsStrictPrefix
            <6> QED BY <2>3, <3>1, <3>2, <3>4, <3>6, <4>2, <6>1
          <5>3. tt[p].trash = Live
            BY <2>8, <5>1, <5>2
          <5> QED BY <3>2, <3>3, <4>1, <4>2, <5>3 DEF RowInTree
        <4>3. CASE t[j].trash # Live
          <5>1. PICK d \in Node : /\ d = t[j].trash /\ d # Live /\ t[d].there /\ t[d].trash = d
                                  /\ j # d => t[p].trash = d
            BY <3>1, <3>2, <4>3 DEF RowInTree
          <5>2. d \notin S /\ (j # d => p \notin S)
            BY <2>6, <5>1
          <5>3. tt[d].there /\ tt[d].trash = d /\ (j # d => tt[p].trash = d)
            BY <2>8, <5>1, <5>2
          <5> QED BY <3>2, <3>3, <4>1, <5>1, <5>3 DEF RowInTree
        <4> QED BY <4>2, <4>3
      <3> QED BY <3>5, <3>6
    <2> QED BY <2>5, <2>8, <2>9, <2>10, RowsInTree
  <1> QED BY <1>1, <1>2

LEMMA RestoredSound ==
  ASSUME NEW t, SoundTree(t), NEW u \in User, NEW i \in Node
  PROVE  SoundTree(Restored(t, u, i))
  <1>1. CASE Restored(t, u, i) = t
    BY <1>1
  <1>2. CASE Restored(t, u, i) # t
    <2>1. PICK tt : tt = [j \in Node |-> IF t[j].there /\ t[j].trash = i
                                         THEN [t[j] EXCEPT !.trash = Live] ELSE t[j]]
      OBVIOUS
    <2>2. /\ t[i].there /\ t[i].trash = i /\ IsLive(t, t[i].parent)
          /\ Restored(t, u, i) = tt /\ FreeNames(tt) /\ i # Live
      BY <1>2, <2>1, SharedTreeAssumption DEF Restored, OrRefused, Owns
    <2>3. PICK S \in SUBSET Node : \A j \in Node : j \in S <=> t[j].there /\ t[j].trash = i
      <3>1. PICK S \in SUBSET Node : S = {j \in Node : t[j].there /\ t[j].trash = i}
        OBVIOUS
      <3> QED BY <3>1
    <2>4. tt = Marking(t, S, Live)
      BY <2>1, <2>3 DEF Marking
    <2>5. S \cap Roots = {} /\ \A j \in S : t[j].there
      BY <2>2, <2>3, ARoot DEF IsLive
    <2>6. /\ tt \in Tables /\ \A v \in User : tt[RootOf[v]] = RootRow(v)
          /\ \A j \in Node : /\ tt[j].there <=> t[j].there
                             /\ t[j].there => /\ tt[j].owner = t[j].owner /\ tt[j].kind = t[j].kind
                                              /\ tt[j].parent = t[j].parent /\ tt[j].name = t[j].name
                                              /\ tt[j].path = t[j].path
                             /\ tt[j].trash = IF j \in S THEN Live ELSE t[j].trash
      <3>1. MarkedOnly(t, tt, S, Live)
        BY <2>4, <2>5, Marked
      <3> QED BY <3>1 DEF MarkedOnly
    <2>7. ASSUME NEW j \in Node \ Roots, tt[j].there PROVE RowInTree(tt, j)
      <3>1. t[j].there /\ RowInTree(t, j)
        BY <2>6, <2>7, RowsInTree
      <3>2. PICK p \in Node, n \in Name : /\ p = t[j].parent /\ n = t[j].name /\ t[p].there /\ t[p].owner = t[j].owner
                                          /\ t[p].kind = "folder" /\ t[j].path = Append(t[p].path, n)
        BY <3>1 DEF RowInTree
      <3>3. /\ tt[j].parent = p /\ tt[j].name = n /\ tt[p].there /\ tt[p].owner = tt[j].owner
            /\ tt[p].kind = "folder" /\ tt[j].path = Append(tt[p].path, n)
        BY <2>6, <3>1, <3>2
      <3>4. CASE j \in S
        <4>1. tt[j].trash = Live
          BY <2>6, <3>4
        <4>2. t[p].trash = Live \/ t[p].trash = i
          BY <2>2, <2>3, <3>1, <3>2, <3>4 DEF RowInTree, IsLive
        <4>3. tt[p].trash = Live
          BY <2>3, <2>6, <3>2, <4>2
        <4> QED BY <3>2, <3>3, <4>1, <4>3 DEF RowInTree
      <3>5. CASE j \notin S
        <4>1. tt[j].trash = t[j].trash
          BY <2>6, <3>5
        <4>2. CASE t[j].trash = Live
          <5>1. t[p].trash = Live /\ tt[p].trash = Live
            BY <2>6, <3>1, <3>2, <4>2 DEF RowInTree
          <5> QED BY <3>2, <3>3, <4>1, <4>2, <5>1 DEF RowInTree
        <4>3. CASE t[j].trash # Live
          <5>1. PICK d \in Node : /\ d = t[j].trash /\ d # Live /\ t[d].there /\ t[d].trash = d
                                  /\ j # d => t[p].trash = d
            BY <3>1, <3>2, <4>3 DEF RowInTree
          <5>2. d # i
            BY <2>3, <3>1, <3>5, <5>1
          <5>3. d \notin S /\ (j # d => p \notin S)
            BY <2>3, <5>1, <5>2
          <5>4. tt[d].there /\ tt[d].trash = d /\ (j # d => tt[p].trash = d)
            BY <2>6, <5>1, <5>3
          <5> QED BY <3>2, <3>3, <4>1, <5>1, <5>4 DEF RowInTree
        <4> QED BY <4>2, <4>3
      <3> QED BY <3>4, <3>5
    <2> QED BY <2>2, <2>6, <2>7, RowsInTree
  <1> QED BY <1>1, <1>2

\* What was deleted with a node is below it.
LEMMA UnitAbove ==
  ASSUME NEW t, SoundTree(t), NEW j \in Node, t[j].there, NEW d \in Node, t[j].trash = d
  PROVE  d \in Above(t, j)
  <1> DEFINE Stray(a) == t[a].there /\ t[a].trash = d /\ d \notin Above(t, a)
             S == {Len(t[a].path) : a \in {a \in Node : Stray(a)}}
  <1> SUFFICES ASSUME d \notin Above(t, j) PROVE FALSE
    OBVIOUS
  <1>1. S \subseteq Nat /\ S # {}
    <2>1. j \in {a \in Node : Stray(a)}
      OBVIOUS
    <2>2. S # {}
      BY <2>1
    <2>3. S \subseteq Nat
      BY ARow
    <2> QED BY <2>2, <2>3
  <1>2. PICK n \in S : \A m \in S : n <= m
    <2> HIDE DEF S
    <2> QED BY <1>1, Smallest
  <1>3. PICK a \in Node : Stray(a) /\ n = Len(t[a].path)
    BY <1>2
  <1>4. a # d /\ d # Live
    BY <1>3, AboveLeast, SharedTreeAssumption
  <1>5. a \notin Roots
    BY <1>3, <1>4, ARoot DEF IsLive
  <1>6. PICK p \in Node, k \in Nat :
          /\ p = t[a].parent /\ k = Len(t[p].path) /\ Len(t[a].path) = k + 1 /\ t[p].there
    BY <1>3, <1>5, InFolder
  <1>7. t[p].trash = d
    BY <1>3, <1>4, <1>5, <1>6, RowsInTree DEF RowInTree
  <1>8. d \notin Above(t, p)
    BY <1>3, <1>6, AboveFolder
  <1>9. k \in S
    BY <1>6, <1>7, <1>8
  <1>10. n <= k
    BY <1>2, <1>9
  <1> QED BY <1>3, <1>6, <1>10

LEMMA PurgedSound ==
  ASSUME NEW t, SoundTree(t), NEW u \in User, NEW i \in Node
  PROVE  SoundTree(Purged(t, u, i))
  <1>1. CASE ~(Owns(t, u, i) /\ ~IsLive(t, i))
    BY <1>1 DEF Purged
  <1>2. CASE Owns(t, u, i) /\ ~IsLive(t, i)
    <2>1. PICK tt : tt = [j \in Node |-> IF j \in Family(t, i) THEN NoNode ELSE t[j]] /\ tt = Purged(t, u, i)
      BY <1>2 DEF Purged
    <2>2. PICK C \in SUBSET Node : \A j \in Node : j \in C <=> t[j].there /\ i \in Above(t, j)
      <3>1. PICK C : C = {j \in Node : t[j].there /\ i \in Above(t, j)}
        OBVIOUS
      <3> QED BY <3>1
    <2>3. ~NoNode.there
      BY DEF NoNode
    <2>4. \A j \in Node : /\ tt[j].there <=> t[j].there /\ j \notin C
                          /\ tt[j].there => tt[j] = t[j]
      <3>1. \A j \in Node : tt[j] = IF t[j].there /\ i \in Above(t, j) THEN NoNode ELSE t[j]
        BY <2>1 DEF Family
      <3>2. \A j \in Node : t[j].there \in BOOLEAN
        <4>1. NoNode.there = FALSE /\ \A w \in NodeRow : w.there = TRUE
          BY DEF NodeRow, NoNode
        <4> QED BY <4>1, ARow
      <3> QED BY <2>2, <2>3, <3>1, <3>2
    <2>5. \A j \in Node : t[j].there /\ j \notin C => tt[j] = t[j]
      BY <2>4
    <2>6. tt \in Tables
      BY <2>1, PurgedRows DEF SoundTree, Tables
    <2>7. C \cap Roots = {}
      <3>1. i \notin Roots
        BY <1>2, ARoot
      <3> QED BY <2>2, <3>1, AboveRoot
    <2>8. \A v \in User : tt[RootOf[v]] = RootRow(v)
      <3>1. ASSUME NEW v \in User PROVE /\ RootOf[v] \in Node /\ RootOf[v] \notin C /\ t[RootOf[v]] = RootRow(v)
                                        /\ t[RootOf[v]].there
        <4>1. RootOf[v] \in Roots /\ t[RootOf[v]] = RootRow(v)
          BY DEF Roots, SoundTree
        <4>2. RootOf[v] \in Node /\ t[RootOf[v]].there
          BY <4>1, ARoot DEF IsLive
        <4> QED BY <2>7, <4>1, <4>2
      <3> QED BY <2>5, <3>1
    <2>9. ASSUME NEW j \in Node \ Roots, tt[j].there PROVE RowInTree(tt, j)
      <3>1. t[j].there /\ RowInTree(t, j) /\ tt[j] = t[j] /\ j \notin C
        BY <2>4, <2>9, RowsInTree
      <3>2. PICK p \in Node : p = t[j].parent /\ t[p].there
        BY <3>1 DEF RowInTree
      <3>3. p \notin C
        BY <2>2, <3>1, <3>2, AboveFolder
      <3>4. ASSUME t[j].trash # Live
            PROVE  t[j].trash \in Node /\ t[t[j].trash].there /\ t[j].trash \notin C
        <4>1. PICK d \in Node : d = t[j].trash /\ t[d].there
          BY <3>1, <3>4 DEF RowInTree
        <4>2. d \in Above(t, j)
          BY <3>1, <4>1, UnitAbove
        <4>3. Above(t, d) \subseteq Above(t, j)
          BY <4>2, AboveLeast
        <4>4. d \notin C
          BY <2>2, <3>1, <4>3
        <4> QED BY <4>1, <4>4
      <3>5. tt[p] = t[p] /\ (t[j].trash # Live => tt[t[j].trash] = t[t[j].trash])
        BY <2>5, <3>2, <3>3, <3>4
      <3> QED BY <3>1, <3>2, <3>5 DEF RowInTree
    <2>10. FreeNames(tt)
      <3>1. \A j \in Node : IsLive(tt, j) => IsLive(t, j) /\ tt[j] = t[j]
        BY <2>4 DEF IsLive
      <3>2. FreeNames(t)
        BY DEF SoundTree
      <3> QED BY <3>1, <3>2 DEF FreeNames
    <2> QED BY <2>1, <2>6, <2>8, <2>9, <2>10, RowsInTree
  <1> QED BY <1>1, <1>2

LEMMA AboveFolders ==
  ASSUME NEW t, SoundTree(t), NEW j \in Node, t[j].there, NEW i \in Above(t, j), i # j
  PROVE  t[i].kind = "folder"
  <1>1. PICK S \in SUBSET Node : \A k \in Node : k \in S <=> k = j \/ (t[k].there /\ t[k].kind = "folder")
    <2>1. PICK S : S = {k \in Node : k = j \/ (t[k].there /\ t[k].kind = "folder")}
      OBVIOUS
    <2> QED BY <2>1
  <1>2. ASSUME NEW k \in S PROVE t[k].parent \in S
    <2>1. k \in Node /\ t[k].there
      BY <1>1
    <2>2. CASE k \in Roots
      <3>1. t[k].parent = k
        BY <2>2, ARoot
      <3> QED BY <3>1
    <2>3. CASE k \notin Roots
      <3>1. PICK p \in Node : p = t[k].parent /\ t[p].there /\ t[p].kind = "folder"
        BY <2>1, <2>3, InFolder
      <3> QED BY <1>1, <3>1
    <2> QED BY <2>2, <2>3
  <1>3. Upward(t, S) /\ j \in S
    BY <1>1, <1>2 DEF Upward
  <1>4. i \in S /\ i \in Node
    BY <1>3, AboveLeast
  <1> QED BY <1>1, <1>4

\* The rows of a move.
Rewritten(t, i, p, n, old, new, below) ==
  [j \in Node |-> CASE j = i -> [t[j] EXCEPT !.parent = p, !.name = n, !.path = new]
                    [] j \in below -> [t[j] EXCEPT !.path = new \o SubSeq(@, Len(old) + 1, Len(@))]
                    [] OTHER -> t[j]]

MayMove(t, u, i, p, old, below) ==
  /\ GetLive(t, u, i) /\ i \notin Roots
  /\ GetLive(t, u, p) /\ t[p].kind = "folder"
  /\ ~(t[i].kind = "folder" /\ IsPrefix(old, t[p].path))
  /\ SamePath \/ below \subseteq Family(t, i)

FromTo(t, u, i, p, n, old, new, below) ==
  /\ old = t[i].path /\ new = Append(t[p].path, n)
  /\ below = IF t[i].kind = "folder" THEN Beneath(t, u, old) ELSE {}

LEMMA MovedCases ==
  ASSUME NEW t, NEW u, NEW i, NEW p, NEW n, NEW old, NEW new, NEW below,
         FromTo(t, u, i, p, n, old, new, below)
  PROVE  Moved(t, u, i, p, n) = IF MayMove(t, u, i, p, old, below)
                                THEN OrRefused(t, Rewritten(t, i, p, n, old, new, below)) ELSE t
  <1> DEFINE o == t[i].path
             w == Append(t[p].path, n)
             b == IF t[i].kind = "folder" THEN Beneath(t, u, o) ELSE {}
  <1>1. Moved(t, u, i, p, n) = IF MayMove(t, u, i, p, o, b) THEN OrRefused(t, Rewritten(t, i, p, n, o, w, b)) ELSE t
    BY Zenon DEF Moved, MayMove, Rewritten
  <1>2. o = old /\ w = new /\ b = below
    BY DEF FromTo
  <1> HIDE DEF o, w, b
  <1> QED BY <1>1, <1>2

LEMMA MovedSound ==
  ASSUME ~SamePath, NEW t, SoundTree(t), NEW u \in User, NEW i \in Node, NEW p \in Node, NEW n \in Name
  PROVE  SoundTree(Moved(t, u, i, p, n))
  <1>1. CASE Moved(t, u, i, p, n) = t
    BY <1>1
  <1>2. CASE Moved(t, u, i, p, n) # t
    <2>1. PICK old, new, below :
            /\ old = t[i].path /\ new = Append(t[p].path, n)
            /\ below = IF t[i].kind = "folder" THEN Beneath(t, u, old) ELSE {}
      OBVIOUS
    <2>2. PICK tt : tt = Rewritten(t, i, p, n, old, new, below)
      OBVIOUS
    <2>3. /\ GetLive(t, u, i) /\ i \notin Roots /\ GetLive(t, u, p) /\ t[p].kind = "folder"
          /\ ~(t[i].kind = "folder" /\ IsPrefix(old, t[p].path)) /\ below \subseteq Family(t, i)
          /\ Moved(t, u, i, p, n) = tt /\ FreeNames(tt)
      <3>1. Moved(t, u, i, p, n) = IF MayMove(t, u, i, p, old, below) THEN OrRefused(t, tt) ELSE t
        <4>1. FromTo(t, u, i, p, n, old, new, below)
          BY <2>1 DEF FromTo
        <4> QED BY <2>2, <4>1, MovedCases
      <3>2. MayMove(t, u, i, p, old, below) /\ Moved(t, u, i, p, n) = OrRefused(t, tt)
        BY <1>2, <3>1
      <3>3. Moved(t, u, i, p, n) = tt /\ FreeNames(tt)
        BY <1>2, <3>2 DEF OrRefused
      <3> QED BY <3>2, <3>3 DEF MayMove
    <2>4. /\ t[i].there /\ t[i].owner = u /\ t[i].trash = Live /\ t[p].there /\ t[p].owner = u /\ t[p].trash = Live
      BY <2>3 DEF GetLive, Owns, IsLive
    <2>5. old \in Seq(Name) /\ t[p].path \in Seq(Name) /\ new \in Seq(Name)
      <3>1. old \in Seq(Name) /\ t[p].path \in Seq(Name)
        BY <2>1, <2>4, ARow
      <3> QED BY <2>1, <3>1, AppendProperties
    \* The rows that are rewritten hang below the node, and all that do are.
    <2>6. PICK D \in SUBSET Node : \A j \in Node : j \in D <=> t[j].there /\ j # i /\ i \in Above(t, j)
      <3>1. PICK D : D = {j \in Node : t[j].there /\ j # i /\ i \in Above(t, j)}
        OBVIOUS
      <3> QED BY <3>1
    <2>7. below = D
      <3>1. ASSUME NEW j \in below PROVE j \in D
        <4>1. j \in Node /\ t[j].there /\ i \in Above(t, j)
          BY <2>3, <3>1 DEF Family
        <4>2. j \in Beneath(t, u, old)
          BY <2>1, <3>1
        <4>3. j # i
          BY <2>1, <4>2 DEF Beneath, IsStrictPrefix
        <4> QED BY <2>6, <4>1, <4>3
      <3>2. ASSUME NEW j \in D PROVE j \in below
        <4>1. t[j].there /\ j # i /\ i \in Above(t, j) /\ j \in Node
          BY <2>6
        <4>2. t[i].kind = "folder" /\ IsStrictPrefix(old, t[j].path) /\ t[j].owner = u
          BY <2>1, <2>4, <4>1, AboveFolders, AboveShorter, AboveCovers
        <4> QED BY <2>1, <4>1, <4>2 DEF Beneath, Owns
      <3> QED BY <3>1, <3>2
    <2>8. ASSUME NEW j \in Node, NEW row, row = tt[j]
          PROVE  /\ j = i => row = [t[i] EXCEPT !.parent = p, !.name = n, !.path = new]
                 /\ j \in D => row = [t[j] EXCEPT !.path = Shifted(old, new, t[j].path)]
                 /\ j # i /\ j \notin D => row = t[j]
      <3>1. j \in D => j # i
        BY <2>6
      <3> QED BY <2>2, <2>7, <2>8, <3>1 DEF Shifted, Rewritten
    <2>9. ASSUME NEW j \in Node, t[j].there
          PROVE  /\ tt[j].there /\ tt[j].owner = t[j].owner /\ tt[j].kind = t[j].kind /\ tt[j].trash = t[j].trash
                 /\ tt[j].parent = IF j = i THEN p ELSE t[j].parent
                 /\ tt[j].name = IF j = i THEN n ELSE t[j].name
                 /\ tt[j].path = IF j = i THEN new ELSE IF j \in D THEN Shifted(old, new, t[j].path) ELSE t[j].path
      <3>1. PICK w \in NodeRow : w = t[j]
        BY <2>9, ARow
      <3>2. PICK row : row = tt[j]
        OBVIOUS
      <3>3. CASE j = i
        <4>1. row = [w EXCEPT !.parent = p, !.name = n, !.path = new]
          BY <2>8, <3>1, <3>2, <3>3
        <4>2. /\ row.there = w.there /\ row.owner = w.owner /\ row.kind = w.kind /\ row.trash = w.trash
              /\ row.parent = p /\ row.name = n /\ row.path = new
          BY <4>1 DEF NodeRow
        <4> QED BY <2>9, <3>1, <3>2, <3>3, <4>2
      <3>4. CASE j \in D
        <4>1. row = [w EXCEPT !.path = Shifted(old, new, w.path)] /\ j # i
          BY <2>6, <2>8, <3>1, <3>2, <3>4
        <4>2. /\ row.there = w.there /\ row.owner = w.owner /\ row.kind = w.kind /\ row.trash = w.trash
              /\ row.parent = w.parent /\ row.name = w.name /\ row.path = Shifted(old, new, w.path)
          BY <4>1 DEF NodeRow
        <4> QED BY <2>9, <3>1, <3>2, <3>4, <4>1, <4>2
      <3>5. CASE j # i /\ j \notin D
        <4>1. row = w
          BY <2>8, <3>1, <3>2, <3>5
        <4> QED BY <2>9, <3>1, <3>2, <3>5, <4>1
      <3> QED BY <3>3, <3>4, <3>5
    <2>10. \A j \in Node : tt[j].there => t[j].there
      BY <2>4, <2>6, <2>8
    <2>11. tt \in Tables
      BY <2>3, MovedRows DEF SoundTree, Tables
    <2>12. \A v \in User : tt[RootOf[v]] = RootRow(v)
      <3>1. ASSUME NEW r \in Roots PROVE r # i /\ r \notin D /\ r \in Node
        BY <2>3, <2>6, AboveRoot, ARoot
      <3>2. ASSUME NEW v \in User PROVE RootOf[v] \in Roots /\ t[RootOf[v]] = RootRow(v)
        BY DEF Roots, SoundTree
      <3> QED BY <2>8, <3>1, <3>2
    <2>13. p # i /\ p \notin D
      <3>1. IsPrefix(old, old)
        BY <2>5, PrefixItself
      <3>2. p # i
        BY <2>1, <2>3, <3>1
      <3>3. ASSUME p \in D PROVE FALSE
        <4>1. t[i].kind = "folder" /\ IsStrictPrefix(old, t[p].path)
          BY <2>1, <2>6, <3>3, AboveFolders, AboveShorter
        <4> QED BY <2>3, <4>1 DEF IsStrictPrefix
      <3> QED BY <3>2, <3>3
    <2>14. ASSUME NEW j \in Node \ Roots, tt[j].there PROVE RowInTree(tt, j)
      <3>1. t[j].there /\ RowInTree(t, j)
        BY <2>10, <2>14, RowsInTree
      <3>2. CASE j = i
        <4>1. /\ tt[j].parent = p /\ tt[j].name = n /\ tt[j].path = new /\ tt[j].owner = u /\ tt[j].trash = Live
          BY <2>4, <2>9, <3>1, <3>2
        <4>2. /\ tt[p].there /\ tt[p].owner = u /\ tt[p].kind = "folder" /\ tt[p].trash = Live /\ tt[p].path = t[p].path
          BY <2>3, <2>4, <2>9, <2>13
        <4> QED BY <2>1, <4>1, <4>2 DEF RowInTree
      <3>3. CASE j # i
        <4>1. PICK q \in Node, m \in Name :
                /\ q = t[j].parent /\ m = t[j].name /\ t[q].there /\ t[q].owner = t[j].owner
                /\ t[q].kind = "folder" /\ t[j].path = Append(t[q].path, m) /\ t[q].path \in Seq(Name)
          BY <3>1, ARow DEF RowInTree
        <4>2. j \in D <=> q = i \/ q \in D
          <5>1. i \in Above(t, j) <=> i \in Above(t, q)
            BY <3>1, <3>3, <4>1, AboveFolder
          <5>2. i \in Above(t, i)
            BY AboveLeast
          <5> QED BY <2>6, <3>1, <3>3, <4>1, <5>1, <5>2
        <4>3. tt[j].path = Append(tt[q].path, m)
          <5>1. CASE j \in D
            <6>1. tt[q].path = Shifted(old, new, t[q].path) /\ IsPrefix(old, t[q].path)
              <7>1. CASE q = i
                <8>1. t[q].path = old /\ tt[q].path = new
                  BY <2>1, <2>9, <4>1, <7>1
                <8>2. Shifted(old, new, old) = new /\ IsPrefix(old, old)
                  BY <2>5, ShiftedItself, PrefixItself
                <8> QED BY <8>1, <8>2
              <7>2. CASE q # i
                <8>1. q \in D
                  BY <4>2, <5>1, <7>2
                <8>2. IsPrefix(old, t[q].path)
                  BY <2>1, <2>6, <8>1, AboveCovers
                <8> QED BY <2>9, <4>1, <7>2, <8>1, <8>2
              <7> QED BY <7>1, <7>2
            <6>2. PICK s \in Seq(Name), o \in Seq(Name), w \in Seq(Name) : s = t[q].path /\ o = old /\ w = new
              BY <2>5, <4>1
            <6>3. Len(o) <= Len(s)
              BY <6>1, <6>2 DEF IsPrefix
            <6>4. Shifted(o, w, Append(s, m)) = Append(Shifted(o, w, s), m)
              BY <6>3, ShiftedDown
            <6>5. tt[j].path = Shifted(old, new, t[j].path)
              BY <2>9, <3>1, <3>3, <5>1
            <6> QED BY <4>1, <6>1, <6>2, <6>4, <6>5
          <5>2. CASE j \notin D
            <6>1. q # i /\ q \notin D
              BY <4>2, <5>2
            <6> QED BY <2>9, <3>1, <3>3, <4>1, <5>2, <6>1
          <5> QED BY <5>1, <5>2
        <4>4. /\ tt[j].parent = q /\ tt[j].name = m /\ tt[j].owner = t[j].owner /\ tt[j].trash = t[j].trash
              /\ tt[q].there /\ tt[q].owner = t[q].owner /\ tt[q].kind = "folder" /\ tt[q].trash = t[q].trash
          BY <2>9, <3>1, <3>3, <4>1
        <4>5. CASE t[j].trash = Live
          <5>1. t[q].trash = Live
            BY <3>1, <4>1, <4>5 DEF RowInTree
          <5> QED BY <4>1, <4>3, <4>4, <4>5, <5>1 DEF RowInTree
        <4>6. CASE t[j].trash # Live
          <5>1. PICK d \in Node : /\ d = t[j].trash /\ t[d].there /\ t[d].trash = d /\ (j # d => t[q].trash = d)
            BY <3>1, <4>1, <4>6 DEF RowInTree
          <5>2. tt[d].there /\ tt[d].trash = d
            BY <2>9, <5>1
          <5> QED BY <4>1, <4>3, <4>4, <4>6, <5>1, <5>2 DEF RowInTree
        <4> QED BY <4>5, <4>6
      <3> QED BY <3>2, <3>3
    <2> QED BY <2>3, <2>11, <2>12, <2>14, RowsInTree
  <1> QED BY <1>1, <1>2

LEMMA FreshNodes ==
  ASSUME NEW i \in FreshNode
  PROVE  i \in Node /\ ~node[i].there
  BY DEF FreshNode

\* What the requests of an owner make of the table.
Requested(tt) ==
  \E u \in User, i \in Node :
    \/ tt = Trashed(node, u, i) \/ tt = Restored(node, u, i) \/ tt = Purged(node, u, i)
    \/ \E p \in Node, n \in Name : tt = Moved(node, u, i, p, n)
    \/ \E n \in Name, kind \in {"folder", "file"}, new \in FreshNode : tt = Created(node, u, new, i, n, kind)

LEMMA RequestsSound ==
  ASSUME ~SamePath, SoundTree(node), NEW tt, Requested(tt) PROVE SoundTree(tt)
  <1>1. PICK u \in User, i \in Node :
          \/ tt = Trashed(node, u, i) \/ tt = Restored(node, u, i) \/ tt = Purged(node, u, i)
          \/ \E p \in Node, n \in Name : tt = Moved(node, u, i, p, n)
          \/ \E n \in Name, kind \in {"folder", "file"}, new \in FreshNode : tt = Created(node, u, new, i, n, kind)
    BY DEF Requested
  <1>2. CASE tt = Trashed(node, u, i)
    BY <1>2, TrashedSound
  <1>3. CASE tt = Restored(node, u, i)
    BY <1>3, RestoredSound
  <1>4. CASE tt = Purged(node, u, i)
    BY <1>4, PurgedSound
  <1>5. CASE \E p \in Node, n \in Name : tt = Moved(node, u, i, p, n)
    BY <1>5, MovedSound
  <1>6. CASE \E n \in Name, kind \in {"folder", "file"}, new \in FreshNode : tt = Created(node, u, new, i, n, kind)
    BY <1>6, FreshNodes, CreatedSound
  <1> QED BY <1>1, <1>2, <1>3, <1>4, <1>5, <1>6

LEMMA OwnersStay ==
  ASSUME SoundTree(node), NEW tt, Requested(tt), NEW j \in Node, node[j].there, tt[j].there
  PROVE  tt[j].owner = node[j].owner
  <1>1. node \in Tables
    BY DEF SoundTree, Tables
  <1>2. PICK u \in User, i \in Node :
          \/ tt = Trashed(node, u, i) \/ tt = Restored(node, u, i) \/ tt = Purged(node, u, i)
          \/ \E p \in Node, n \in Name : tt = Moved(node, u, i, p, n)
          \/ \E n \in Name, kind \in {"folder", "file"}, new \in FreshNode : tt = Created(node, u, new, i, n, kind)
    BY DEF Requested
  <1>3. CASE tt = Trashed(node, u, i) \/ tt = Restored(node, u, i)
    BY <1>1, <1>3, MarkedRows DEF OwnersKept
  <1>4. CASE tt = Purged(node, u, i)
    BY <1>1, <1>4, PurgedRows
  <1>5. CASE \E p \in Node, n \in Name : tt = Moved(node, u, i, p, n)
    BY <1>1, <1>5, MovedRows DEF OwnersKept
  <1>6. CASE \E n \in Name, kind \in {"folder", "file"}, new \in FreshNode : tt = Created(node, u, new, i, n, kind)
    BY <1>1, <1>6, FreshNodes, CreatedRows DEF OwnersKept
  <1> QED BY <1>2, <1>3, <1>4, <1>5, <1>6

-----------------------------------------------------------------------------
(* What public links open                                                  *)

LinksRight ==
  \A l \in Link : link[l].there => node[link[l].node].there /\ node[link[l].node].owner = link[l].owner

\* A link lets this visitor in.
LetsIn(v, l) == link[l].there /\ ~link[l].revoked /\ ~link[l].expired /\ (link[l].pw => v \in Knows)

\* What a request has found out is still so while its link exists, unless the tree moved; what it
\* is about to be served it could reach.
Served(v) ==
  LET r == visit[v]
      l == r.link
  IN r # NoVisit =>
       /\ link[l].there /\ link[l].pw => v \in Knows
       /\ r.at = "root" /\ link[l].there => r.owner = link[l].owner /\ r.shared = link[l].node
       /\ r.at = "path" /\ link[l].there => /\ r.owner = link[l].owner /\ IsLive(node, link[l].node)
                                            /\ r.root = node[link[l].node].path
       /\ r.at = "charge" /\ LetsIn(v, l) => r.id \in reach[v]
       /\ r.at = "open" => r.id \in reach[v]

ServedInv ==
  /\ SoundTree(node) /\ LinkInv /\ LinksRight
  /\ \A v \in Visitor, l \in Link : <<v, l>> \in cookies => v \in Knows
  /\ \A v \in Visitor : Served(v)

ReachStep ==
  reach' = [v \in Visitor |-> IF visit'[v] = NoVisit THEN {}
                              ELSE reach[v] \cup Reachable(v, visit[v].link)']

\* A link gets no younger, and stays what it is.
Aged(l) ==
  link'[l].there =>
    /\ link[l].there /\ link'[l].node = link[l].node /\ link'[l].owner = link[l].owner
    /\ link'[l].pw = link[l].pw
    /\ link[l].revoked => link'[l].revoked
    /\ link[l].expired => link'[l].expired

LEMMA LinksRequest ==
  ASSUME LinkInv, ShareStep
  PROVE  \/ Requested(node') /\ \E u \in Sharer : TreeChange(u)
         \/ node' = node
  <1>1. CASE \E u \in Sharer, l \in Link :
               handleRevokeShare(u, l) \/ \E i \in Node : handleCreateShare(u, l, i)
    BY <1>1 DEF handleRevokeShare, handleCreateShare
  <1>2. CASE \E l \in Link : Expire(l) \/ DeleteStale(l)
    BY <1>2 DEF Expire, DeleteStale
  <1>3. CASE \E u \in Sharer : TreeChange(u)
    <2>1. PICK u \in Sharer : TreeChange(u)
      BY <1>3
    <2>2. u \in User
      BY SharesAssumption
    <2>3. PICK i \in Node :
            \/ node' = Trashed(node, u, i)
            \/ node' = Restored(node, u, i)
            \/ node' = Purged(node, u, i)
            \/ \E p \in Node, n \in Name : node' = Moved(node, u, i, p, n)
            \/ \E n \in Name, new \in FreshNode : node' = Created(node, u, new, i, n, "file")
      BY <2>1 DEF TreeChange
    <2>4. "file" \in {"folder", "file"}
      OBVIOUS
    <2> QED BY <1>3, <2>2, <2>3, <2>4 DEF Requested
  <1>4. CASE \E v \in Visitor, l \in Link :
               handleShareUnlock(v, l) \/ \E rel \in RelPaths : handleShareContent(v, l, rel)
    BY <1>4 DEF handleShareUnlock, handleShareContent, OpenContent, Visits
  <1>5. CASE \E v \in Visitor : \/ ResolveRoot(v) \/ ResolvePath(v) \/ View(v)
                                \/ TryIncrementDownload(v) \/ Open(v)
    BY <1>5 DEF ResolveRoot, ResolvePath, View, TryIncrementDownload, Open, Visits
  <1> QED BY <1>1, <1>2, <1>3, <1>4, <1>5 DEF ShareStep

LEMMA LinksAge ==
  ASSUME LinkInv, ShareStep, NEW l \in Link
  PROVE  Aged(l) \/ (link[l] = NoLink /\ \E u \in Sharer, i \in Node : handleCreateShare(u, l, i))
  <1>0. link' = link => Aged(l)
    BY DEF Aged
  <1>1. CASE \E u \in Sharer, k \in Link, i \in Node : handleCreateShare(u, k, i)
    <2>1. PICK u \in Sharer, k \in Link, i \in Node : handleCreateShare(u, k, i)
      BY <1>1
    <2>2. link[k] = NoLink /\ \E row : link' = [link EXCEPT ![k] = row]
      BY <2>1 DEF handleCreateShare, Create
    <2>3. CASE k = l
      BY <2>1, <2>2, <2>3
    <2>4. CASE k # l
      <3>1. link'[l] = link[l]
        BY <2>2, <2>4 DEF LinkInv, LinkTypes
      <3> QED BY <3>1 DEF Aged
    <2> QED BY <2>3, <2>4
  <1>2. CASE \E u \in Sharer, k \in Link : handleRevokeShare(u, k)
    <2>1. PICK k \in Link : link[k].there /\ link' = [link EXCEPT ![k].revoked = TRUE]
      BY <1>2 DEF handleRevokeShare, Revoke
    <2>2. link[k] \in LinkRow
      BY <2>1, LinkThere DEF LinkInv
    <2>3. link'[l] = link[l] \/ (l = k /\ link'[l] = [link[l] EXCEPT !.revoked = TRUE])
      BY <2>1 DEF LinkInv, LinkTypes
    <2>4. PICK old, new : old = link[l] /\ new = link'[l]
      OBVIOUS
    <2> QED BY <2>2, <2>3, <2>4 DEF Aged, LinkRow
  <1>3. CASE \E k \in Link : Expire(k)
    <2>1. PICK k \in Link : link[k].there /\ link' = [link EXCEPT ![k].expired = TRUE]
      BY <1>3 DEF Expire
    <2>2. link[k] \in LinkRow
      BY <2>1, LinkThere DEF LinkInv
    <2>3. link'[l] = link[l] \/ (l = k /\ link'[l] = [link[l] EXCEPT !.expired = TRUE])
      BY <2>1 DEF LinkInv, LinkTypes
    <2>4. PICK old, new : old = link[l] /\ new = link'[l]
      OBVIOUS
    <2> QED BY <2>2, <2>3, <2>4 DEF Aged, LinkRow
  <1>4. CASE \E k \in Link : DeleteStale(k)
    <2>1. PICK k \in Link : link' = [link EXCEPT ![k] = Gone]
      BY <1>4 DEF DeleteStale
    <2>2. link'[l] = link[l] \/ ~link'[l].there
      BY <2>1, NoRows DEF LinkInv, LinkTypes
    <2> QED BY <2>2 DEF Aged
  <1>5. CASE \E u \in Sharer : TreeChange(u)
    <2>1. link' = LinksOf(node')
      BY <1>5 DEF TreeChange
    <2>2. link'[l] = link[l] \/ ~link'[l].there
      BY <2>1, NoRows DEF LinksOf
    <2> QED BY <2>2 DEF Aged
  <1>6. CASE \E v \in Visitor, k \in Link :
               handleShareUnlock(v, k) \/ \E rel \in RelPaths : handleShareContent(v, k, rel)
    BY <1>0, <1>6 DEF handleShareUnlock, handleShareContent, OpenContent, Visits
  <1>7. CASE \E v \in Visitor : \/ ResolveRoot(v) \/ ResolvePath(v) \/ View(v) \/ Open(v)
    BY <1>0, <1>7 DEF ResolveRoot, ResolvePath, View, Open, Visits
  <1>8. CASE \E v \in Visitor : TryIncrementDownload(v)
    <2>1. PICK v \in Visitor : TryIncrementDownload(v)
      BY <1>8
    <2>2. link' = link \/ (/\ link' = [link EXCEPT ![visit[v].link].count = @ + 1]
                           /\ link[visit[v].link].there)
      BY <2>1 DEF TryIncrementDownload, Visits, Chargeable
    <2>3. CASE link' = link
      BY <1>0, <2>3
    <2>4. CASE link' # link
      <3>1. PICK k : k = visit[v].link
        OBVIOUS
      <3>2. link'[l] = link[l] \/ (link[l].there /\ link'[l] = [link[l] EXCEPT !.count = link[l].count + 1])
        BY <2>2, <2>4, <3>1 DEF LinkInv, LinkTypes
      <3>3. CASE link'[l] = link[l]
        BY <3>3 DEF Aged
      <3>4. CASE link[l].there /\ link'[l] = [link[l] EXCEPT !.count = link[l].count + 1]
        <4>1. PICK old, new, m : old = link[l] /\ new = link'[l] /\ m = link[l].count + 1
          OBVIOUS
        <4>2. old \in LinkRow /\ new = [old EXCEPT !.count = m]
          BY <3>4, <4>1, LinkThere DEF LinkInv
        <4>3. /\ new.node = old.node /\ new.owner = old.owner /\ new.pw = old.pw
              /\ new.revoked = old.revoked /\ new.expired = old.expired
          BY <4>2 DEF LinkRow
        <4> QED BY <3>4, <4>1, <4>3 DEF Aged
      <3> QED BY <3>2, <3>3, <3>4
    <2> QED BY <2>3, <2>4
  <1> QED BY <1>1, <1>2, <1>3, <1>4, <1>5, <1>6, <1>7, <1>8 DEF ShareStep

LEMMA LinksStayRight ==
  ASSUME LinkInv, SoundTree(node), LinksRight, ShareStep PROVE LinksRight'
  <1> SUFFICES ASSUME NEW l \in Link, link'[l].there
               PROVE  node'[link'[l].node].there /\ node'[link'[l].node].owner = link'[l].owner
    BY DEF LinksRight
  <1>1. CASE link[l] = NoLink /\ \E u \in Sharer, i \in Node : handleCreateShare(u, l, i)
    <2>1. PICK u \in Sharer, i \in Node : handleCreateShare(u, l, i)
      BY <1>1
    <2>2. /\ node' = node /\ GetLive(node, u, i)
          /\ \E pw, cap : link' = [link EXCEPT ![l] = [there |-> TRUE, node |-> i, owner |-> u, pw |-> pw,
                                     expired |-> FALSE, cap |-> cap, count |-> 0, revoked |-> FALSE]]
      BY <2>1 DEF handleCreateShare, Create
    <2>3. link'[l].node = i /\ link'[l].owner = u
      BY <2>2 DEF LinkInv, LinkTypes
    <2> QED BY <2>2, <2>3 DEF GetLive, Owns
  <1>2. CASE Aged(l)
    <2>1. PICK i \in Node, u \in User : i = link[l].node /\ u = link[l].owner /\ node[i].there /\ node[i].owner = u
      BY <1>2, LinkThere, LinkRows DEF LinkInv, Aged, LinksRight
    <2>2. link'[l].node = i /\ link'[l].owner = u /\ link[l].there
      BY <1>2, <2>1 DEF Aged
    <2>3. CASE node' = node
      BY <2>1, <2>2, <2>3
    <2>4. CASE Requested(node') /\ \E w \in Sharer : TreeChange(w)
      <3>1. link' = LinksOf(node')
        BY <2>4 DEF TreeChange
      <3>2. node'[i].there
        BY <2>1, <2>2, <3>1, NoRows DEF LinksOf
      <3>3. node'[i].owner = u
        BY <2>1, <2>4, <3>2, OwnersStay
      <3> QED BY <2>2, <3>2, <3>3
    <2> QED BY <2>3, <2>4, LinksRequest
  <1> QED BY <1>1, <1>2, LinksAge

\* A request that does not move keeps what it knows.
LEMMA Waits ==
  ASSUME ServedInv, ReachStep, NEW v \in Visitor, visit'[v] = visit[v],
         visit[v] # NoVisit => Aged(visit[v].link), visit[v].at = "path" => node' = node
  PROVE  Served(v)'
  <1> SUFFICES ASSUME visit[v] # NoVisit PROVE Served(v)'
    BY DEF Served
  <1>0. PICK r : r = visit[v]
    OBVIOUS
  <1>1. PICK l \in Link : r = visit[v] /\ l = r.link /\ Aged(l)
    BY <1>0, RequestKnown DEF ServedInv
  <1>2. visit'[v] = r
    BY <1>1
  <1>3. reach[v] \subseteq reach'[v]
    BY DEF ReachStep
  <1>4. Served(v)
    BY DEF ServedInv
  <1>5. link'[l].there /\ link'[l].pw => v \in Knows
    BY <1>1, <1>4 DEF Served, Aged
  <1>6. r.at = "root" /\ link'[l].there => r.owner = link'[l].owner /\ r.shared = link'[l].node
    BY <1>1, <1>4 DEF Served, Aged
  <1>7. r.at = "path" /\ link'[l].there => /\ r.owner = link'[l].owner /\ IsLive(node', link'[l].node)
                                           /\ r.root = node'[link'[l].node].path
    BY <1>1, <1>4 DEF Served, Aged
  <1>8. r.at = "charge" /\ LetsIn(v, l)' => r.id \in reach'[v]
    <2>1. LetsIn(v, l)' => LetsIn(v, l)
      <3>1. link \in [Link -> LinkRow \cup {NoLink, Gone}] /\ link[l].there => link[l] \in LinkRow
        BY LinkThere DEF ServedInv, LinkInv, LinkTypes
      <3> QED BY <1>1, <3>1 DEF LetsIn, Aged
    <2> QED BY <1>1, <1>3, <1>4, <2>1 DEF Served
  <1>9. r.at = "open" => r.id \in reach'[v]
    BY <1>1, <1>3, <1>4 DEF Served
  <1> QED BY <1>1, <1>2, <1>5, <1>6, <1>7, <1>8, <1>9 DEF Served

\* The row a request is about stays the same.
LEMMA ReachNow ==
  ASSUME ReachStep, NEW v \in Visitor, visit'[v] # NoVisit, NEW i \in Node, IsLive(node', i),
         NEW l, l = visit'[v].link, LetsIn(v, l)', link'[l].node \in Above(node', i)
  PROVE  i \in reach'[v]
  <1>1. reach'[v] = reach[v] \cup Reachable(v, visit[v].link)'
    BY DEF ReachStep
  <1>2. i \in Reachable(v, visit[v].link)'
    BY DEF Reachable, LetsIn
  <1> QED BY <1>1, <1>2

\* The request of v goes on.
LEMMA Goes ==
  ASSUME ServedInv, NEW v \in Visitor, NEW w, Visits(v, w)
  PROVE  /\ visit'[v] = w /\ \A x \in Visitor : x # v => visit'[x] = visit[x]
         /\ node' = node /\ link' = link
  BY DEF Visits, ServedInv, LinkInv, LinkTypes

LEMMA OthersWait ==
  ASSUME ServedInv, ReachStep, NEW v \in Visitor, NEW w, Visits(v, w), Served(v)'
  PROVE  \A x \in Visitor : Served(x)'
  <1>1. /\ \A x \in Visitor : x # v => visit'[x] = visit[x]
        /\ node' = node /\ link' = link
    BY Goes
  <1>2. ASSUME NEW x \in Visitor, x # v PROVE Served(x)'
    BY <1>1, <1>2, Waits DEF Aged
  <1> QED BY <1>2

LEMMA BeginsServed ==
  ASSUME ServedInv, ReachStep, NEW v \in Visitor, NEW l \in Link, NEW rel \in RelPaths,
         handleShareContent(v, l, rel)
  PROVE  \A x \in Visitor : Served(x)'
  <1>1. PICK w : w = [at |-> "root", link |-> l, owner |-> link[l].owner, shared |-> link[l].node, rel |-> rel]
    OBVIOUS
  <1>2. Visits(v, w) /\ (link[l].pw => <<v, l>> \in cookies)
    BY <1>1 DEF handleShareContent, OpenContent, validUnlock
  <1>3. visit'[v] = w /\ node' = node /\ link' = link
    BY <1>2, Goes
  <1>4. link[l].pw => v \in Knows
    BY <1>2 DEF ServedInv
  <1>5. w.at = "root" /\ w.link = l /\ w.owner = link[l].owner /\ w.shared = link[l].node
    BY <1>1
  <1>6. Served(v)'
    BY <1>3, <1>4, <1>5 DEF Served
  <1> QED BY <1>2, <1>6, OthersWait

LEMMA EndsServed ==
  ASSUME ServedInv, ReachStep, NEW v \in Visitor, Visits(v, NoVisit)
  PROVE  \A x \in Visitor : Served(x)'
  <1>1. visit'[v] = NoVisit
    BY Goes
  <1>2. Served(v)'
    BY <1>1 DEF Served
  <1> QED BY <1>2, OthersWait

\* The answer of resolveNode: a live node at or below the one the link is on.
LEMMA FoundServed ==
  ASSUME ServedInv, ReachStep, NEW v \in Visitor, visit[v] # NoVisit, NEW i \in Node, IsLive(node, i),
         LetsIn(v, visit[v].link) => link[visit[v].link].node \in Above(node, i),
         NEW file, Visits(v, [at |-> "charge", link |-> visit[v].link, owner |-> visit[v].owner, id |-> i,
                              file |-> file])
  PROVE  \A x \in Visitor : Served(x)'
  <1>1. PICK l \in Link : l = visit[v].link
    BY RequestKnown DEF ServedInv
  <1>2. PICK w : w = [at |-> "charge", link |-> l, owner |-> visit[v].owner, id |-> i, file |-> file]
    OBVIOUS
  <1>3. w.at = "charge" /\ w.link = l /\ w.id = i /\ w # NoVisit
    BY <1>2, NoRows
  <1>4. Visits(v, w) /\ visit'[v] = w /\ node' = node /\ link' = link
    BY <1>1, <1>2, Goes
  <1>5. link[l].there /\ link[l].pw => v \in Knows
    BY <1>1 DEF ServedInv, Served
  <1>6. LetsIn(v, l)' => i \in reach'[v]
    <2>1. LetsIn(v, l)' => LetsIn(v, l)
      BY <1>4 DEF LetsIn
    <2>2. LetsIn(v, l) => link'[l].node \in Above(node', i)
      BY <1>1, <1>4
    <2>3. IsLive(node', i) /\ l = visit'[v].link /\ visit'[v] # NoVisit
      BY <1>3, <1>4
    <2> QED BY <2>1, <2>2, <2>3, ReachNow
  <1>7. Served(v)'
    BY <1>3, <1>4, <1>5, <1>6 DEF Served
  <1> QED BY <1>4, <1>7, OthersWait

LEMMA RootServed ==
  ASSUME ServedInv, ReachStep, NEW v \in Visitor, ResolveRoot(v)
  PROVE  \A x \in Visitor : Served(x)'
  <1>0. PICK r : r = visit[v]
    OBVIOUS
  <1>1. PICK l \in Link : r = visit[v] /\ l = r.link /\ r.at = "root" /\ r # NoVisit
    BY <1>0, NoRows, RequestKnown DEF ResolveRoot, ServedInv
  <1>2. PICK i \in Node : i = r.shared
    BY <1>1 DEF ServedInv, LinkInv, LinkTypes, VisitOK, RootVisit, LateVisit
  <1>3. Served(v) /\ SoundTree(node)
    BY DEF ServedInv
  <1>4. (link[l].there /\ link[l].pw => v \in Knows) /\ (link[l].there => r.owner = link[l].owner /\ i = link[l].node)
    BY <1>1, <1>2, <1>3 DEF Served
  <1>5. CASE Visits(v, NoVisit)
    BY <1>5, EndsServed
  <1>6. CASE GetLive(node, r.owner, i)
             /\ Visits(v, [at |-> "charge", link |-> r.link, owner |-> r.owner, id |-> i,
                           file |-> node[i].kind = "file"])
    <2>1. IsLive(node, i) /\ i \in Above(node, i)
      BY <1>3, <1>6, AboveLeast DEF GetLive
    <2>2. LetsIn(v, l) => link[l].node \in Above(node, i)
      BY <1>4, <2>1 DEF LetsIn
    <2> QED BY <1>1, <1>6, <2>1, <2>2, FoundServed
  <1>7. CASE GetLive(node, r.owner, i)
             /\ Visits(v, [at |-> "path", link |-> r.link, owner |-> r.owner, rel |-> r.rel, root |-> node[i].path])
    <2>1. PICK w : w = [at |-> "path", link |-> l, owner |-> r.owner, rel |-> r.rel, root |-> node[i].path]
      OBVIOUS
    <2>2. w.at = "path" /\ w.link = l /\ w.owner = r.owner /\ w.root = node[i].path
      BY <2>1
    <2>3. Visits(v, w) /\ visit'[v] = w /\ node' = node /\ link' = link
      BY <1>1, <1>7, <2>1, Goes
    <2>4. IsLive(node, i)
      BY <1>7 DEF GetLive
    <2>5. Served(v)'
      BY <1>4, <2>2, <2>3, <2>4 DEF Served
    <2> QED BY <2>3, <2>5, OthersWait
  <1> QED BY <1>1, <1>2, <1>5, <1>6, <1>7 DEF ResolveRoot

LEMMA PathServed ==
  ASSUME ServedInv, ReachStep, NEW v \in Visitor, ResolvePath(v)
  PROVE  \A x \in Visitor : Served(x)'
  <1>0. PICK r : r = visit[v]
    OBVIOUS
  <1>1. PICK l \in Link : r = visit[v] /\ l = r.link /\ r.at = "path" /\ r # NoVisit
    BY <1>0, NoRows, RequestKnown DEF ResolvePath, ServedInv
  <1>2. Served(v) /\ SoundTree(node)
    BY DEF ServedInv
  <1>3. link[l].there => /\ r.owner = link[l].owner /\ IsLive(node, link[l].node)
                         /\ r.root = node[link[l].node].path
    BY <1>1, <1>2 DEF Served
  <1>4. CASE Visits(v, NoVisit)
    BY <1>4, EndsServed
  <1>5. CASE \E i \in Node : /\ GetLive(node, r.owner, i) /\ Confined(r.root, node[i].path)
                             /\ Visits(v, [at |-> "charge", link |-> r.link, owner |-> r.owner, id |-> i,
                                           file |-> node[i].kind = "file"])
    <2>1. PICK i \in Node : /\ GetLive(node, r.owner, i) /\ Confined(r.root, node[i].path)
                            /\ Visits(v, [at |-> "charge", link |-> r.link, owner |-> r.owner, id |-> i,
                                          file |-> node[i].kind = "file"])
      BY <1>5
    <2>2. IsLive(node, i) /\ node[i].owner = r.owner
      BY <2>1 DEF GetLive, Owns
    <2>3. ASSUME LetsIn(v, l) PROVE link[l].node \in Above(node, i)
      <3>1. link[l].there
        BY <2>3 DEF LetsIn
      <3>2. PICK g \in Node : g = link[l].node
        BY <3>1, LinkThere, LinkRows DEF ServedInv, LinkInv
      <3>3. IsLive(node, g) /\ node[g].owner = node[i].owner
        BY <1>3, <2>2, <3>1, <3>2 DEF ServedInv, LinksRight
      <3>4. IsPrefix(node[g].path, node[i].path)
        BY <1>3, <2>1, <3>1, <3>2 DEF Confined, Covers
      <3> QED BY <1>2, <2>2, <3>2, <3>3, <3>4, CoversAbove
    <2> QED BY <1>1, <2>1, <2>2, <2>3, FoundServed
  <1>6. \/ Visits(v, NoVisit)
        \/ \E i \in {i \in Node : /\ GetLive(node, r.owner, i) /\ node[i].path = Join(r.root, r.rel)
                                  /\ Confined(r.root, node[i].path)} :
             Visits(v, [at |-> "charge", link |-> r.link, owner |-> r.owner, id |-> i,
                        file |-> node[i].kind = "file"])
    BY <1>1 DEF ResolvePath
  <1> QED BY <1>4, <1>5, <1>6

\* The link is looked at once more when the download is counted.
LEMMA ChargeServed ==
  ASSUME ServedInv, ReachStep, NEW v \in Visitor, TryIncrementDownload(v)
  PROVE  \A x \in Visitor : Served(x)'
  <1>0. PICK r : r = visit[v]
    OBVIOUS
  <1>1. PICK l \in Link : r = visit[v] /\ l = r.link /\ r.at = "charge" /\ r # NoVisit
    BY <1>0, NoRows, RequestKnown DEF TryIncrementDownload, ServedInv
  <1>2. CASE Visits(v, NoVisit)
    BY <1>2, EndsServed
  <1>3. CASE ~Visits(v, NoVisit)
    <2>1. /\ Chargeable(link[l]) /\ visit' = [visit EXCEPT ![v].at = "open"] /\ node' = node
          /\ link' = [link EXCEPT ![l].count = @ + 1]
      BY <1>1, <1>3 DEF TryIncrementDownload
    <2>2. r \in LateVisit
      BY <1>1 DEF ServedInv, LinkInv, LinkTypes, VisitOK, RootVisit
    <2>3. /\ visit'[v] = [r EXCEPT !.at = "open"]
          /\ \A x \in Visitor : x # v => visit'[x] = visit[x]
      BY <1>1, <2>1 DEF ServedInv, LinkInv, LinkTypes
    <2>4. PICK w : w = visit'[v] /\ w.at = "open" /\ w.link = l /\ w.id = r.id /\ w # NoVisit
      <3>1. PICK w : w = visit'[v] /\ w = [r EXCEPT !.at = "open"]
        BY <2>3
      <3>2. w.at = "open" /\ w.link = l /\ w.id = r.id
        BY <1>1, <2>2, <3>1 DEF LateVisit
      <3> QED BY <3>1, <3>2, NoRows
    <2>5. r.id \in reach[v]
      BY <1>1, <2>1 DEF Chargeable, LetsIn, Served, ServedInv
    <2>6. \A k \in Link : Aged(k)
      <3>1. ShareStep
        BY DEF ShareStep
      <3>2. \A k \in Link : link[k] = NoLink => link'[k] = NoLink
        <4>1. link[l].there
          BY <2>1 DEF Chargeable
        <4> QED BY <2>1, <4>1, NoRows DEF ServedInv, LinkInv, LinkTypes
      <3>3. \A k \in Link : link[k] = NoLink => Aged(k)
        BY <3>2, NoRows DEF Aged
      <3>4. ASSUME NEW k \in Link, NEW u \in Sharer, NEW i \in Node, handleCreateShare(u, k, i) PROVE FALSE
        <4>1. link[k] = NoLink /\ visit' = visit
          BY <3>4 DEF handleCreateShare, Create
        <4> QED BY <1>1, <2>4, <4>1
      <3> QED BY <3>1, <3>3, <3>4, LinksAge DEF ServedInv
    <2>7. Served(v)'
      <3>1. link'[l].there /\ link'[l].pw => v \in Knows
        BY <1>1, <2>6 DEF Aged, Served, ServedInv
      <3>2. reach[v] \subseteq reach'[v]
        BY <2>4 DEF ReachStep
      <3> QED BY <2>4, <2>5, <3>1, <3>2 DEF Served
    <2>8. ASSUME NEW x \in Visitor, x # v PROVE Served(x)'
      <3>1. visit[x] # NoVisit => Aged(visit[x].link)
        BY <2>6, RequestKnown DEF ServedInv
      <3> QED BY <2>1, <2>3, <2>8, <3>1, Waits
    <2> QED BY <2>7, <2>8
  <1> QED BY <1>2, <1>3

LEMMA OpenServed ==
  ASSUME ServedInv, ReachStep, NEW v \in Visitor, Open(v)
  PROVE  \A x \in Visitor : Served(x)'
  <1>1. /\ visit'[v] = NoVisit /\ \A x \in Visitor : x # v => visit'[x] = visit[x]
        /\ node' = node /\ link' = link
    BY DEF Open, ServedInv, LinkInv, LinkTypes
  <1>2. Served(v)'
    BY <1>1 DEF Served
  <1>3. ASSUME NEW x \in Visitor, x # v PROVE Served(x)'
    BY <1>1, <1>3, Waits DEF Aged
  <1> QED BY <1>2, <1>3

LEMMA ServedStep ==
  ASSUME ~SamePath, ~TornPath PROVE ServedInv /\ [ShareNext]_shareVars => ServedInv'
  <1> SUFFICES ASSUME ServedInv, [ShareNext]_shareVars PROVE ServedInv'
    OBVIOUS
  <1>1. CASE UNCHANGED shareVars
    BY <1>1, LinkStep DEF shareVars, ServedInv, LinksRight, Served, LetsIn
  <1>2. CASE ShareStep /\ ReachStep
    <2>1. LinkInv'
      BY LinkStep DEF ServedInv
    <2>2. LinksRight'
      BY <1>2, LinksStayRight DEF ServedInv
    <2>3. SoundTree(node')
      BY <1>2, LinksRequest, RequestsSound DEF ServedInv
    <2>4. CASE \E u \in Sharer, l \in Link :
                 handleRevokeShare(u, l) \/ \E i \in Node : handleCreateShare(u, l, i)
      <3>1. visit' = visit /\ cookies' = cookies /\ node' = node
        BY <2>4 DEF handleRevokeShare, handleCreateShare
      <3>2. ASSUME NEW v \in Visitor, visit[v] # NoVisit PROVE Aged(visit[v].link)
        BY <1>2, <3>2, RequestKnown, LinksAge DEF ServedInv
      <3> QED BY <1>2, <2>1, <2>2, <2>3, <3>1, <3>2, Waits DEF ServedInv
    <2>5. CASE \E l \in Link : Expire(l) \/ DeleteStale(l)
      <3>1. visit' = visit /\ cookies' = cookies /\ node' = node
        BY <2>5 DEF Expire, DeleteStale
      <3>2. ASSUME NEW v \in Visitor, visit[v] # NoVisit PROVE Aged(visit[v].link)
        BY <1>2, <3>2, RequestKnown, LinksAge DEF ServedInv
      <3> QED BY <1>2, <2>1, <2>2, <2>3, <3>1, <3>2, Waits DEF ServedInv
    <2>6. CASE \E u \in Sharer : TreeChange(u)
      <3>1. visit' = visit /\ cookies' = cookies /\ \A v \in Visitor : visit[v].at # "path"
        BY <2>6 DEF TreeChange
      <3>2. ASSUME NEW v \in Visitor, visit[v] # NoVisit PROVE Aged(visit[v].link)
        BY <1>2, <3>2, RequestKnown, LinksAge DEF ServedInv
      <3> QED BY <1>2, <2>1, <2>2, <2>3, <3>1, <3>2, Waits DEF ServedInv
    <2>7. CASE \E v \in Visitor, l \in Link : handleShareUnlock(v, l)
      <3>1. PICK v \in Visitor, l \in Link : handleShareUnlock(v, l)
        BY <2>7
      <3>2. /\ visit' = visit /\ node' = node /\ link' = link /\ v \in Knows
            /\ cookies' = cookies \cup {<<v, l>>}
        BY <3>1 DEF handleShareUnlock, Unlock
      <3>3. \A x \in Visitor, k \in Link : <<x, k>> \in cookies' => x \in Knows
        BY <3>2 DEF ServedInv
      <3>4. \A x \in Visitor : Served(x)'
        BY <1>2, <3>2, Waits DEF Aged
      <3> QED BY <2>1, <2>2, <2>3, <3>3, <3>4 DEF ServedInv
    <2>8. CASE \E v \in Visitor, l \in Link, rel \in RelPaths : handleShareContent(v, l, rel)
      <3>1. cookies' = cookies
        BY <2>8 DEF handleShareContent, OpenContent, Visits
      <3>2. \A x \in Visitor : Served(x)'
        BY <1>2, <2>8, BeginsServed
      <3> QED BY <2>1, <2>2, <2>3, <3>1, <3>2 DEF ServedInv
    <2>9. CASE \E v \in Visitor : \/ ResolveRoot(v) \/ ResolvePath(v) \/ View(v)
                                  \/ TryIncrementDownload(v) \/ Open(v)
      <3>1. cookies' = cookies
        BY <2>9 DEF ResolveRoot, ResolvePath, View, TryIncrementDownload, Open, Visits
      <3>2. \A v \in Visitor : View(v) => Visits(v, NoVisit)
        BY DEF View
      <3>3. \A x \in Visitor : Served(x)'
        BY <1>2, <2>9, <3>2, RootServed, PathServed, EndsServed, ChargeServed, OpenServed
      <3> QED BY <2>1, <2>2, <2>3, <3>1, <3>3 DEF ServedInv
    <2> QED BY <1>2, <2>4, <2>5, <2>6, <2>7, <2>8, <2>9 DEF ShareStep
  <1> QED BY <1>1, <1>2 DEF ShareNext, ReachStep

LEMMA ServedStart == ShareInit => ServedInv
  <1> SUFFICES ASSUME ShareInit PROVE ServedInv
    OBVIOUS
  <1>1. SoundTree(node)
    BY SharedTreeAssumption DEF ShareInit, TreeInit
  <1>2. LinksRight /\ \A v \in Visitor : Served(v)
    BY NoRows DEF ShareInit, LinksRight, Served
  <1> QED BY <1>1, <1>2, LinkInit DEF ServedInv, ShareInit

LEMMA LinksInTree ==
  ASSUME ~SamePath
  PROVE  LinkInv /\ SoundTree(node) /\ LinksRight /\ [ShareNext]_shareVars => SoundTree(node)' /\ LinksRight'
  <1> SUFFICES ASSUME LinkInv, SoundTree(node), LinksRight, [ShareNext]_shareVars
               PROVE  SoundTree(node') /\ LinksRight'
    OBVIOUS
  <1>1. CASE UNCHANGED shareVars
    BY <1>1 DEF shareVars, LinksRight
  <1>2. CASE ShareStep
    BY <1>2, LinksRequest, RequestsSound, LinksStayRight
  <1> QED BY <1>1, <1>2 DEF ShareNext

\* While no folder moves where rows deleted with another of its path are in the trash, a link is on a
\* node of its owner's whatever he does to his tree, and goes with it (files/service.go,
\* shares.node_id REFERENCES nodes ON DELETE CASCADE).
THEOREM ShareTypesHold == ~SamePath => (ShareSpec => []ShareTypeOK)
  <1> SUFFICES ASSUME ~SamePath PROVE ShareSpec => []ShareTypeOK
    OBVIOUS
  <1>1. ShareInit => SoundTree(node) /\ LinksRight
    BY ServedStart DEF ServedInv
  <1>2. SoundTree(node) /\ LinksRight => ShareTypeOK
    BY DEF ShareTypeOK, TreeTypeOK, LinksRight
  <1> QED BY <1>1, <1>2, LinkInit, LinkStep, LinksInTree, PTL DEF ShareSpec

\* Unless the tree changes between the two reads of a path, a visitor is served only what he could
\* reach through a valid link at some moment since his request began, whatever its owner moves,
\* deletes or revokes meanwhile (shares.go, resolveNode and OpenContent).
THEOREM LinksServeReachable == ~SamePath /\ ~TornPath => (ShareSpec => ServesReachable)
  <1> SUFFICES ASSUME ~SamePath, ~TornPath PROVE ShareSpec => ServesReachable
    OBVIOUS
  <1>1. ServedInv => \A v \in Visitor : visit[v].at = "open" => visit[v].id \in reach[v]
    BY NoRows DEF ServedInv, Served
  <1>2. ServedInv => (\A v \in Visitor : (visit[v].at = "open" /\ opened' # opened /\ visit'[v] = NoVisit)
                                           => visit[v].id \in reach[v])
    BY <1>1
  <1>3. ShareSpec => []ServedInv
    BY ServedStart, ServedStep, PTL DEF ShareSpec
  <1>4. ServedInv => [\A v \in Visitor : (visit[v].at = "open" /\ opened' # opened /\ visit'[v] = NoVisit)
                                           => visit[v].id \in reach[v]]_shareVars
    BY <1>2
  <1>5. []ServedInv => [][\A v \in Visitor : (visit[v].at = "open" /\ opened' # opened /\ visit'[v] = NoVisit)
                                               => visit[v].id \in reach[v]]_shareVars
    BY <1>4, PTL
  <1> QED BY <1>3, <1>5 DEF ServesReachable

-----------------------------------------------------------------------------
(* Grants                                                                  *)

Grant == [node : Node, owner : User, grantee : User, role : Roles]

Ask ==
  [at : {"asks", "writes"}, op : {"patch", "trash", "folder", "file"}, user : User, left : Seq(Node),
   owners : SUBSET User, id : Node, dest : Node, name : Name \cup {""}]

\* One grant for a node and a grantee, given by the owner of the node to somebody else.
GrantRows(g) ==
  /\ g \subseteq Grant
  /\ \A x, y \in g : x.node = y.node /\ x.grantee = y.grantee => x = y
GrantsKept ==
  /\ GrantRows(grants)
  /\ \A x \in grants : /\ node[x.node].there /\ x.owner = node[x.node].owner
                       /\ x.owner # x.grantee

\* What a request will write to, and may not have been able to so far, is still to be
\* asked about.
Owed(c, a) ==
  /\ a.op = "trash" \/ a.name \in Name
  /\ a.at = "asks" <=> a.left # <<>>
  /\ Torn \/ \A i \in Touched(a) : i \in c \/ \E n \in 1..Len(a.left) : a.left[n] = i

\* Between the two statements of AccessFor, when nobody writes there.
Fresh(q) ==
  LET i == q.ask.left[1]
  IN IsLive(node, i) /\ q.owner = node[i].owner /\ q.path = node[i].path

Reading(q) == q.at = "reads" /\ q.ask \in Ask /\ q.ask.at = "asks" /\ q.owner \in User

AskKnown(r) ==
  \/ asks[r] = NoAsk
  \/ asks[r] \in Ask /\ Owed(could[r], asks[r])
  \/ Reading(asks[r]) /\ Owed(could[r], asks[r].ask) /\ (Torn \/ Fresh(asks[r]))

GrantInv ==
  /\ node \in Tables /\ GrantsKept
  /\ asks = [r \in Request |-> asks[r]]
  /\ \A r \in Request : AskKnown(r)

CouldStep ==
  could' = [r \in Request |-> IF asks'[r] = NoAsk THEN {}
                              ELSE could[r] \cup Writable(AskOf(r).user)']

LEMMA AskShapes ==
  /\ NoAsk.at = "idle" /\ NoAsk \notin Ask
  /\ \A a \in Ask : /\ a.at \in {"asks", "writes"} /\ a.user \in User /\ a.left \in Seq(Node)
                    /\ a.id \in Node /\ a.dest \in Node /\ a.owners \subseteq User
                    /\ a.op \in {"patch", "trash", "folder", "file"}
  <1>1. NoAsk.at = "idle"
    BY DEF NoAsk
  <1> QED BY <1>1 DEF Ask

LEMMA GrantShapes ==
  ASSUME NEW x \in Grant
  PROVE  /\ x.node \in Node /\ x.owner \in User /\ x.grantee \in User
         /\ \A role \in Roles : LET y == [x EXCEPT !.role = role] IN
              y \in Grant /\ y.node = x.node /\ y.owner = x.owner /\ y.grantee = x.grantee
  BY DEF Grant

LEMMA GrantsInit == GrantInit => GrantInv
  <1> SUFFICES ASSUME GrantInit PROVE GrantInv
    OBVIOUS
  <1>1. node \in Tables
    BY SharedTreeAssumption DEF GrantInit, TreeInit, Tables, SoundTree
  <1>2. asks = [r \in Request |-> asks[r]] /\ \A r \in Request : AskKnown(r)
    BY DEF GrantInit, AskKnown
  <1> QED BY <1>1, <1>2 DEF GrantInit, GrantInv, GrantsKept, GrantRows

\* A request in flight that does not move keeps what it knows.
LEMMA Bystander ==
  ASSUME GrantInv, CouldStep, NEW r \in Request, asks'[r] = asks[r], node' = node \/ Whole
  PROVE  AskKnown(r)'
  <1>1. CASE asks[r] = NoAsk
    BY <1>1 DEF AskKnown
  <1>2. CASE asks[r] # NoAsk
    <2>1. could[r] \subseteq could'[r]
      BY <1>2 DEF CouldStep
    <2>2. \A a : Owed(could[r], a) => Owed(could'[r], a)
      BY <2>1 DEF Owed
    <2>3. CASE asks[r] \in Ask
      BY <1>2, <2>2, <2>3, AskShapes DEF GrantInv, AskKnown, Reading
    <2>4. CASE asks[r] \notin Ask
      <3>1. Reading(asks[r]) /\ Owed(could[r], asks[r].ask) /\ (Torn \/ Fresh(asks[r]))
        BY <1>2, <2>4 DEF GrantInv, AskKnown
      <3>2. Torn \/ node' = node
        BY <3>1 DEF Whole, Reading
      <3>3. Torn \/ Fresh(asks[r])'
        BY <3>1, <3>2 DEF Fresh, IsLive
      <3>4. Reading(asks[r])'
        BY <3>1 DEF Reading
      <3> QED BY <2>2, <3>1, <3>3, <3>4 DEF AskKnown
    <2> QED BY <2>3, <2>4
  <1> QED BY <1>1, <1>2

\* Nothing is asked; the owner changes a grant.
LEMMA GrantsChange ==
  ASSUME GrantInv, CouldStep, UNCHANGED <<node, asks>>, GrantRows(grants'),
         \A x \in grants' : \/ x \in grants
                            \/ /\ node[x.node].there /\ x.owner = node[x.node].owner
                               /\ x.owner # x.grantee
  PROVE  GrantInv'
  <1>1. GrantsKept'
    BY DEF GrantInv, GrantsKept, GrantRows
  <1>2. \A r \in Request : AskKnown(r)'
    BY Bystander
  <1> QED BY <1>1, <1>2 DEF GrantInv

LEMMA CreateGrantKeeps ==
  ASSUME GrantInv, CouldStep, NEW u \in User, NEW i \in Node, NEW g \in User, NEW role \in Roles,
         handleCreateGrant(u, i, g, role)
  PROVE  GrantInv'
  <1> DEFINE new == [node |-> i, owner |-> u, grantee |-> g, role |-> role]
  <1>1. /\ grants' = {x \in grants : x.node # i \/ x.grantee # g} \cup {new}
        /\ u # g /\ node[i].there /\ node[i].owner = u /\ UNCHANGED <<node, asks>>
    BY DEF handleCreateGrant, CreateGrant, GetLive, Owns
  <1>2. new \in Grant /\ new.node = i /\ new.owner = u /\ new.grantee = g
    BY DEF Grant
  <1> HIDE DEF new
  <1>3. GrantRows(grants')
    BY <1>1, <1>2 DEF GrantInv, GrantsKept, GrantRows
  <1> QED BY <1>1, <1>2, <1>3, GrantsChange

LEMMA UpdateGrantKeeps ==
  ASSUME GrantInv, CouldStep, NEW u \in User, NEW x \in grants, NEW role \in Roles,
         handleUpdateGrant(u, x, role)
  PROVE  GrantInv'
  <1> DEFINE new == [x EXCEPT !.role = role]
  <1>1. grants' = (grants \ {x}) \cup {new} /\ UNCHANGED <<node, asks>>
    BY DEF handleUpdateGrant, UpdateGrant
  <1>2. x \in Grant /\ node[x.node].there /\ x.owner = node[x.node].owner /\ x.owner # x.grantee
    BY DEF GrantInv, GrantsKept, GrantRows
  <1>3. new \in Grant /\ new.node = x.node /\ new.owner = x.owner /\ new.grantee = x.grantee
    BY <1>2 DEF Grant
  <1> HIDE DEF new
  <1>4. GrantRows(grants')
    BY <1>1, <1>3 DEF GrantInv, GrantsKept, GrantRows
  <1> QED BY <1>1, <1>2, <1>3, <1>4, GrantsChange

LEMMA DeleteGrantKeeps ==
  ASSUME GrantInv, CouldStep, NEW u \in User, NEW x \in grants, handleDeleteGrant(u, x)
  PROVE  GrantInv'
  <1>1. grants' = grants \ {x} /\ UNCHANGED <<node, asks>>
    BY DEF handleDeleteGrant, DeleteGrant
  <1>2. GrantRows(grants')
    BY <1>1 DEF GrantInv, GrantsKept, GrantRows
  <1> QED BY <1>1, <1>2, GrantsChange

\* A request moves on, and neither the tree nor the grants change.
LEMMA RequestMoves ==
  ASSUME GrantInv, CouldStep, NEW r \in Request, NEW q, asks' = [asks EXCEPT ![r] = q],
         UNCHANGED <<node, grants>>, AskKnown(r)'
  PROVE  GrantInv'
  <1>1. ASSUME NEW s \in Request, s # r PROVE AskKnown(s)'
    <2>1. asks'[s] = asks[s]
      BY <1>1 DEF GrantInv
    <2> QED BY <2>1, Bystander
  <1>2. GrantsKept'
    BY DEF GrantInv, GrantsKept, GrantRows
  <1> QED BY <1>1, <1>2 DEF GrantInv

LEMMA BeginsKeeps ==
  ASSUME GrantInv, CouldStep, NEW r \in Request, NEW a \in Ask, Begins(r, a), a.at = "asks",
         a.op = "trash" \/ a.name \in Name, a.left # <<>>,
         \A i \in Touched(a) : \E n \in 1..Len(a.left) : a.left[n] = i
  PROVE  GrantInv'
  <1>1. asks' = [asks EXCEPT ![r] = a] /\ UNCHANGED <<node, grants>>
    BY DEF Begins
  <1>2. asks'[r] = a
    BY <1>1 DEF GrantInv
  <1>3. Owed(could'[r], a)
    BY DEF Owed
  <1>4. AskKnown(r)'
    BY <1>2, <1>3 DEF AskKnown
  <1> QED BY <1>1, <1>4, RequestMoves

LEMMA TrashBegins ==
  ASSUME GrantInv, CouldStep, NEW r \in Request, NEW u \in User, NEW i \in Node,
         handleTrashNode(r, u, i)
  PROVE  GrantInv'
  <1>0. <<i>> \in Seq(Node)
    OBVIOUS
  <1> DEFINE a == [at |-> "asks", op |-> "trash", user |-> u, left |-> <<i>>, owners |-> {},
                   id |-> i, dest |-> i, name |-> ""]
  <1>1. a \in Ask /\ a.at = "asks" /\ a.op = "trash" /\ a.left = <<i>> /\ Touched(a) = {i}
    BY <1>0 DEF Ask, Touched
  <1>2. Begins(r, a)
    BY DEF handleTrashNode
  <1> HIDE DEF a
  <1>3. a.left[1] = i /\ 1 \in 1..Len(a.left) /\ a.left # <<>>
    BY <1>1
  <1>4. \A j \in Touched(a) : \E k \in 1..Len(a.left) : a.left[k] = j
    BY <1>1, <1>3
  <1> QED BY <1>1, <1>2, <1>3, <1>4, BeginsKeeps

LEMMA HandlersKeep ==
  ASSUME GrantInv, CouldStep, NEW r \in Request, NEW u \in User, NEW i \in Node, NEW n \in Name,
         \/ handleCreateFolder(r, u, i, n) \/ handleUpload(r, u, i, n)
         \/ \E p \in Node : handlePatchNode(r, u, i, p, n)
  PROVE  GrantInv'
  <1>1. <<i>> \in Seq(Node) /\ \A p \in Node : <<i, p>> \in Seq(Node)
    OBVIOUS
  <1>2. ASSUME NEW kind \in {"folder", "file"}, Begins(r, CreateBelow(u, i, n, kind)) PROVE GrantInv'
    <2> DEFINE a == CreateBelow(u, i, n, kind)
    <2>1. a \in Ask /\ a.at = "asks" /\ a.left = <<i>> /\ a.name = n /\ Touched(a) = {i}
      BY <1>1 DEF Ask, Touched, CreateBelow
    <2>2. Begins(r, a)
      BY <1>2
    <2> HIDE DEF a
    <2>3. a.left[1] = i /\ 1 \in 1..Len(a.left) /\ a.left # <<>>
      BY <2>1
    <2>4. \A j \in Touched(a) : \E k \in 1..Len(a.left) : a.left[k] = j
      BY <2>1, <2>3
    <2> QED BY <2>1, <2>2, <2>3, <2>4, BeginsKeeps
  <1>3. ASSUME NEW p \in Node, handlePatchNode(r, u, i, p, n) PROVE GrantInv'
    <2> DEFINE a == [at |-> "asks", op |-> "patch", user |-> u, left |-> <<i, p>>, owners |-> {},
                     id |-> i, dest |-> p, name |-> n]
    <2>1. a \in Ask /\ a.at = "asks" /\ a.left = <<i, p>> /\ a.name = n /\ Touched(a) = {i, p}
      BY <1>1 DEF Ask, Touched
    <2>2. Begins(r, a)
      BY <1>3 DEF handlePatchNode
    <2> HIDE DEF a
    <2>3. a.left[1] = i /\ a.left[2] = p /\ 1 \in 1..Len(a.left) /\ 2 \in 1..Len(a.left) /\ a.left # <<>>
      BY <2>1
    <2>4. \A j \in Touched(a) : \E k \in 1..Len(a.left) : a.left[k] = j
      BY <2>1, <2>3
    <2> QED BY <2>1, <2>2, <2>3, <2>4, BeginsKeeps
  <1> QED BY <1>2, <1>3 DEF handleCreateFolder, handleUpload

LEMMA ReadNodeKeeps ==
  ASSUME GrantInv, CouldStep, NEW r \in Request, ReadNode(r)
  PROVE  GrantInv'
  <1>0. PICK a : a = asks[r]
    OBVIOUS
  <1> DEFINE i == a.left[1]
  <1>00. PICK q : q = [at |-> "reads", ask |-> a, owner |-> node[i].owner, path |-> node[i].path]
    OBVIOUS
  <1>1. a.at = "asks" /\ a \in Ask /\ Owed(could[r], a)
    BY <1>0, AskShapes DEF ReadNode, GrantInv, AskKnown, Reading
  <1>2. CASE ~IsLive(node, i)
    <2>1. asks' = [asks EXCEPT ![r] = NoAsk] /\ UNCHANGED <<node, grants>>
      BY <1>0, <1>2 DEF ReadNode, Answers
    <2>2. AskKnown(r)'
      BY <2>1 DEF GrantInv, AskKnown
    <2> QED BY <2>1, <2>2, RequestMoves
  <1>3. CASE IsLive(node, i)
    <2>1. asks' = [asks EXCEPT ![r] = q] /\ UNCHANGED <<node, grants>>
      BY <1>0, <1>00, <1>3 DEF ReadNode, Answers
    <2>2. asks'[r] = q
      BY <2>1 DEF GrantInv
    <2>3. a.left \in Seq(Node) /\ a.left # <<>>
      BY <1>1, AskShapes DEF Owed
    <2>4. i \in Node
      BY <2>3
    <2>5. node[i].owner \in User
      BY <1>3, <2>4, ThereIsRow, RowShapes DEF GrantInv, IsLive
    <2>6. q.at = "reads" /\ q.ask = a /\ q.owner = node[i].owner /\ q.path = node[i].path
      BY <1>00
    <2>7. Reading(q)
      BY <1>1, <2>5, <2>6 DEF Reading
    <2>8. Fresh(q)' /\ a # NoAsk
      BY <1>1, <1>3, <2>1, <2>6, AskShapes DEF Fresh, IsLive
    <2>9. q # NoAsk
      BY <2>6, AskShapes
    <2>10. could[r] \subseteq could'[r]
      BY <1>0, <2>2, <2>9 DEF CouldStep
    <2>11. Owed(could'[r], q.ask)
      BY <1>1, <2>6, <2>10 DEF Owed
    <2>12. Reading(asks'[r]) /\ Owed(could'[r], asks'[r].ask) /\ Fresh(asks[r])'
      BY <2>2, <2>7, <2>8, <2>11 DEF Fresh
    <2>13. AskKnown(r)'
      BY <2>12 DEF AskKnown, Reading
    <2> QED BY <2>1, <2>13, RequestMoves
  <1> QED BY <1>2, <1>3

\* What is read now as writable enters the history in the same step.
LEMMA WriteOwnerForKeeps ==
  ASSUME GrantInv, CouldStep, NEW r \in Request, WriteOwnerFor(r)
  PROVE  GrantInv'
  <1>0. PICK a, owner : a = asks[r].ask /\ owner = asks[r].owner
    OBVIOUS
  <1>00. PICK role : role = IF owner = a.user THEN "owner"
                            ELSE BestRole(GrantsCovering(node, a.user, owner, asks[r].path))
    OBVIOUS
  <1> DEFINE next == [a EXCEPT !.owners = {owner}, !.left = Tail(@),
                               !.at = IF Len(a.left) = 1 THEN "writes" ELSE "asks"]
  <1>1. /\ Reading(asks[r]) /\ Owed(could[r], a) /\ (Torn \/ Fresh(asks[r]))
        /\ a \in Ask /\ a.at = "asks" /\ owner \in User
    BY <1>0, AskShapes DEF WriteOwnerFor, GrantInv, AskKnown, Reading
  <1>2. UNCHANGED <<node, grants>>
    BY DEF WriteOwnerFor, Answers
  <1>3. CASE ~(CanWrite(role) /\ a.owners \subseteq {owner})
    <2>1. asks' = [asks EXCEPT ![r] = NoAsk]
      BY <1>0, <1>00, <1>3 DEF WriteOwnerFor, Answers
    <2>2. AskKnown(r)'
      BY <2>1 DEF GrantInv, AskKnown
    <2> QED BY <1>2, <2>1, <2>2, RequestMoves
  <1>4. CASE CanWrite(role) /\ a.owners \subseteq {owner}
    <2>1. asks' = [asks EXCEPT ![r] = next]
      BY <1>0, <1>00, <1>4 DEF WriteOwnerFor, Answers
    <2>2. a.left \in Seq(Node) /\ a.left # <<>> /\ a.user \in User /\ a.id \in Node /\ a.dest \in Node
      BY <1>1, AskShapes DEF Owed
    <2>3. /\ a.left[1] \in Node /\ Len(a.left) \in Nat \ {0} /\ Tail(a.left) \in Seq(Node)
          /\ Len(Tail(a.left)) = Len(a.left) - 1
          /\ \A n \in 1..Len(Tail(a.left)) : Tail(a.left)[n] = a.left[n + 1]
      BY <2>2
    <2>4. /\ next \in Ask /\ next.user = a.user /\ next.id = a.id /\ next.dest = a.dest
          /\ next.op = a.op /\ next.name = a.name /\ next.left = Tail(a.left)
          /\ next.at = IF Len(a.left) = 1 THEN "writes" ELSE "asks"
      BY <1>1, <2>3 DEF Ask
    <2>5. Torn \/ CanWrite(AccessFor(a.user, a.left[1]))
      BY <1>0, <1>00, <1>1, <1>4 DEF Fresh, AccessFor
    <2>6. asks'[r] = next
      BY <2>1 DEF GrantInv
    <2> HIDE DEF next
    <2>7. next # NoAsk /\ next.at # "reads"
      BY <2>4, AskShapes
    <2>8. could'[r] = could[r] \cup Writable(a.user)
      <3>1. AskOf(r)' = next
        BY <2>6, <2>7 DEF AskOf
      <3>2. Writable(a.user)' = Writable(a.user)
        BY <1>2 DEF Writable, AccessFor, IsLive, GrantsCovering, BestRole
      <3>3. Writable(AskOf(r).user)' = Writable(next.user)'
        BY <3>1 DEF Writable
      <3> QED BY <2>4, <2>6, <2>7, <3>2, <3>3 DEF CouldStep
    <2>9. Torn \/ a.left[1] \in could'[r]
      BY <2>3, <2>5, <2>8 DEF Writable
    <2>10. Owed(could'[r], next)
      <3>1. next.op = "trash" \/ next.name \in Name
        BY <1>1, <2>4 DEF Owed
      <3>2. next.at = "asks" <=> next.left # <<>>
        <4>1. Tail(a.left) = <<>> <=> Len(a.left) = 1
          <5>1. PICK s \in Seq(Node) : s = Tail(a.left) /\ Len(s) = Len(a.left) - 1
            BY <2>3
          <5>2. s # <<>> => Len(s) # 0
            OBVIOUS
          <5>3. s = <<>> => Len(s) = 0
            OBVIOUS
          <5>4. Len(a.left) \in Nat
            BY <2>3
          <5>5. s = <<>> <=> Len(a.left) = 1
            BY <5>1, <5>2, <5>3, <5>4
          <5> QED BY <5>1, <5>5
        <4>2. next.at = "asks" <=> Len(a.left) # 1
          BY <2>4
        <4> QED BY <2>4, <4>1, <4>2
      <3>3. ASSUME ~Torn, NEW i \in Touched(next), i \notin could'[r]
            PROVE  \E n \in 1..Len(next.left) : next.left[n] = i
        <4>1. i \in Touched(a) /\ i \notin could[r]
          BY <2>4, <2>8, <3>3 DEF Touched
        <4>2. PICK n \in 1..Len(a.left) : a.left[n] = i
          BY <1>1, <3>3, <4>1 DEF Owed
        <4>3. n # 1
          BY <2>9, <3>3, <4>2
        <4>4. n - 1 \in 1..Len(Tail(a.left)) /\ Tail(a.left)[n - 1] = i
          BY <2>3, <4>2, <4>3
        <4> QED BY <2>4, <4>4
      <3> QED BY <3>1, <3>2, <3>3 DEF Owed
    <2>11. AskKnown(r)'
      BY <2>4, <2>6, <2>10 DEF AskKnown
    <2> QED BY <1>2, <2>1, <2>11, RequestMoves
  <1> QED BY <1>3, <1>4

\* The tree changes, and the grants whose nodes are gone go with them.
LEMMA TreeMoves ==
  ASSUME GrantInv, CouldStep, Whole, node' \in Tables,
         \/ OwnersKept(node, node') /\ grants' = grants
         \/ /\ \A j \in Node : node'[j].there => node'[j] = node[j]
            /\ grants' = {x \in grants : node'[x.node].there},
         NEW r, \/ asks' = asks
                \/ r \in Request /\ asks' = [asks EXCEPT ![r] = NoAsk]
  PROVE  GrantInv'
  <1>1. GrantsKept'
    <2>1. \A x \in grants : x.node \in Node
      BY GrantShapes DEF GrantInv, GrantsKept, GrantRows
    <2> QED BY <2>1 DEF GrantInv, GrantsKept, GrantRows, OwnersKept
  <1>2. ASSUME NEW s \in Request PROVE AskKnown(s)'
    <2>1. CASE asks'[s] = asks[s]
      BY <2>1, Bystander
    <2>2. CASE asks'[s] = NoAsk
      BY <2>2 DEF AskKnown
    <2> QED BY <2>1, <2>2 DEF GrantInv
  <1> QED BY <1>1, <1>2 DEF GrantInv

LEMMA DroppedKeeps ==
  ASSUME GrantInv, CouldStep, NEW r \in Request, Dropped(r)
  PROVE  GrantInv'
  <1>1. asks' = [asks EXCEPT ![r] = NoAsk] /\ UNCHANGED <<node, grants>>
    BY DEF Dropped, Answers
  <1>2. AskKnown(r)'
    BY <1>1 DEF GrantInv, AskKnown
  <1> QED BY <1>1, <1>2, RequestMoves

LEMMA WritesKeeps ==
  ASSUME GrantInv, CouldStep, NEW r \in Request, Writes(r)
  PROVE  GrantInv'
  <1> DEFINE a == asks[r]
  <1>1. /\ a.at = "writes" /\ Whole /\ asks' = [asks EXCEPT ![r] = NoAsk]
        /\ grants' = grants
    BY DEF Writes
  <1>2. a \in Ask /\ Owed(could[r], a)
    BY <1>1, AskShapes DEF GrantInv, AskKnown, Reading
  <1>3. a.id \in Node /\ a.dest \in Node /\ \A u \in a.owners : u \in User
    BY <1>2, AskShapes
  <1>4. PICK u \in a.owners :
          \/ a.op = "patch" /\ node' = Moved(node, u, a.id, a.dest, a.name)
          \/ a.op = "trash" /\ node' = Trashed(node, u, a.id)
          \/ /\ a.op \in {"folder", "file"}
             /\ \E i \in FreshNode : node' = Created(node, u, i, a.dest, a.name, a.op)
    BY DEF Writes
  <1>5. a.op # "trash" => a.name \in Name
    BY <1>2 DEF Owed
  <1> HIDE DEF a
  <1>6. node' \in Tables /\ OwnersKept(node, node')
    <2>1. CASE a.op = "patch" /\ node' = Moved(node, u, a.id, a.dest, a.name)
      BY <1>3, <1>5, <2>1, MovedRows DEF GrantInv
    <2>2. CASE node' = Trashed(node, u, a.id)
      BY <1>3, <2>2, MarkedRows DEF GrantInv
    <2>3. CASE /\ a.op \in {"folder", "file"}
               /\ \E i \in FreshNode : node' = Created(node, u, i, a.dest, a.name, a.op)
      BY <1>3, <1>5, <2>3, FreshNodes, CreatedRows DEF GrantInv
    <2> QED BY <1>4, <2>1, <2>2, <2>3
  <1> QED BY <1>1, <1>6, TreeMoves

LEMMA OwnWriteKeeps ==
  ASSUME GrantInv, CouldStep, NEW u \in User, OwnWrite(u)
  PROVE  GrantInv'
  <1>1. Whole /\ asks' = asks /\ grants' = grants
    BY DEF OwnWrite
  <1>2. PICK i \in Node :
          \/ node' = Trashed(node, u, i)
          \/ \E p \in Node, n \in Name : node' = Moved(node, u, i, p, n)
          \/ \E n \in Name, kind \in {"folder", "file"}, new \in FreshNode :
               node' = Created(node, u, new, i, n, kind)
    BY DEF OwnWrite
  <1>3. node' \in Tables /\ OwnersKept(node, node')
    <2>1. CASE node' = Trashed(node, u, i)
      BY <2>1, MarkedRows DEF GrantInv
    <2>2. CASE \E p \in Node, n \in Name : node' = Moved(node, u, i, p, n)
      BY <2>2, MovedRows DEF GrantInv
    <2>3. CASE \E n \in Name, kind \in {"folder", "file"}, new \in FreshNode :
                 node' = Created(node, u, new, i, n, kind)
      BY <2>3, FreshNodes, CreatedRows DEF GrantInv
    <2> QED BY <1>2, <2>1, <2>2, <2>3
  <1> QED BY <1>1, <1>3, TreeMoves

LEMMA OwnersTrashKeeps ==
  ASSUME GrantInv, CouldStep, NEW u \in User, NEW i \in Node,
         handleRestoreNode(u, i) \/ handlePurgeNode(u, i)
  PROVE  GrantInv'
  <1>1. Whole /\ asks' = asks
    BY DEF handleRestoreNode, handlePurgeNode
  <1>2. CASE handleRestoreNode(u, i)
    <2>1. node' \in Tables /\ OwnersKept(node, node') /\ grants' = grants
      BY <1>2, MarkedRows DEF handleRestoreNode, GrantInv
    <2> QED BY <1>1, <2>1, TreeMoves
  <1>3. CASE handlePurgeNode(u, i)
    <2>1. node' \in Tables /\ \A j \in Node : node'[j].there => node'[j] = node[j]
      BY <1>3, PurgedRows DEF handlePurgeNode, GrantInv
    <2>2. grants' = {x \in grants : node'[x.node].there}
      BY <1>3 DEF handlePurgeNode
    <2> QED BY <1>1, <2>1, <2>2, TreeMoves
  <1> QED BY <1>2, <1>3

LEMMA GrantsStep == GrantInv /\ [GrantNext]_grantVars => GrantInv'
  <1> SUFFICES ASSUME GrantInv, [GrantNext]_grantVars PROVE GrantInv'
    OBVIOUS
  <1>1. CASE UNCHANGED grantVars
    BY <1>1 DEF grantVars, GrantInv, GrantsKept, GrantRows, AskKnown, Reading, Fresh, IsLive
  <1>2. CASE GrantStep /\ CouldStep
    <2>1. CASE \E u, g \in User, i \in Node, role \in Roles : handleCreateGrant(u, i, g, role)
      BY <1>2, <2>1, CreateGrantKeeps
    <2>2. CASE \E u \in User, x \in grants :
                 \/ handleDeleteGrant(u, x)
                 \/ \E role \in Roles : handleUpdateGrant(u, x, role)
      BY <1>2, <2>2, DeleteGrantKeeps, UpdateGrantKeeps
    <2>3. CASE \E r \in Request, u \in User, i \in Node : handleTrashNode(r, u, i)
      BY <1>2, <2>3, TrashBegins
    <2>4. CASE \E r \in Request, u \in User, i \in Node, n \in Name :
                 \/ handleCreateFolder(r, u, i, n) \/ handleUpload(r, u, i, n)
                 \/ \E p \in Node : handlePatchNode(r, u, i, p, n)
      BY <1>2, <2>4, HandlersKeep
    <2>5. CASE \E r \in Request : ReadNode(r) \/ WriteOwnerFor(r) \/ Writes(r) \/ Dropped(r)
      BY <1>2, <2>5, ReadNodeKeeps, WriteOwnerForKeeps, WritesKeeps, DroppedKeeps
    <2>6. CASE \E u \in User : OwnWrite(u)
      BY <1>2, <2>6, OwnWriteKeeps
    <2>7. CASE \E u \in User, i \in Node : handleRestoreNode(u, i) \/ handlePurgeNode(u, i)
      BY <1>2, <2>7, OwnersTrashKeeps
    <2> QED BY <1>2, <2>1, <2>2, <2>3, <2>4, <2>5, <2>6, <2>7 DEF GrantStep
  <1> QED BY <1>1, <1>2 DEF GrantNext, CouldStep

\* Nobody holds two grants on a node, holds one on his own, or on a node whose owner
\* did not give it (files/grants.go, CreateGrant).
THEOREM GrantsStayTrue == GrantSpec => []GrantsKept
  BY GrantsInit, GrantsStep, PTL DEF GrantSpec, GrantInv

\* Whatever endpoint is asked what a user may see of somebody else's node answers as
\* AccessFor does (files/grants.go, VisibleNodes, AccessForNodes, GrantsForNode).
THEOREM EndpointsAgree == GrantSpec => []OneAnswer
  <1>1. GrantInv => OneAnswer
    <2> SUFFICES ASSUME GrantInv, NEW u \in User, NEW i \in Node, IsLive(node, i), node[i].owner # u
                 PROVE  /\ VisibleNodes(u, i) <=> AccessFor(u, i) # "none"
                        /\ AccessForNodes(u, i) = AccessFor(u, i)
                        /\ (\E x \in GrantsForNode(node[i].owner, i) : x.grantee = u)
                             <=> AccessFor(u, i) # "none"
      BY DEF OneAnswer
    <2> DEFINE S == GrantsCovering(node, u, node[i].owner, node[i].path)
    <2>1. AccessFor(u, i) = BestRole(S)
      BY DEF AccessFor
    <2>2. \A x \in grants : x.owner = node[x.node].owner /\ x.role \in Roles
      BY DEF GrantInv, GrantsKept, GrantRows, Grant
    <2>3. BestRole(S) # "none" <=> S # {}
      BY DEF BestRole
    <2>4. VisibleNodes(u, i) <=> S # {}
      BY DEF VisibleNodes, GrantsCovering
    <2>5. (\E x \in GrantsForNode(node[i].owner, i) : x.grantee = u) <=> S # {}
      BY <2>2 DEF GrantsForNode, GrantsCovering
    <2>6. AccessForNodes(u, i) = BestRole(S)
      <3>1. {x \in grants : /\ x.grantee = u /\ x.owner = node[i].owner /\ IsLive(node, x.node)
                            /\ Covers(node[x.node].path, node[i].path)} = S
        BY <2>2 DEF GrantsCovering
      <3> QED BY <3>1 DEF AccessForNodes
    <2> QED BY <2>1, <2>3, <2>4, <2>5, <2>6
  <1> QED BY <1>1, GrantsInit, GrantsStep, PTL DEF GrantSpec

LEMMA GrantsRequest ==
  ASSUME GrantInv, GrantStep PROVE Requested(node') \/ node' = node
  <1>1. CASE \E u, g \in User, i \in Node, role \in Roles : handleCreateGrant(u, i, g, role)
    BY <1>1 DEF handleCreateGrant
  <1>2. CASE \E u \in User, x \in grants :
               handleDeleteGrant(u, x) \/ \E role \in Roles : handleUpdateGrant(u, x, role)
    BY <1>2 DEF handleDeleteGrant, handleUpdateGrant
  <1>3. CASE \E r \in Request, u \in User, i \in Node :
               \/ handleTrashNode(r, u, i)
               \/ \E n \in Name : handleCreateFolder(r, u, i, n) \/ handleUpload(r, u, i, n)
               \/ \E p \in Node, n \in Name : handlePatchNode(r, u, i, p, n)
    <2>1. PICK r, ask : Begins(r, ask)
      BY <1>3, Zenon DEF handleTrashNode, handleCreateFolder, handleUpload, handlePatchNode
    <2> QED BY <2>1 DEF Begins
  <1>4. CASE \E r \in Request : ReadNode(r) \/ WriteOwnerFor(r) \/ Dropped(r)
    BY <1>4 DEF ReadNode, WriteOwnerFor, Dropped, Answers
  <1>5. CASE \E r \in Request : Writes(r)
    <2>1. PICK r \in Request : Writes(r)
      BY <1>5
    <2>2. PICK a : a = asks[r] /\ a.at = "writes"
      BY <2>1 DEF Writes
    <2>3. a \in Ask /\ Owed(could[r], a)
      BY <2>2, AskShapes DEF GrantInv, AskKnown, Reading
    <2>4. a.id \in Node /\ a.dest \in Node /\ \A u \in a.owners : u \in User
      BY <2>3, AskShapes
    <2>5. PICK u \in a.owners :
            \/ a.op = "patch" /\ node' = Moved(node, u, a.id, a.dest, a.name)
            \/ node' = Trashed(node, u, a.id)
            \/ /\ a.op \in {"folder", "file"}
               /\ \E i \in FreshNode : node' = Created(node, u, i, a.dest, a.name, a.op)
      BY <2>1, <2>2 DEF Writes
    <2>6. a.op # "trash" => a.name \in Name
      BY <2>3 DEF Owed
    <2> QED BY <2>4, <2>5, <2>6 DEF Requested
  <1>6. CASE \E u \in User : OwnWrite(u)
    BY <1>6 DEF OwnWrite, Requested
  <1>7. CASE \E u \in User, i \in Node : handleRestoreNode(u, i) \/ handlePurgeNode(u, i)
    BY <1>7 DEF handleRestoreNode, handlePurgeNode, Requested
  <1> QED BY <1>1, <1>2, <1>3, <1>4, <1>5, <1>6, <1>7 DEF GrantStep

LEMMA GrantTree ==
  ASSUME ~SamePath PROVE GrantInv /\ SoundTree(node) /\ [GrantNext]_grantVars => SoundTree(node)'
  <1> SUFFICES ASSUME GrantInv, SoundTree(node), [GrantNext]_grantVars PROVE SoundTree(node')
    OBVIOUS
  <1>1. CASE node' = node
    BY <1>1
  <1>2. CASE node' # node
    <2>1. Requested(node')
      BY <1>2, GrantsRequest DEF GrantNext, grantVars
    <2> QED BY <2>1, RequestsSound
  <1> QED BY <1>1, <1>2

\* While no folder moves where rows deleted with another of its path are in the trash, the tables
\* keep what the schema and the handlers promise whatever is granted and done under grants: rows hang
\* below live rows of their owner, paths are those of the tree, and a grant is its node's owner's
\* (files/grants.go, files/service.go).
THEOREM GrantTypesHold == ~SamePath => (GrantSpec => []GrantTypeOK)
  <1> SUFFICES ASSUME ~SamePath PROVE GrantSpec => []GrantTypeOK
    OBVIOUS
  <1>1. GrantInit => SoundTree(node)
    BY SharedTreeAssumption DEF GrantInit, TreeInit
  <1>2. GrantInv /\ SoundTree(node) => GrantTypeOK
    BY DEF GrantTypeOK, TreeTypeOK, GrantInv, GrantsKept, GrantRows, Grant
  <1> QED BY <1>1, <1>2, GrantsInit, GrantsStep, GrantTree, PTL DEF GrantSpec

\* The grants on the folders above a node are those whose node's path covers its path.
LEMMA AccessIsAbove ==
  ASSUME SoundTree(node), GrantsKept PROVE AccessFollowsTree
  <1> SUFFICES ASSUME NEW u \in User, NEW i \in Node, IsLive(node, i), node[i].owner # u
               PROVE  AccessFor(u, i) = BestRole({x \in grants : x.grantee = u /\ x.node \in Above(node, i)})
    BY DEF AccessFollowsTree
  <1>1. node[i].there
    BY DEF IsLive
  <1>2. ASSUME NEW x \in grants
        PROVE  /\ node[x.node].owner = node[i].owner /\ IsLive(node, x.node)
               /\ Covers(node[x.node].path, node[i].path)
               <=> x.node \in Above(node, i)
    <2>1. x.node \in Node
      BY GrantShapes DEF GrantsKept, GrantRows
    <2>2. x.node \in Above(node, i) =>
            /\ node[x.node].owner = node[i].owner /\ IsLive(node, x.node)
            /\ IsPrefix(node[x.node].path, node[i].path)
      BY <1>1, AboveCovers
    <2>3. /\ node[x.node].owner = node[i].owner /\ IsLive(node, x.node)
          /\ IsPrefix(node[x.node].path, node[i].path)
          => x.node \in Above(node, i)
      BY <2>1, CoversAbove
    <2> QED BY <2>2, <2>3 DEF Covers
  <1>3. GrantsCovering(node, u, node[i].owner, node[i].path)
          = {x \in grants : x.grantee = u /\ x.node \in Above(node, i)}
    BY <1>2 DEF GrantsCovering
  <1> QED BY <1>3 DEF AccessFor

\* Comparing paths gives the access that the tree gives, and every endpoint gives the same
\* (files/grants.go, AccessFor).
THEOREM AccessHolds == ~SamePath => (GrantSpec => []AccessTrue)
  <1> SUFFICES ASSUME ~SamePath PROVE GrantSpec => []AccessTrue
    OBVIOUS
  <1>1. GrantSpec => []GrantTypeOK
    BY GrantTypesHold
  <1>2. GrantTypeOK /\ GrantsKept => AccessFollowsTree
    BY AccessIsAbove DEF GrantTypeOK, TreeTypeOK
  <1> QED BY <1>1, <1>2, GrantsStayTrue, EndpointsAgree, PTL DEF AccessTrue

\* While nobody writes between the two statements of an AccessFor, a write reaches only
\* nodes that its user could write to at some moment since the request began, whatever
\* was moved, trashed or revoked meanwhile (httpapi/grants.go, WriteOwnerFor).
THEOREM WritesArePermitted == ~Torn => (GrantSpec => WritesPermitted)
  <1> SUFFICES ASSUME ~Torn PROVE GrantSpec => WritesPermitted
    OBVIOUS
  <1>1. ASSUME GrantInv, NEW r \in Request, asks[r].at = "writes"
        PROVE  Touched(asks[r]) \subseteq could[r]
    <2>1. asks[r] \in Ask /\ Owed(could[r], asks[r])
      BY <1>1, AskShapes DEF GrantInv, AskKnown, Reading
    <2>2. asks[r].left = <<>>
      BY <1>1, <2>1 DEF Owed
    <2>3. \A n \in 1..Len(asks[r].left) : FALSE
      BY <2>2
    <2> QED BY <2>1, <2>3 DEF Owed
  <1>2. GrantInv /\ [GrantNext]_grantVars =>
          [\A r \in Request : (asks[r].at = "writes" /\ node' # node /\ asks'[r] = NoAsk)
             => Touched(asks[r]) \subseteq could[r]]_grantVars
    BY <1>1
  <1> QED BY <1>2, GrantsInit, GrantsStep, PTL DEF GrantSpec, WritesPermitted

-----------------------------------------------------------------------------
(* People: types                                                           *)

FaceRow == [person : Person \cup {NoPerson}, dismissed : BOOLEAN]
PersonRow == [named : BOOLEAN, centroid : SUBSET Face]
EditRow == [at : {"move", "invalidate", "reap"}, face : Face, to : Person \cup {NoPerson},
            previous : Person \cup {NoPerson}]

\* A picture of people and their faces, as a pass holds it.
Clusters(c) == DOMAIN c \subseteq Person /\ \A p \in DOMAIN c : c[p] \subseteq Face

StaleWork(a) ==
  /\ a = [at |-> "stale", clusters |-> a.clusters, stale |-> a.stale]
  /\ Clusters(a.clusters)

PassWork(a) ==
  /\ a = [at |-> a.at, clusters |-> a.clusters, todo |-> a.todo, touched |-> a.touched]
  /\ a.at \in {"claim", "save"} /\ Clusters(a.clusters)
  /\ a.todo \subseteq Face /\ a.touched \subseteq DOMAIN a.clusters

WorkOK(a) == a = NoWork \/ a = [at |-> "people"] \/ StaleWork(a) \/ PassWork(a)

FacesOK ==
  /\ DOMAIN face \subseteq Face
  /\ \A f \in DOMAIN face : face[f] \in FaceRow /\ face[f].person \in DOMAIN people \cup {NoPerson}

PeopleOK == DOMAIN people \subseteq Person /\ \A p \in DOMAIN people : people[p] \in PersonRow

PeopleTypes ==
  /\ FacesOK /\ PeopleOK
  /\ edit \in EditRow \cup {NoWork}
  /\ analysis = [w \in FaceWorker |-> analysis[w]] /\ \A w \in FaceWorker : WorkOK(analysis[w])

LEMMA NoWorks ==
  /\ NoWork.at = "idle" /\ NoWork \notin EditRow /\ [at |-> "people"].at = "people"
  /\ \A a : StaleWork(a) => a.at = "stale"
  /\ NoPerson \notin Person
  <1>1. NoWork.at = "idle" /\ [at |-> "people"].at = "people"
    BY DEF NoWork
  <1>2. \A a : StaleWork(a) => a.at = "stale"
    BY DEF StaleWork
  <1>3. NoPerson \notin Person
    BY PeopleAssumption DEF NoPerson
  <1> QED BY <1>1, <1>2, <1>3 DEF EditRow

LEMMA PeopleRows ==
  /\ \A x \in FaceRow : /\ x.person \in Person \cup {NoPerson} /\ x.dismissed \in BOOLEAN
                        /\ \A p \in Person : /\ [x EXCEPT !.person = p] \in FaceRow
                                             /\ [x EXCEPT !.person = p].person = p
                                             /\ [x EXCEPT !.person = p].dismissed = x.dismissed
  /\ \A x \in PersonRow : /\ x.centroid \subseteq Face
                          /\ \A m \in SUBSET Face : /\ [x EXCEPT !.centroid = m] \in PersonRow
                                                    /\ [x EXCEPT !.centroid = m].centroid = m
                          /\ [x EXCEPT !.named = TRUE] \in PersonRow
                          /\ [x EXCEPT !.named = TRUE].centroid = x.centroid
  BY DEF FaceRow, PersonRow

LEMMA EditRows ==
  ASSUME NEW e \in EditRow
  PROVE  /\ e.at \in {"move", "invalidate", "reap"} /\ e.face \in Face
         /\ e.to \in Person \cup {NoPerson} /\ e.previous \in Person \cup {NoPerson}
         /\ \A at \in {"move", "invalidate", "reap"} : LET m == [e EXCEPT !.at = at] IN
              /\ m \in EditRow /\ m.at = at /\ m.face = e.face /\ m.to = e.to
              /\ m.previous = e.previous
  BY DEF EditRow

\* What the statements on the table of people leave.
LEMMA PeopleTables ==
  ASSUME PeopleOK
  PROVE  /\ \A P : LET r == Invalidated(people, P) IN
              /\ DOMAIN r = DOMAIN people
              /\ \A p \in DOMAIN r : /\ r[p] \in PersonRow
                                     /\ r[p].centroid = IF p \in P THEN {} ELSE people[p].centroid
         /\ \A p \in Person, m \in SUBSET Face : LET r == Saved(people, p, m) IN
              /\ DOMAIN r = DOMAIN people
              /\ \A q \in DOMAIN r : /\ r[q] \in PersonRow
                                     /\ r[q].centroid = IF q = p THEN m ELSE people[q].centroid
  <1>1. ASSUME NEW P, NEW r, r = Invalidated(people, P)
        PROVE  /\ DOMAIN r = DOMAIN people
               /\ \A p \in DOMAIN r : /\ r[p] \in PersonRow
                                      /\ r[p].centroid = IF p \in P THEN {} ELSE people[p].centroid
    <2>1. DOMAIN r = DOMAIN people
      BY <1>1 DEF Invalidated
    <2>2. ASSUME NEW p \in DOMAIN people
          PROVE  /\ r[p] \in PersonRow
                 /\ r[p].centroid = IF p \in P THEN {} ELSE people[p].centroid
      <3>1. r[p] = IF p \in P THEN [people[p] EXCEPT !.centroid = {}] ELSE people[p]
        BY <1>1 DEF Invalidated, Stale
      <3>2. people[p] \in PersonRow
        BY DEF PeopleOK
      <3> QED BY <3>1, <3>2 DEF PersonRow
    <2> QED BY <2>1, <2>2
  <1>2. ASSUME NEW p \in Person, NEW m \in SUBSET Face, NEW r, r = Saved(people, p, m)
        PROVE  /\ DOMAIN r = DOMAIN people
               /\ \A q \in DOMAIN r : /\ r[q] \in PersonRow
                                      /\ r[q].centroid = IF q = p THEN m ELSE people[q].centroid
    <2>1. DOMAIN r = DOMAIN people
      BY <1>2 DEF Saved
    <2>2. ASSUME NEW q \in DOMAIN people
          PROVE  /\ r[q] \in PersonRow
                 /\ r[q].centroid = IF q = p THEN m ELSE people[q].centroid
      <3>1. r[q] = IF q = p THEN [people[q] EXCEPT !.centroid = m] ELSE people[q]
        BY <1>2 DEF Saved
      <3>2. people[q] \in PersonRow
        BY DEF PeopleOK
      <3> QED BY <3>1, <3>2 DEF PersonRow
    <2> QED BY <2>1, <2>2
  <1> QED BY <1>1, <1>2

-----------------------------------------------------------------------------
(* People: what holds while corrections and analyses do not overlap        *)

\* Every face of the set is one of p's, while its photo exists.
Mean(p, S) == \A f \in S : f[1] \in purged \/ (f \in DOMAIN face /\ face[f].person = p)

\* Between the move of a face and the invalidation of both ends, the person it left
\* still averages it.
Left(p, f) == edit.at = "invalidate" /\ f = edit.face /\ p = edit.previous
CentroidsTrue ==
  \A p \in DOMAIN people : \A f \in people[p].centroid :
    f[1] \in purged \/ (f \in DOMAIN face /\ face[f].person = p) \/ Left(p, f)

\* A dismissed face is marked as such, which is what keeps passes away from it.
WishesKept == \A f \in wished : f \in DOMAIN face /\ face[f].person = NoPerson /\ face[f].dismissed

EditTrue == edit.at = "move" /\ edit.face \in DOMAIN face => face[edit.face].person = edit.previous

WorkTrue(a) ==
  /\ a.at \in {"stale", "claim", "save"} => \A p \in DOMAIN a.clusters : Mean(p, a.clusters[p])
  /\ a.at = "claim" =>
       \A f \in a.todo : f \in DOMAIN face /\ face[f].person = NoPerson /\ ~face[f].dismissed

OneAtATime ==
  /\ \A v, w \in FaceWorker : analysis[v] # NoWork /\ analysis[w] # NoWork => v = w
  /\ \A w \in FaceWorker : analysis[w] # NoWork => edit = NoWork

PeopleInv ==
  /\ PeopleTypes
  /\ Disturbed \/ /\ CentroidsTrue /\ WishesKept /\ EditTrue /\ OneAtATime
                  /\ \A w \in FaceWorker : WorkTrue(analysis[w])

LEMMA IdleTrue == WorkTrue(NoWork) /\ WorkTrue([at |-> "people"])
  BY NoWorks DEF WorkTrue

LEMMA PeopleStart == PeopleInit => PeopleInv
  <1> SUFFICES ASSUME PeopleInit PROVE PeopleInv
    OBVIOUS
  <1>1. DOMAIN face = {} /\ DOMAIN people = {}
    BY DEF PeopleInit
  <1>2. /\ edit = NoWork /\ wished = {} /\ \A w \in FaceWorker : analysis[w] = NoWork
        /\ analysis = [w \in FaceWorker |-> analysis[w]]
    BY DEF PeopleInit
  <1>3. PeopleTypes
    BY <1>1, <1>2 DEF PeopleTypes, FacesOK, PeopleOK, WorkOK
  <1>4. CentroidsTrue /\ WishesKept /\ EditTrue /\ OneAtATime
    BY <1>1, <1>2, NoWorks DEF CentroidsTrue, WishesKept, EditTrue, OneAtATime
  <1> QED BY <1>2, <1>3, <1>4, IdleTrue DEF PeopleInv

\* A step of the analysis of w, which no other analysis and no correction meets.
LEMMA PassMoves ==
  ASSUME PeopleInv, NEW w \in FaceWorker, analysis[w] # NoWork \/ Quiet,
         NEW a, WorkOK(a), analysis' = [analysis EXCEPT ![w] = a],
         edit' = edit, FacesOK', PeopleOK',
         ~Disturbed /\ edit = NoWork => CentroidsTrue' /\ WishesKept' /\ WorkTrue(a)'
  PROVE  PeopleInv'
  <1>1. analysis'[w] = a /\ \A v \in FaceWorker : v # w => analysis'[v] = analysis[v]
    BY DEF PeopleInv, PeopleTypes
  <1>2. PeopleTypes'
    BY <1>1 DEF PeopleInv, PeopleTypes
  <1>3. ASSUME ~Disturbed
        PROVE  /\ CentroidsTrue' /\ WishesKept' /\ EditTrue' /\ OneAtATime'
               /\ \A v \in FaceWorker : WorkTrue(analysis[v])'
    <2>1. edit = NoWork /\ \A v \in FaceWorker : v # w => analysis[v] = NoWork
      BY <1>3 DEF PeopleInv, OneAtATime, Quiet
    <2>2. CentroidsTrue' /\ WishesKept' /\ WorkTrue(a)'
      BY <1>3, <2>1
    <2>3. EditTrue' /\ OneAtATime'
      BY <1>1, <2>1, NoWorks DEF EditTrue, OneAtATime
    <2>4. ASSUME NEW v \in FaceWorker PROVE WorkTrue(analysis[v])'
      <3>1. CASE v = w
        BY <1>1, <2>2, <3>1 DEF WorkTrue, Mean
      <3>2. CASE v # w
        BY <1>1, <2>1, <3>2, NoWorks DEF WorkTrue
      <3> QED BY <3>1, <3>2
    <2> QED BY <2>2, <2>3, <2>4
  <1> QED BY <1>2, <1>3 DEF PeopleInv

\* A statement of a correction, which no analysis meets.
LEMMA UserMoves ==
  ASSUME PeopleInv, Quiet \/ edit # NoWork, analysis' = analysis,
         edit' \in EditRow \cup {NoWork}, FacesOK', PeopleOK',
         ~Disturbed => CentroidsTrue' /\ WishesKept' /\ EditTrue'
  PROVE  PeopleInv'
  <1>1. PeopleTypes'
    BY DEF PeopleInv, PeopleTypes
  <1>2. ASSUME ~Disturbed
        PROVE  OneAtATime' /\ \A v \in FaceWorker : WorkTrue(analysis[v])'
    <2>1. \A v \in FaceWorker : analysis[v] = NoWork
      BY <1>2 DEF PeopleInv, OneAtATime, Quiet
    <2> QED BY <2>1, NoWorks DEF OneAtATime, WorkTrue
  <1> QED BY <1>1, <1>2 DEF PeopleInv

-----------------------------------------------------------------------------
(* People: the analysis                                                    *)

LEMMA FaceOfPhoto ==
  ASSUME NEW f \in Face
  PROVE  f[1] \in Photo /\ f \in FoundIn(f[1])
  BY DEF Face, FoundIn

LEMMA HandleKeeps ==
  ASSUME PeopleInv, NEW w \in FaceWorker, NEW ph \in Photo, Handle(w, ph)
  PROVE  PeopleInv'
  <1> DEFINE a == [at |-> "people"]
             P == {face[f].person : f \in {g \in DOMAIN face : g[1] = ph}}
  <1>1. /\ Quiet /\ analysis' = [analysis EXCEPT ![w] = a] /\ face' = Detected(ph)
        /\ people' = Invalidated(people, P) /\ UNCHANGED <<edit, purged, wished>>
    BY DEF Handle, ReplaceFaces
  <1>2. /\ DOMAIN people' = DOMAIN people
        /\ \A p \in DOMAIN people' : /\ people'[p] \in PersonRow
                                     /\ people'[p].centroid = IF p \in P THEN {} ELSE people[p].centroid
    BY <1>1, PeopleTables DEF PeopleInv, PeopleTypes
  <1>3. FoundIn(ph) \subseteq Face /\ \A f \in FoundIn(ph) : f[1] = ph
    BY DEF Face, FoundIn
  <1>4. /\ DOMAIN face' = {g \in DOMAIN face : g[1] # ph} \cup FoundIn(ph)
        /\ \A f \in DOMAIN face' :
             /\ f[1] # ph => f \in DOMAIN face /\ face'[f] = face[f]
             /\ f[1] = ph => face'[f] = [person |-> NoPerson,
                                         dismissed |-> f \in DOMAIN face /\ face[f].dismissed]
    BY <1>1, <1>3 DEF Detected
  <1>5. ASSUME NEW f \in DOMAIN face', f[1] = ph
        PROVE  /\ face'[f] \in FaceRow /\ face'[f].person = NoPerson
               /\ f \in DOMAIN face /\ face[f].dismissed => face'[f].dismissed
    <2>1. PICK d \in BOOLEAN : d = (f \in DOMAIN face /\ face[f].dismissed)
      OBVIOUS
    <2>2. face'[f] = [person |-> NoPerson, dismissed |-> d]
      BY <1>4, <1>5, <2>1
    <2>3. face'[f] \in FaceRow
      BY <2>2 DEF FaceRow
    <2>4. face'[f].person = NoPerson /\ face'[f].dismissed = d
      BY <2>2
    <2> QED BY <2>1, <2>3, <2>4
  <1>6. FacesOK'
    BY <1>2, <1>3, <1>4, <1>5 DEF FacesOK, PeopleInv, PeopleTypes
  <1>7. PeopleOK'
    BY <1>2 DEF PeopleOK, PeopleInv, PeopleTypes
  <1>8. ASSUME ~Disturbed, edit = NoWork PROVE CentroidsTrue' /\ WishesKept'
    <2>1. CentroidsTrue'
      <3> SUFFICES ASSUME NEW p \in DOMAIN people', NEW f \in people'[p].centroid
                   PROVE  f[1] \in purged' \/ (f \in DOMAIN face' /\ face'[f].person = p)
        BY DEF CentroidsTrue
      <3>1. p \notin P /\ f \in people[p].centroid
        BY <1>2
      <3>2. f[1] \in purged \/ (f \in DOMAIN face /\ face[f].person = p)
        BY <1>2, <1>8, <3>1, NoWorks DEF PeopleInv, CentroidsTrue, Left
      <3> QED BY <1>1, <1>4, <3>1, <3>2
    <2>2. WishesKept'
      <3> SUFFICES ASSUME NEW f \in wished
                   PROVE  f \in DOMAIN face' /\ face'[f].person = NoPerson /\ face'[f].dismissed
        BY <1>1 DEF WishesKept
      <3>1. f \in DOMAIN face /\ face[f].person = NoPerson /\ face[f].dismissed /\ f \in Face
        BY <1>8 DEF PeopleInv, WishesKept, PeopleTypes, FacesOK
      <3>2. f \in DOMAIN face'
        BY <1>4, <3>1, FaceOfPhoto
      <3> QED BY <1>4, <1>5, <3>1, <3>2
    <2> QED BY <2>1, <2>2
  <1>9. WorkOK(a) /\ WorkTrue(a)'
    BY NoWorks DEF WorkOK, WorkTrue
  <1> HIDE DEF a
  <1> QED BY <1>1, <1>6, <1>7, <1>8, <1>9, PassMoves

LEMMA ReadsKeep ==
  ASSUME PeopleInv, NEW w \in FaceWorker, PersonCentroids(w) \/ ReadsUnclustered(w)
  PROVE  PeopleInv'
  <1>0. analysis[w] # NoWork
    BY NoWorks DEF PersonCentroids, ReadsUnclustered
  <1>1. UNCHANGED <<face, people, edit, purged, wished>>
    BY DEF PersonCentroids, ReadsUnclustered
  <1>2. FacesOK' /\ PeopleOK'
    BY <1>1 DEF PeopleInv, PeopleTypes, FacesOK, PeopleOK
  <1>3. ~Disturbed => CentroidsTrue' /\ WishesKept'
    BY <1>1 DEF PeopleInv, CentroidsTrue, Left, WishesKept
  <1>4. CASE PersonCentroids(w)
    <2>0. PICK cached : cached = {p \in DOMAIN people : Cached(p)}
      OBVIOUS
    <2>00. PICK c, s : c = [p \in cached |-> people[p].centroid] /\ s = DOMAIN people \ cached
      OBVIOUS
    <2> DEFINE a == [at |-> "stale", clusters |-> c, stale |-> s]
    <2>1. analysis' = [analysis EXCEPT ![w] = a]
      BY <1>4, <2>0, <2>00 DEF PersonCentroids
    <2>2. DOMAIN c = cached /\ cached \subseteq DOMAIN people
          /\ \A p \in cached : c[p] = people[p].centroid /\ c[p] \subseteq Face
      BY <2>0, <2>00, PeopleRows DEF PeopleInv, PeopleTypes, PeopleOK
    <2>3. WorkOK(a)
      BY <2>2 DEF WorkOK, StaleWork, Clusters, PeopleInv, PeopleTypes, PeopleOK
    <2>4. a.at = "stale" /\ a.clusters = c
      OBVIOUS
    <2> HIDE DEF a
    <2>5. ASSUME ~Disturbed, edit = NoWork PROVE WorkTrue(a)'
      BY <1>1, <2>2, <2>4, <2>5, NoWorks DEF WorkTrue, Mean, PeopleInv, CentroidsTrue, Left
    <2> QED BY <1>0, <1>1, <1>2, <1>3, <2>1, <2>3, <2>5, PassMoves
  <1>5. CASE ReadsUnclustered(w)
    <2>0. PICK c, u : c = analysis[w].clusters /\ u = Unclustered
      OBVIOUS
    <2> DEFINE a == [at |-> "claim", clusters |-> c, todo |-> u, touched |-> {}]
    <2>1. analysis' = [analysis EXCEPT ![w] = a] /\ analysis[w].at = "stale"
      BY <1>5, <2>0 DEF ReadsUnclustered
    <2>2. Clusters(c)
      BY <2>0, <2>1, NoWorks DEF PeopleInv, PeopleTypes, WorkOK, StaleWork, PassWork
    <2>3. u \subseteq Face /\ \A f \in u : f \in DOMAIN face /\ face[f].person = NoPerson
                                            /\ ~face[f].dismissed
      BY <2>0 DEF Unclustered, PeopleInv, PeopleTypes, FacesOK
    <2>4. WorkOK(a)
      BY <2>2, <2>3 DEF WorkOK, PassWork
    <2>5. a.at = "claim" /\ a.clusters = c /\ a.todo = u
      OBVIOUS
    <2> HIDE DEF a
    <2>6. ASSUME ~Disturbed, edit = NoWork PROVE WorkTrue(a)'
      <3>1. \A p \in DOMAIN c : Mean(p, c[p])
        BY <2>0, <2>1, <2>6 DEF PeopleInv, WorkTrue
      <3> QED BY <1>1, <2>3, <2>5, <3>1 DEF WorkTrue, Mean
    <2> QED BY <1>0, <1>1, <1>2, <1>3, <2>1, <2>4, <2>6, PassMoves
  <1> QED BY <1>4, <1>5

\* The mean that is saved is of the faces the person has now.
LEMMA RecomputeCentroidKeeps ==
  ASSUME PeopleInv, NEW w \in FaceWorker, NEW p \in Person, RecomputeCentroid(w, p)
  PROVE  PeopleInv'
  <1>0. PICK b, mean : b = analysis[w] /\ mean = FacesOf(p)
    OBVIOUS
  <1>00. PICK c : c = IF mean = {} THEN b.clusters
                      ELSE [q \in DOMAIN b.clusters \cup {p} |-> IF q = p THEN mean ELSE b.clusters[q]]
    OBVIOUS
  <1>1. b.at = "stale" /\ b # NoWork /\ UNCHANGED <<face, edit, purged, wished>>
    BY <1>0, NoWorks DEF RecomputeCentroid
  <1>2. StaleWork(b) /\ Clusters(b.clusters)
    BY <1>0, <1>1, NoWorks DEF PeopleInv, PeopleTypes, WorkOK, StaleWork, PassWork
  <1>3. mean \subseteq Face /\ \A f \in mean : f \in DOMAIN face /\ face[f].person = p
    BY <1>0 DEF FacesOf, PeopleInv, PeopleTypes, FacesOK
  <1>4. PICK s : s = b.stale \ {p}
    OBVIOUS
  <1> DEFINE a == [at |-> "stale", clusters |-> c, stale |-> s]
  <1>5. analysis' = [analysis EXCEPT ![w] = a]
    BY <1>0, <1>00, <1>4 DEF RecomputeCentroid
  <1>6. /\ DOMAIN c \subseteq Person
        /\ \A q \in DOMAIN c : /\ c[q] \subseteq Face
                               /\ \/ q = p /\ c[q] = mean
                                  \/ q \in DOMAIN b.clusters /\ c[q] = b.clusters[q]
    BY <1>00, <1>2, <1>3 DEF Clusters
  <1>7. WorkOK(a)
    BY <1>6 DEF WorkOK, StaleWork, Clusters
  <1>8. a.at = "stale" /\ a.clusters = c
    OBVIOUS
  <1> HIDE DEF a
  <1>9. /\ DOMAIN people' = DOMAIN people
        /\ \A q \in DOMAIN people' :
             /\ people'[q] \in PersonRow
             /\ \/ people'[q].centroid = people[q].centroid
                \/ q = p /\ people'[q].centroid = mean
    <2>1. CASE people' = people
      BY <2>1 DEF PeopleInv, PeopleTypes, PeopleOK
    <2>2. CASE people' = Saved(people, p, mean)
      BY <1>3, <2>2, PeopleTables DEF PeopleInv, PeopleTypes
    <2> QED BY <1>0, <2>1, <2>2 DEF RecomputeCentroid
  <1>10. FacesOK' /\ PeopleOK'
    BY <1>1, <1>9 DEF PeopleInv, PeopleTypes, FacesOK, PeopleOK
  <1>11. ASSUME ~Disturbed, edit = NoWork PROVE CentroidsTrue' /\ WishesKept' /\ WorkTrue(a)'
    <2>1. CentroidsTrue'
      BY <1>1, <1>3, <1>9, <1>11 DEF PeopleInv, CentroidsTrue, Left
    <2>2. WishesKept'
      BY <1>1, <1>11 DEF PeopleInv, WishesKept
    <2>3. \A q \in DOMAIN b.clusters : Mean(q, b.clusters[q])
      BY <1>0, <1>1, <1>11 DEF PeopleInv, WorkTrue
    <2>4. WorkTrue(a)'
      BY <1>1, <1>3, <1>6, <1>8, <2>3 DEF WorkTrue, Mean
    <2> QED BY <2>1, <2>2, <2>4
  <1> QED BY <1>0, <1>1, <1>5, <1>7, <1>10, <1>11, PassMoves

LEMMA JoinedWork ==
  ASSUME NEW b, PassWork(b), NEW f \in Face, NEW p \in Person, NEW j, j = Joined(b, f, p)
  PROVE  /\ PassWork(j) /\ j.at = b.at /\ j.todo = b.todo \ {f}
         /\ DOMAIN j.clusters = DOMAIN b.clusters \cup {p}
         /\ \A q \in DOMAIN j.clusters : \A g \in j.clusters[q] :
              \/ q = p /\ g = f
              \/ q \in DOMAIN b.clusters /\ g \in b.clusters[q]
  <1>0. PICK c : c = [q \in DOMAIN b.clusters \cup {p} |->
                        (IF q \in DOMAIN b.clusters THEN b.clusters[q] ELSE {})
                        \cup (IF q = p THEN {f} ELSE {})]
    OBVIOUS
  <1>1. /\ j.at = b.at /\ j.todo = b.todo \ {f} /\ j.touched = b.touched \cup {p} /\ j.clusters = c
        /\ j = [at |-> j.at, clusters |-> j.clusters, todo |-> j.todo, touched |-> j.touched]
    BY <1>0 DEF PassWork, Joined
  <1>2. DOMAIN c = DOMAIN b.clusters \cup {p}
    BY <1>0
  <1>3. \A q \in DOMAIN c : /\ c[q] \subseteq Face
                            /\ \A g \in c[q] : \/ q = p /\ g = f
                                               \/ q \in DOMAIN b.clusters /\ g \in b.clusters[q]
    BY <1>0 DEF PassWork, Clusters
  <1>4. Clusters(c) /\ j.todo \subseteq Face /\ j.touched \subseteq DOMAIN c
    BY <1>1, <1>2, <1>3 DEF PassWork, Clusters
  <1> QED BY <1>1, <1>2, <1>3, <1>4 DEF PassWork

\* A pass places a face that is with nobody, and not dismissed.
LEMMA FaceJoins ==
  ASSUME PeopleInv, NEW w \in FaceWorker, NEW f \in Face, NEW p \in Person,
         analysis[w].at = "claim", f \in analysis[w].todo,
         analysis' = [analysis EXCEPT ![w] = Joined(analysis[w], f, p)],
         face' = IF f \in DOMAIN face THEN Placed(f, p) ELSE face,
         f \in DOMAIN face => p \in DOMAIN people',
         DOMAIN people \subseteq DOMAIN people', PeopleOK',
         \A q \in DOMAIN people' : \/ q \in DOMAIN people /\ people'[q] = people[q]
                                   \/ people'[q].centroid = {},
         UNCHANGED <<edit, purged, wished>>
  PROVE  PeopleInv'
  <1>0. PICK b : b = analysis[w]
    OBVIOUS
  <1>1. PassWork(b) /\ b # NoWork
    BY <1>0, NoWorks DEF PeopleInv, PeopleTypes, WorkOK
  <1>2. PICK j : j = Joined(b, f, p)
    OBVIOUS
  <1>3. /\ DOMAIN face' = DOMAIN face
        /\ \A g \in DOMAIN face : g # f => face'[g] = face[g]
        /\ f \in DOMAIN face => /\ face'[f] \in FaceRow /\ face'[f].person = p
                                /\ face'[f].dismissed = face[f].dismissed
    <2>1. CASE f \in DOMAIN face
      <3>1. face' = [face EXCEPT ![f].person = p]
        BY <2>1 DEF Placed
      <3>2. /\ DOMAIN face' = DOMAIN face /\ face'[f] = [face[f] EXCEPT !.person = p]
            /\ \A g \in DOMAIN face : g # f => face'[g] = face[g]
        BY <2>1, <3>1
      <3>3. face[f] \in FaceRow
        BY <2>1 DEF PeopleInv, PeopleTypes, FacesOK
      <3> QED BY <3>2, <3>3 DEF FaceRow
    <2>2. CASE f \notin DOMAIN face
      BY <2>2
    <2> QED BY <2>1, <2>2
  <1>4. FacesOK'
    BY <1>3 DEF PeopleInv, PeopleTypes, FacesOK
  <1>5. ASSUME ~Disturbed, edit = NoWork PROVE CentroidsTrue' /\ WishesKept' /\ WorkTrue(j)'
    <2>1. /\ f \in DOMAIN face /\ face[f] \in FaceRow /\ face[f].person = NoPerson /\ ~face[f].dismissed
          /\ \A g \in b.todo : g \in DOMAIN face /\ face[g].person = NoPerson /\ ~face[g].dismissed
      BY <1>0, <1>5 DEF PeopleInv, WorkTrue, PeopleTypes, FacesOK
    <2>2. face'[f].person = p
      BY <1>3, <2>1
    <2>3. ASSUME NEW q \in Person, NEW S, Mean(q, S) PROVE Mean(q, S)'
      <3> SUFFICES ASSUME NEW g \in S, g[1] \notin purged
                   PROVE  g \in DOMAIN face' /\ face'[g].person = q
        BY DEF Mean
      <3>1. g \in DOMAIN face /\ face[g].person = q
        BY <2>3 DEF Mean
      <3>2. g # f
        BY <2>1, <3>1, NoWorks
      <3> QED BY <1>3, <3>1, <3>2
    <2>4. CentroidsTrue'
      <3> SUFFICES ASSUME NEW q \in DOMAIN people' PROVE Mean(q, people[q].centroid)'
        BY DEF CentroidsTrue, Mean
      <3>1. CASE people'[q].centroid = {}
        BY <3>1 DEF Mean
      <3>2. CASE q \in DOMAIN people /\ people'[q] = people[q]
        <4>1. PICK S : S = people[q].centroid
          OBVIOUS
        <4>2. Mean(q, S)
          <5>1. CentroidsTrue /\ edit.at # "invalidate"
            BY <1>5, NoWorks DEF PeopleInv
          <5> QED BY <3>2, <4>1, <5>1 DEF CentroidsTrue, Mean, Left
        <4>3. Mean(q, S)'
          BY <2>3, <3>2, <4>2 DEF PeopleInv, PeopleTypes, PeopleOK
        <4> QED BY <3>2, <4>1, <4>3
      <3> QED BY <3>1, <3>2
    <2>5. WishesKept'
      BY <1>3, <1>5, <2>1 DEF PeopleInv, WishesKept
    <2>6. /\ PassWork(j) /\ j.at = "claim" /\ j.todo = b.todo \ {f}
          /\ DOMAIN j.clusters = DOMAIN b.clusters \cup {p}
          /\ \A q \in DOMAIN j.clusters : \A g \in j.clusters[q] :
               \/ q = p /\ g = f
               \/ q \in DOMAIN b.clusters /\ g \in b.clusters[q]
      BY <1>0, <1>1, <1>2, JoinedWork
    <2>7. ASSUME NEW q \in DOMAIN b.clusters PROVE Mean(q, b.clusters[q])'
      <3>1. Mean(q, b.clusters[q]) /\ q \in Person
        BY <1>0, <1>1, <1>5 DEF PeopleInv, WorkTrue, PassWork, Clusters
      <3> QED BY <2>3, <3>1
    <2>8. \A q \in DOMAIN j.clusters : Mean(q, j.clusters[q])'
      BY <1>3, <2>1, <2>2, <2>6, <2>7 DEF Mean
    <2>9. \A g \in j.todo : g \in DOMAIN face' /\ face'[g].person = NoPerson /\ ~face'[g].dismissed
      BY <1>3, <2>1, <2>6
    <2> QED BY <2>4, <2>5, <2>6, <2>8, <2>9 DEF WorkTrue
  <1>6. WorkOK(j)
    BY <1>1, <1>2, JoinedWork DEF WorkOK
  <1> QED BY <1>0, <1>1, <1>2, <1>4, <1>5, <1>6, PassMoves

\* A pass ends; a new person may be left without a centroid.
LEMMA PassEnds ==
  ASSUME PeopleInv, NEW w \in FaceWorker, analysis[w] # NoWork,
         analysis' = [analysis EXCEPT ![w] = NoWork],
         DOMAIN people \subseteq DOMAIN people', PeopleOK',
         \A q \in DOMAIN people' : \/ q \in DOMAIN people /\ people'[q] = people[q]
                                   \/ people'[q].centroid = {},
         UNCHANGED <<face, edit, purged, wished>>
  PROVE  PeopleInv'
  <1>1. FacesOK'
    BY DEF PeopleInv, PeopleTypes, FacesOK
  <1>2. ~Disturbed => CentroidsTrue' /\ WishesKept'
    BY DEF PeopleInv, CentroidsTrue, Left, WishesKept
  <1>3. WorkOK(NoWork) /\ WorkTrue(NoWork)'
    BY NoWorks DEF WorkOK, WorkTrue
  <1> QED BY <1>1, <1>2, <1>3, PassMoves

LEMMA PlacingKeeps ==
  ASSUME PeopleInv, NEW w \in FaceWorker, NEW f \in Face, NEW p \in Person,
         JoinPerson(w, f, p) \/ NewPerson(w, f, p)
  PROVE  PeopleInv'
  <1>1. analysis[w].at = "claim" /\ f \in analysis[w].todo /\ UNCHANGED <<edit, purged, wished>>
    BY DEF JoinPerson, NewPerson
  <1>2. analysis[w] # NoWork
    BY <1>1, NoWorks
  <1>3. CASE JoinPerson(w, f, p)
    <2>1. people' = people /\ PeopleOK'
      BY <1>3 DEF JoinPerson, PeopleInv, PeopleTypes, PeopleOK
    <2>2. CASE f \in DOMAIN face /\ ~Exists(p)
      <3>1. analysis' = [analysis EXCEPT ![w] = NoWork] /\ face' = face
        BY <1>3, <2>2 DEF JoinPerson
      <3> QED BY <1>1, <1>2, <2>1, <3>1, PassEnds
    <2>3. CASE ~(f \in DOMAIN face /\ ~Exists(p))
      <3>1. /\ analysis' = [analysis EXCEPT ![w] = Joined(analysis[w], f, p)]
            /\ face' = IF f \in DOMAIN face THEN Placed(f, p) ELSE face
        BY <1>3, <2>3 DEF JoinPerson
      <3>2. f \in DOMAIN face => p \in DOMAIN people'
        BY <2>1, <2>3 DEF Exists
      <3> QED BY <1>1, <2>1, <3>1, <3>2, FaceJoins
    <2> QED BY <2>2, <2>3
  <1>4. CASE NewPerson(w, f, p)
    <2> DEFINE new == [named |-> FALSE, centroid |-> Stale]
    <2>1. people' = [q \in DOMAIN people \cup {p} |-> IF q = p THEN new ELSE people[q]]
          /\ p \notin DOMAIN people
      BY <1>4 DEF NewPerson, Exists
    <2>2. new \in PersonRow /\ new.centroid = {}
      BY DEF PersonRow, Stale
    <2> HIDE DEF new
    <2>3. /\ DOMAIN people' = DOMAIN people \cup {p} /\ PeopleOK'
          /\ \A q \in DOMAIN people' : \/ q \in DOMAIN people /\ people'[q] = people[q]
                                       \/ people'[q].centroid = {}
      BY <2>1, <2>2 DEF PeopleInv, PeopleTypes, PeopleOK
    <2>4. CASE f \in DOMAIN face
      <3>1. face' = Placed(f, p) /\ analysis' = [analysis EXCEPT ![w] = Joined(analysis[w], f, p)]
        BY <1>4, <2>4 DEF NewPerson
      <3> QED BY <1>1, <2>3, <2>4, <3>1, FaceJoins
    <2>5. CASE f \notin DOMAIN face
      <3>1. analysis' = [analysis EXCEPT ![w] = NoWork] /\ face' = face
        BY <1>4, <2>5 DEF NewPerson
      <3> QED BY <1>1, <1>2, <2>3, <3>1, PassEnds
    <2> QED BY <2>4, <2>5
  <1> QED BY <1>3, <1>4

LEMMA FailsKeep ==
  ASSUME PeopleInv, NEW w \in FaceWorker, AnalysisFails(w)
  PROVE  PeopleInv'
  <1>1. /\ analysis[w] # NoWork /\ analysis' = [analysis EXCEPT ![w] = NoWork]
        /\ UNCHANGED <<face, people, edit, purged, wished>>
    BY DEF AnalysisFails
  <1>2. PeopleOK'
    BY <1>1 DEF PeopleInv, PeopleTypes, PeopleOK
  <1> QED BY <1>1, <1>2, PassEnds

LEMMA SaveCentroidKeeps ==
  ASSUME PeopleInv, NEW w \in FaceWorker, ClaimsDone(w) \/ SaveCentroid(w)
  PROVE  PeopleInv'
  <1>0. PICK b : b = analysis[w]
    OBVIOUS
  <1>1. /\ b.at \in {"claim", "save"} /\ b # NoWork /\ PassWork(b)
        /\ UNCHANGED <<face, edit, purged, wished>>
    BY <1>0, NoWorks DEF ClaimsDone, SaveCentroid, PeopleInv, PeopleTypes, WorkOK
  <1>2. FacesOK'
    <2>1. DOMAIN people \subseteq DOMAIN people'
      BY DEF ClaimsDone, SaveCentroid, Saved
    <2> QED BY <1>1, <2>1 DEF PeopleInv, PeopleTypes, FacesOK
  <1>3. ~Disturbed => WishesKept'
    BY <1>1 DEF PeopleInv, WishesKept
  <1>4. ASSUME NEW a, a = [b EXCEPT !.at = "save"] \/ \E p : a = [b EXCEPT !.touched = @ \ {p}],
               b.at = "save" \/ a.at = "save"
        PROVE  WorkOK(a) /\ (~Disturbed => WorkTrue(a)')
    <2>1. PassWork(a) /\ a.clusters = b.clusters /\ a.at = "save"
      BY <1>1, <1>4 DEF PassWork, Clusters
    <2>2. ~Disturbed => \A p \in DOMAIN b.clusters : Mean(p, b.clusters[p])
      BY <1>0, <1>1 DEF PeopleInv, WorkTrue
    <2> QED BY <1>1, <2>1, <2>2 DEF WorkOK, WorkTrue, Mean
  <1>5. CASE ClaimsDone(w)
    <2> DEFINE a == [b EXCEPT !.at = "save"]
    <2>1. analysis' = [analysis EXCEPT ![w] = a] /\ people' = people
      BY <1>0, <1>5 DEF ClaimsDone
    <2>2. a.at = "save"
      BY <1>1 DEF PassWork
    <2>3. WorkOK(a) /\ (~Disturbed => WorkTrue(a)')
      BY <1>4, <2>2
    <2> HIDE DEF a
    <2>4. PeopleOK' /\ (~Disturbed => CentroidsTrue')
      BY <1>1, <2>1 DEF PeopleInv, PeopleTypes, PeopleOK, CentroidsTrue, Left
    <2> QED BY <1>0, <1>1, <1>2, <1>3, <2>1, <2>3, <2>4, PassMoves
  <1>6. ASSUME NEW p \in b.touched, people' = Saved(people, p, b.clusters[p]), b.at = "save",
               analysis' = [analysis EXCEPT ![w].touched = @ \ {p}]
        PROVE  PeopleInv'
    <2> DEFINE a == [b EXCEPT !.touched = @ \ {p}]
    <2>1. analysis' = [analysis EXCEPT ![w] = a]
      BY <1>0, <1>6
    <2>2. WorkOK(a) /\ (~Disturbed => WorkTrue(a)')
      BY <1>4, <1>6
    <2> HIDE DEF a
    <2>3. p \in DOMAIN b.clusters /\ p \in Person /\ b.clusters[p] \subseteq Face
      BY <1>1 DEF PassWork, Clusters
    <2>4. /\ DOMAIN people' = DOMAIN people
          /\ \A q \in DOMAIN people' :
               /\ people'[q] \in PersonRow
               /\ people'[q].centroid = IF q = p THEN b.clusters[p] ELSE people[q].centroid
      BY <1>6, <2>3, PeopleTables DEF PeopleInv, PeopleTypes
    <2>5. PeopleOK'
      BY <2>4 DEF PeopleInv, PeopleTypes, PeopleOK
    <2>6. ASSUME ~Disturbed PROVE CentroidsTrue'
      <3>1. Mean(p, b.clusters[p])
        BY <1>0, <1>6, <2>3, <2>6 DEF PeopleInv, WorkTrue
      <3> QED BY <1>1, <2>4, <2>6, <3>1 DEF PeopleInv, CentroidsTrue, Mean, Left
    <2> QED BY <1>0, <1>1, <1>2, <1>3, <2>1, <2>2, <2>5, <2>6, PassMoves
  <1>7. CASE analysis' = [analysis EXCEPT ![w] = NoWork] /\ people' = people
    <2>1. PeopleOK'
      BY <1>7 DEF PeopleInv, PeopleTypes, PeopleOK
    <2> QED BY <1>0, <1>1, <1>7, <2>1, PassEnds
  <1> QED BY <1>0, <1>5, <1>6, <1>7 DEF SaveCentroid

-----------------------------------------------------------------------------
(* People: the user's corrections                                          *)

LEMMA NamePersonKeeps ==
  ASSUME PeopleInv, Quiet, NEW p \in Person, NamePerson(p)
  PROVE  PeopleInv'
  <1>1. /\ people' = [people EXCEPT ![p].named = TRUE] /\ p \in DOMAIN people
        /\ UNCHANGED <<face, analysis, edit, purged, wished>>
    BY DEF NamePerson, Exists
  <1>2. /\ DOMAIN people' = DOMAIN people
        /\ \A q \in DOMAIN people : /\ people'[q] \in PersonRow
                                    /\ people'[q].centroid = people[q].centroid
    <2>1. DOMAIN people' = DOMAIN people /\ people'[p] = [people[p] EXCEPT !.named = TRUE]
          /\ \A q \in DOMAIN people : q # p => people'[q] = people[q]
      BY <1>1
    <2>2. \A q \in DOMAIN people : people[q] \in PersonRow
      BY DEF PeopleInv, PeopleTypes, PeopleOK
    <2>3. people'[p] \in PersonRow /\ people'[p].centroid = people[p].centroid
      BY <1>1, <2>1, <2>2 DEF PersonRow
    <2> QED BY <2>1, <2>2, <2>3
  <1>3. FacesOK' /\ PeopleOK' /\ edit' \in EditRow \cup {NoWork}
    BY <1>1, <1>2 DEF PeopleInv, PeopleTypes, FacesOK, PeopleOK
  <1>4. ~Disturbed => CentroidsTrue' /\ WishesKept' /\ EditTrue'
    BY <1>1, <1>2 DEF PeopleInv, CentroidsTrue, Left, WishesKept, EditTrue
  <1> QED BY <1>1, <1>3, <1>4, UserMoves

LEMMA MergePeopleKeeps ==
  ASSUME PeopleInv, Quiet, NEW from \in Person, NEW into \in Person, MergePeople(from, into)
  PROVE  PeopleInv'
  <1>1. /\ from # into /\ from \in DOMAIN people /\ into \in DOMAIN people
        /\ face' = [f \in DOMAIN face |-> IF face[f].person = from THEN [face[f] EXCEPT !.person = into]
                                                                  ELSE face[f]]
        /\ people' = Invalidated(Reaped([p \in DOMAIN people \ {from} |-> people[p]], face'), {into})
        /\ wished' = wished \ FacesOf(from) /\ UNCHANGED <<analysis, edit, purged>>
    BY DEF MergePeople, Exists
  <1>2. /\ DOMAIN face' = DOMAIN face
        /\ \A f \in DOMAIN face :
             /\ face'[f] \in FaceRow /\ face'[f].dismissed = face[f].dismissed
             /\ face'[f].person = IF face[f].person = from THEN into ELSE face[f].person
    <2>1. DOMAIN face' = DOMAIN face
      BY <1>1
    <2>2. ASSUME NEW f \in DOMAIN face
          PROVE  /\ face'[f] \in FaceRow /\ face'[f].dismissed = face[f].dismissed
                 /\ face'[f].person = IF face[f].person = from THEN into ELSE face[f].person
      <3>1. face'[f] = IF face[f].person = from THEN [face[f] EXCEPT !.person = into] ELSE face[f]
        BY <1>1
      <3>2. face[f] \in FaceRow
        BY DEF PeopleInv, PeopleTypes, FacesOK
      <3> QED BY <3>1, <3>2 DEF FaceRow
    <2> QED BY <2>1, <2>2
  <1>3. /\ DOMAIN people' = {q \in DOMAIN people \ {from} : \E f \in DOMAIN face' : face'[f].person = q}
        /\ \A p \in DOMAIN people' : /\ people'[p] \in PersonRow
                                     /\ people'[p].centroid = IF p = into THEN {} ELSE people[p].centroid
    <2>1. PICK r : r = Reaped([p \in DOMAIN people \ {from} |-> people[p]], face')
      OBVIOUS
    <2>2. /\ DOMAIN r = {q \in DOMAIN people \ {from} : \E f \in DOMAIN face' : face'[f].person = q}
          /\ \A p \in DOMAIN r : r[p] = people[p]
      BY <2>1 DEF Reaped
    <2>3. /\ DOMAIN people' = DOMAIN r
          /\ \A p \in DOMAIN r : people'[p] = IF p = into THEN [r[p] EXCEPT !.centroid = {}] ELSE r[p]
      BY <1>1, <2>1 DEF Invalidated, Stale
    <2>4. \A p \in DOMAIN r : r[p] \in PersonRow
      BY <2>2 DEF PeopleInv, PeopleTypes, PeopleOK
    <2>5. ASSUME NEW p \in DOMAIN r
          PROVE  /\ people'[p] \in PersonRow
                 /\ people'[p].centroid = IF p = into THEN {} ELSE people[p].centroid
      BY <2>2, <2>3, <2>4 DEF PersonRow
    <2> QED BY <2>2, <2>3, <2>5
  <1>4. FacesOK' /\ PeopleOK' /\ edit' \in EditRow \cup {NoWork}
    <2>1. ASSUME NEW f \in DOMAIN face', face'[f].person # NoPerson
          PROVE  face'[f].person \in DOMAIN people'
      <3>1. face[f].person \in DOMAIN people \cup {NoPerson}
        BY <1>2 DEF PeopleInv, PeopleTypes, FacesOK
      <3>2. face'[f].person \in DOMAIN people \ {from}
        BY <1>1, <1>2, <2>1, <3>1
      <3> QED BY <1>3, <3>2
    <2>2. FacesOK'
      BY <1>2, <2>1 DEF PeopleInv, PeopleTypes, FacesOK
    <2> QED BY <1>1, <1>3, <2>2 DEF PeopleInv, PeopleTypes, PeopleOK
  <1>5. ASSUME ~Disturbed PROVE CentroidsTrue' /\ WishesKept' /\ EditTrue'
    <2>1. edit = NoWork /\ CentroidsTrue /\ WishesKept /\ edit.at = "idle"
      BY <1>5, NoWorks DEF PeopleInv, Quiet
    <2>2. CentroidsTrue'
      <3> SUFFICES ASSUME NEW p \in DOMAIN people', NEW f \in people'[p].centroid, f[1] \notin purged
                   PROVE  f \in DOMAIN face' /\ face'[f].person = p
        BY <1>1 DEF CentroidsTrue
      <3>1. p \in DOMAIN people /\ p # from /\ p # into /\ f \in people[p].centroid
        BY <1>3
      <3>2. f \in DOMAIN face /\ face[f].person = p
        BY <2>1, <3>1 DEF CentroidsTrue, Left
      <3> QED BY <1>2, <3>1, <3>2
    <2>3. WishesKept'
      BY <1>1, <1>2, <2>1, NoWorks DEF WishesKept, FacesOf
    <2>4. EditTrue'
      BY <1>1, <2>1 DEF EditTrue
    <2> QED BY <2>2, <2>3, <2>4
  <1> QED BY <1>1, <1>4, <1>5, UserMoves

LEMMA ForgetPersonKeeps ==
  ASSUME PeopleInv, Quiet, NEW p \in Person, ForgetPerson(p)
  PROVE  PeopleInv'
  <1> DEFINE gone == [person |-> NoPerson, dismissed |-> TRUE]
  <1>1. /\ face' = [f \in DOMAIN face |-> IF face[f].person = p THEN gone ELSE face[f]]
        /\ p \in DOMAIN people
        /\ people' = [q \in DOMAIN people \ {p} |-> people[q]]
        /\ wished' = wished \cup FacesOf(p) /\ UNCHANGED <<analysis, edit, purged>>
    BY DEF ForgetPerson, Exists
  <1>2. gone \in FaceRow /\ gone.person = NoPerson /\ gone.dismissed
    BY DEF FaceRow
  <1> HIDE DEF gone
  <1>3. /\ DOMAIN face' = DOMAIN face
        /\ \A f \in DOMAIN face : \/ face[f].person = p /\ face'[f] = gone
                                  \/ face[f].person # p /\ face'[f] = face[f]
        /\ DOMAIN people' = DOMAIN people \ {p}
        /\ \A q \in DOMAIN people' : people'[q] = people[q]
    BY <1>1
  <1>4. FacesOK' /\ PeopleOK' /\ edit' \in EditRow \cup {NoWork}
    BY <1>1, <1>2, <1>3 DEF PeopleInv, PeopleTypes, FacesOK, PeopleOK
  <1>5. ASSUME ~Disturbed PROVE CentroidsTrue' /\ WishesKept' /\ EditTrue'
    <2>1. edit = NoWork /\ CentroidsTrue /\ WishesKept /\ edit.at = "idle"
      BY <1>5, NoWorks DEF PeopleInv, Quiet
    <2>2. CentroidsTrue'
      BY <1>1, <1>3, <2>1 DEF CentroidsTrue, Left
    <2>3. WishesKept'
      BY <1>1, <1>2, <1>3, <2>1 DEF WishesKept, FacesOf
    <2>4. EditTrue'
      BY <1>1, <2>1 DEF EditTrue
    <2> QED BY <2>2, <2>3, <2>4
  <1> QED BY <1>1, <1>4, <1>5, UserMoves

LEMMA PurgePhotoKeeps ==
  ASSUME PeopleInv, NEW ph \in Photo, PurgePhoto(ph)
  PROVE  PeopleInv'
  <1>1. /\ Quiet /\ purged' = purged \cup {ph}
        /\ face' = [f \in {g \in DOMAIN face : g[1] # ph} |-> face[f]]
        /\ wished' = {f \in wished : f[1] # ph} /\ UNCHANGED <<people, analysis, edit>>
    BY DEF PurgePhoto, Edits
  <1>2. /\ DOMAIN face' = {g \in DOMAIN face : g[1] # ph}
        /\ \A f \in DOMAIN face' : face'[f] = face[f]
    BY <1>1
  <1>3. FacesOK' /\ PeopleOK' /\ edit' \in EditRow \cup {NoWork}
    BY <1>1, <1>2 DEF PeopleInv, PeopleTypes, FacesOK, PeopleOK
  <1>4. ASSUME ~Disturbed PROVE CentroidsTrue' /\ WishesKept' /\ EditTrue'
    <2>1. edit = NoWork /\ CentroidsTrue /\ WishesKept /\ edit.at = "idle"
      BY <1>1, <1>4, NoWorks DEF PeopleInv, Quiet
    <2>2. CentroidsTrue'
      BY <1>1, <1>2, <2>1 DEF CentroidsTrue, Left
    <2>3. WishesKept' /\ EditTrue'
      BY <1>1, <1>2, <2>1 DEF WishesKept, EditTrue
    <2> QED BY <2>2, <2>3
  <1> QED BY <1>1, <1>3, <1>4, UserMoves

\* Nobody moves the face between the read of the person it leaves and the move.
LEMMA ReassignFaceKeeps ==
  ASSUME PeopleInv, Quiet, NEW f \in Face, NEW to \in Person \cup {NoPerson}, ReassignFace(f, to)
  PROVE  PeopleInv'
  <1> DEFINE e == [at |-> "move", face |-> f, to |-> to, previous |-> face[f].person]
  <1>1. /\ edit = NoWork /\ f \in DOMAIN face /\ edit' = e
        /\ UNCHANGED <<face, people, analysis, purged, wished>>
    BY DEF ReassignFace
  <1>2. face[f].person \in Person \cup {NoPerson}
    BY <1>1, PeopleRows DEF PeopleInv, PeopleTypes, FacesOK
  <1>3. e \in EditRow /\ e.at = "move" /\ e.face = f /\ e.previous = face[f].person
    BY <1>2 DEF EditRow
  <1> HIDE DEF e
  <1>4. FacesOK' /\ PeopleOK' /\ edit' \in EditRow \cup {NoWork}
    BY <1>1, <1>3 DEF PeopleInv, PeopleTypes, FacesOK, PeopleOK
  <1>5. ~Disturbed => CentroidsTrue' /\ WishesKept' /\ EditTrue'
    BY <1>1, <1>3, NoWorks DEF PeopleInv, CentroidsTrue, Left, WishesKept, EditTrue
  <1> QED BY <1>1, <1>4, <1>5, UserMoves

LEMMA MoveFaceKeeps ==
  ASSUME PeopleInv, MoveFace
  PROVE  PeopleInv'
  <1> PICK e : e = edit
    OBVIOUS
  <1>1. e.at = "move" /\ e \in EditRow /\ edit # NoWork /\ UNCHANGED <<people, analysis, purged>>
    BY NoWorks DEF MoveFace, PeopleInv, PeopleTypes
  <1>2. PeopleOK'
    BY <1>1 DEF PeopleInv, PeopleTypes, PeopleOK
  <1>3. CASE ~(e.face \in DOMAIN face /\ (e.to = NoPerson \/ Exists(e.to)))
    <2>1. edit' = NoWork /\ UNCHANGED <<face, wished>>
      BY <1>3 DEF MoveFace
    <2>2. FacesOK'
      BY <1>1, <2>1 DEF PeopleInv, PeopleTypes, FacesOK
    <2>3. ~Disturbed => CentroidsTrue' /\ WishesKept' /\ EditTrue'
      BY <1>1, <2>1, NoWorks DEF PeopleInv, CentroidsTrue, Left, WishesKept, EditTrue
    <2> QED BY <1>1, <1>2, <2>1, <2>2, <2>3, UserMoves
  <1>4. CASE e.face \in DOMAIN face /\ (e.to = NoPerson \/ Exists(e.to))
    <2> PICK row : row = [person |-> e.to, dismissed |-> e.to = NoPerson]
      OBVIOUS
    <2>1. /\ face' = [face EXCEPT ![e.face] = row]
          /\ wished' = IF e.to = NoPerson THEN wished \cup {e.face} ELSE wished \ {e.face}
          /\ edit' = [e EXCEPT !.at = "invalidate"]
      BY <1>4 DEF MoveFace
    <2>2. row \in FaceRow /\ row.person = e.to /\ (row.dismissed <=> e.to = NoPerson)
      <3>1. PICK d \in BOOLEAN : d = (e.to = NoPerson)
        OBVIOUS
      <3>2. row = [person |-> e.to, dismissed |-> d] /\ e.to \in Person \cup {NoPerson}
        BY <1>1, <3>1, EditRows
      <3>3. row \in FaceRow
        BY <3>2 DEF FaceRow
      <3>4. row.person = e.to /\ row.dismissed = d
        BY <3>2
      <3> QED BY <3>1, <3>3, <3>4
    <2>3. /\ edit' \in EditRow /\ edit'.at = "invalidate" /\ edit'.face = e.face
          /\ edit'.previous = e.previous
      BY <1>1, <2>1 DEF EditRow
    <2>4. /\ DOMAIN face' = DOMAIN face /\ face'[e.face] = row
          /\ \A f \in DOMAIN face : f # e.face => face'[f] = face[f]
      BY <1>4, <2>1
    <2>5. FacesOK'
      BY <1>1, <1>4, <2>2, <2>4 DEF PeopleInv, PeopleTypes, FacesOK, Exists
    <2>6. ASSUME ~Disturbed PROVE CentroidsTrue' /\ WishesKept' /\ EditTrue'
      <3>1. CentroidsTrue /\ WishesKept /\ face[e.face].person = e.previous
        BY <1>1, <1>4, <2>6 DEF PeopleInv, EditTrue
      <3>2. CentroidsTrue'
        BY <1>1, <2>3, <2>4, <3>1 DEF CentroidsTrue, Left
      <3>3. WishesKept'
        BY <1>4, <2>1, <2>2, <2>4, <3>1 DEF WishesKept
      <3>4. EditTrue'
        BY <2>3 DEF EditTrue
      <3> QED BY <3>2, <3>3, <3>4
    <2> QED BY <1>1, <1>2, <2>3, <2>5, <2>6, UserMoves
  <1> QED BY <1>3, <1>4

LEMMA EditEndsKeep ==
  ASSUME PeopleInv, InvalidateEnds \/ ReapEmptyPeople \/ EditFails
  PROVE  PeopleInv'
  <1>1. edit # NoWork /\ edit \in EditRow /\ UNCHANGED <<face, analysis, purged, wished>>
    BY NoWorks DEF InvalidateEnds, ReapEmptyPeople, EditFails, PeopleInv, PeopleTypes
  <1>2. CASE InvalidateEnds
    <2>1. /\ edit.at = "invalidate" /\ people' = Invalidated(people, {edit.previous, edit.to})
          /\ edit' = [edit EXCEPT !.at = "reap"]
      BY <1>2 DEF InvalidateEnds
    <2>2. edit' \in EditRow /\ edit'.at = "reap"
      BY <1>1, <2>1 DEF EditRow
    <2>3. /\ DOMAIN people' = DOMAIN people
          /\ \A p \in DOMAIN people' :
               /\ people'[p] \in PersonRow
               /\ people'[p].centroid = IF p \in {edit.previous, edit.to} THEN {} ELSE people[p].centroid
      BY <2>1, PeopleTables DEF PeopleInv, PeopleTypes
    <2>4. FacesOK' /\ PeopleOK'
      BY <1>1, <2>3 DEF PeopleInv, PeopleTypes, FacesOK, PeopleOK
    <2>5. ~Disturbed => CentroidsTrue' /\ WishesKept' /\ EditTrue'
      BY <1>1, <2>1, <2>2, <2>3 DEF PeopleInv, CentroidsTrue, Left, WishesKept, EditTrue
    <2> QED BY <1>1, <2>2, <2>4, <2>5, UserMoves
  <1>3. CASE ReapEmptyPeople
    <2>1. edit.at = "reap" /\ people' = Reaped(people, face) /\ edit' = NoWork
      BY <1>3 DEF ReapEmptyPeople
    <2>2. /\ DOMAIN people' = {q \in DOMAIN people : \E f \in DOMAIN face : face[f].person = q}
          /\ \A p \in DOMAIN people' : people'[p] = people[p]
      BY <2>1 DEF Reaped
    <2>3. FacesOK' /\ PeopleOK'
      BY <1>1, <2>2 DEF PeopleInv, PeopleTypes, FacesOK, PeopleOK
    <2>4. ~Disturbed => CentroidsTrue' /\ WishesKept' /\ EditTrue'
      BY <1>1, <2>1, <2>2, NoWorks DEF PeopleInv, CentroidsTrue, Left, WishesKept, EditTrue
    <2> QED BY <1>1, <2>1, <2>3, <2>4, UserMoves
  <1>4. CASE EditFails
    <2>1. edit' = NoWork /\ people' = people /\ (Disturbed \/ edit.at # "invalidate")
      BY <1>4 DEF EditFails
    <2>2. FacesOK' /\ PeopleOK'
      BY <1>1, <2>1 DEF PeopleInv, PeopleTypes, FacesOK, PeopleOK
    <2>3. ~Disturbed => CentroidsTrue' /\ WishesKept' /\ EditTrue'
      BY <1>1, <2>1, NoWorks DEF PeopleInv, CentroidsTrue, Left, WishesKept, EditTrue
    <2> QED BY <1>1, <2>1, <2>2, <2>3, UserMoves
  <1> QED BY <1>2, <1>3, <1>4

LEMMA PeopleStep == PeopleInv /\ [PeopleNext]_peopleVars => PeopleInv'
  <1> SUFFICES ASSUME PeopleInv, [PeopleNext]_peopleVars PROVE PeopleInv'
    OBVIOUS
  <1>1. CASE UNCHANGED peopleVars
    BY <1>1 DEF peopleVars, PeopleInv, PeopleTypes, FacesOK, PeopleOK, CentroidsTrue, Left, WishesKept,
            EditTrue, OneAtATime, WorkTrue, Mean
  <1>2. ASSUME NEW w \in FaceWorker, AnalysisStep(w) PROVE PeopleInv'
    BY <1>2, HandleKeeps, ReadsKeep, RecomputeCentroidKeeps, PlacingKeeps, SaveCentroidKeeps,
       FailsKeep DEF AnalysisStep
  <1>3. CASE UserStep
    <2>1. CASE \E p \in Person : handlePatchPerson(p) \/ handleForgetPerson(p)
      BY <2>1, NamePersonKeeps, ForgetPersonKeeps DEF handlePatchPerson, handleForgetPerson, Edits
    <2>2. CASE \E p, q \in Person : handleMergePeople(p, q)
      BY <2>2, MergePeopleKeeps DEF handleMergePeople, Edits
    <2>3. CASE \E f \in Face, p \in Person \cup {NoPerson} : handleReassignFace(f, p)
      BY <2>3, ReassignFaceKeeps DEF handleReassignFace, Edits
    <2>4. CASE \E ph \in Photo : PurgePhoto(ph)
      BY <2>4, PurgePhotoKeeps
    <2> QED BY <1>3, <2>1, <2>2, <2>3, <2>4, MoveFaceKeeps, EditEndsKeep DEF UserStep
  <1> QED BY <1>1, <1>2, <1>3 DEF PeopleNext

\* Rows keep their shapes, and every face in a cluster points to a person who exists,
\* whether or not corrections and analyses overlap (files/faces.go).
THEOREM PeopleTypesHold == PeopleSpec => []PeopleTypeOK
  <1>1. PeopleInv => PeopleTypeOK
    BY DEF PeopleInv, PeopleTypes, FacesOK, PeopleOK, PeopleTypeOK, FaceRow, PersonRow
  <1> QED BY <1>1, PeopleStart, PeopleStep, PTL DEF PeopleSpec

\* While corrections and analyses do not overlap, no centroid averages a stranger and
\* no pass or re-detection undoes a dismissal (files/faces.go, ReplaceFaces,
\* ReassignFace).
THEOREM CorrectionsStand == ~Disturbed => (PeopleSpec => []CorrectionsHold)
  <1> SUFFICES ASSUME ~Disturbed PROVE PeopleSpec => []CorrectionsHold
    OBVIOUS
  <1>1. PeopleInv => CorrectionsHold
    <2> SUFFICES ASSUME PeopleInv PROVE NoStranger /\ DismissalSticks
      BY DEF CorrectionsHold
    <2>1. CentroidsTrue /\ WishesKept
      BY DEF PeopleInv
    <2>2. NoStranger
      BY <2>1, NoWorks DEF NoStranger, CentroidsTrue, Left
    <2>3. DismissalSticks
      BY <2>1 DEF DismissalSticks, WishesKept
    <2> QED BY <2>2, <2>3
  <1> QED BY <1>1, PeopleStart, PeopleStep, PTL DEF PeopleSpec

-----------------------------------------------------------------------------
(* The cover of an album                                                   *)

CoverInv ==
  /\ photo = [n \in FileNode |-> photo[n]]
  /\ CoverStands
  /\ albumReq = [r \in AlbumRequest |-> albumReq[r]]
  /\ \A r \in AlbumRequest : albumReq[r].at = "cover" => albumReq[r].node \in FileNode

LEMMA NotCover == NotAsking.at # "cover"
  BY DEF NotAsking

\* A request that asks, or is answered.
LEMMA AlbumMoves ==
  ASSUME CoverInv, NEW r \in AlbumRequest, NEW q, albumReq' = [albumReq EXCEPT ![r] = q],
         q.at = "cover" => q.node \in FileNode, photo' = photo,
         cover' = cover \/ \E n \in FileNode : photo[n] # "gone" /\ cover' = {n}
  PROVE  CoverInv'
  BY DEF CoverInv, CoverStands

LEMMA AlbumStep == CoverInv /\ [AlbumNext]_albumVars => CoverInv'
  <1> SUFFICES ASSUME CoverInv, [AlbumNext]_albumVars PROVE CoverInv'
    OBVIOUS
  <1>1. CASE photo' = photo /\ albumReq' = albumReq /\ cover' \subseteq cover
    BY <1>1 DEF CoverInv, CoverStands
  <1>2. ASSUME NEW r \in AlbumRequest, NEW n \in FileNode \cup Stranger, handlePatchAlbum(r, n)
        PROVE  CoverInv'
    <2> DEFINE q == [at |-> "cover", node |-> n]
    <2>1. /\ n \in FileNode /\ albumReq' = [albumReq EXCEPT ![r] = q] /\ UNCHANGED <<photo, cover>>
      BY <1>2 DEF handlePatchAlbum, CoverAllowed, assertOwnedLive, ReadAlbum, Asks
    <2>2. q.node = n
      OBVIOUS
    <2> HIDE DEF q
    <2> QED BY <2>1, <2>2, AlbumMoves
  <1>3. ASSUME NEW r \in AlbumRequest, UpdateAlbum(r) PROVE CoverInv'
    <2>1. /\ albumReq[r].node \in FileNode /\ albumReq' = [albumReq EXCEPT ![r] = NotAsking]
          /\ photo' = photo
          /\ cover' = cover \/ (photo[albumReq[r].node] # "gone" /\ cover' = {albumReq[r].node})
      BY <1>3 DEF UpdateAlbum, Answered, Asks, CoverInv
    <2> QED BY <2>1, NotCover, AlbumMoves
  <1>4. ASSUME NEW r \in AlbumRequest, AddAlbumItems(r) \/ RemoveAlbumItem(r) \/ ReorderAlbum(r)
        PROVE  CoverInv'
    <2>1. albumReq' = [albumReq EXCEPT ![r] = NotAsking] /\ UNCHANGED <<photo, cover>>
      BY <1>4 DEF AddAlbumItems, RemoveAlbumItem, ReorderAlbum, Answered, Asks
    <2> QED BY <2>1, NotCover, AlbumMoves
  <1>5. ASSUME NEW r \in AlbumRequest, NEW q, q.at # "cover", ReadAlbum(r, q) PROVE CoverInv'
    <2>1. albumReq' = [albumReq EXCEPT ![r] = q] /\ UNCHANGED <<photo, cover>>
      BY <1>5 DEF ReadAlbum, Asks
    <2> QED BY <1>5, <2>1, AlbumMoves
  <1>6. ASSUME NEW r \in AlbumRequest, NEW n, NEW list,
               \/ handleRemoveAlbumItem(r, n) \/ handleAddAlbumItems(r, list)
               \/ handleReorderAlbum(r, list)
        PROVE  CoverInv'
    BY <1>5, <1>6 DEF handleRemoveAlbumItem, handleAddAlbumItems, handleReorderAlbum
  <1>7. ASSUME NEW n \in FileNode, PurgeFileNode(n) PROVE CoverInv'
    BY <1>7 DEF PurgeFileNode, CoverInv, CoverStands
  <1>8. ASSUME NEW n \in FileNode, NEW s \in {"live", "trashed"}, Trashes(n, s) PROVE CoverInv'
    BY <1>8 DEF Trashes, CoverInv, CoverStands
  <1>9. ASSUME NEW r \in AlbumRequest, handleCreateAlbum(r) \/ handleDeleteAlbum(r) \/ ClearCover(r)
        PROVE  CoverInv'
    BY <1>1, <1>9 DEF handleCreateAlbum, handleDeleteAlbum, ClearCover
  <1>10. CASE UNCHANGED albumVars
    BY <1>1, <1>10 DEF albumVars
  <1> QED BY <1>2, <1>3, <1>4, <1>6, <1>7, <1>8, <1>9, <1>10 DEF AlbumNext

\* The cover of an album is a file of its owner that still exists, whatever happens to
\* it between the check and the update (files/albums.go, UpdateAlbum).
THEOREM CoversStand == AlbumSpec => []CoverStands
  <1>1. AlbumInit => CoverInv
    BY NotCover DEF AlbumInit, CoverInv, CoverStands
  <1>2. CoverInv => CoverStands
    BY DEF CoverInv
  <1> QED BY <1>1, <1>2, AlbumStep, PTL DEF AlbumSpec

-----------------------------------------------------------------------------
(* The order of an album                                                   *)

RequestTyped(q) ==
  \/ q = NotAsking
  \/ q \in [at : {"cover", "remove"}, node : FileNode \cup Stranger]
  \/ q \in [at : {"add"}, list : NodeLists, base : Nat]
  \/ q \in [at : {"order"}, list : NodeLists]

\* The album, its cover and its items.  There is a highest position.
RowsOK ==
  /\ photo \in [FileNode -> {"live", "trashed", "gone"}]
  /\ album \in BOOLEAN /\ albumOps \in Nat
  /\ cover \subseteq FileNode \cup Stranger
  /\ Members \subseteq {n \in FileNode : photo[n] # "gone"}
  /\ items \in [Members -> Nat]
  /\ asked \subseteq Members \X Members
  /\ ~album => Members = {} /\ cover = {}
  /\ \E b \in Nat : \A n \in Members : items[n] <= b

RequestsOK ==
  /\ albumReq = [r \in AlbumRequest |-> albumReq[r]]
  /\ \A r \in AlbumRequest : RequestTyped(albumReq[r])

\* While statements do not overlap, what was asked for first has the lower position.
Ordered == ~Racing => \A p \in asked : items[p[1]] < items[p[2]]

OrderInv == RowsOK /\ RequestsOK /\ Ordered

LEMMA HighestIs ==
  ASSUME RowsOK
  PROVE  HighestPosition \in Nat /\ \A n \in Members : items[n] <= HighestPosition
  <1> DEFINE S == {0} \cup Positions
             B == {b \in Nat : \A p \in S : p <= b}
  <1>1. S \subseteq Nat /\ 0 \in S /\ \A n \in Members : items[n] \in S
    BY DEF RowsOK, Positions
  <1>2. PICK b \in Nat : \A n \in Members : items[n] <= b
    BY DEF RowsOK
  <1>3. b \in B
    BY <1>2 DEF Positions
  <1>4. PICK m \in B : \A x \in B : m <= x
    BY <1>3, Smallest
  <1>5. m \in S
    <2> SUFFICES ASSUME m \notin S PROVE FALSE
      OBVIOUS
    <2>1. m - 1 \in B
      BY <1>1, <1>4
    <2> QED BY <1>4, <2>1
  <1>6. m \in S /\ \A q \in S : q <= m
    BY <1>4, <1>5
  <1>7. HighestPosition \in S /\ \A q \in S : q <= HighestPosition
    BY <1>6 DEF HighestPosition
  <1> QED BY <1>1, <1>7

\* What is asked of an album, or answered.
LEMMA Asking ==
  ASSUME RequestsOK, NEW r \in AlbumRequest, NEW q, RequestTyped(q),
         albumReq' = [albumReq EXCEPT ![r] = q]
  PROVE  RequestsOK'
  BY DEF RequestsOK, RequestTyped

LEMMA NothingAsked ==
  ASSUME RequestsOK, albumReq' = albumReq
  PROVE  RequestsOK'
  BY DEF RequestsOK, RequestTyped

LEMMA Answering ==
  ASSUME RequestsOK, NEW r \in AlbumRequest, Answered(r)
  PROVE  RequestsOK'
  BY Asking DEF Answered, Asks, RequestTyped

\* The ordinals of a list.
LEMMA OrdinalsAre ==
  ASSUME NEW list \in NodeLists, NEW ord \in Ordinals(list)
  PROVE  /\ \A n \in Named(list) : ord[n] \in 1..Len(list) /\ list[ord[n]] = n
         /\ Len(list) \in Nat
         /\ \A a, b \in Named(list) : Precedes(list, a, b) => ord[a] < ord[b]
  <1>1. ord \in [Named(list) -> 1..Len(list)] /\ \A n \in Named(list) : list[ord[n]] = n
    BY DEF Ordinals
  <1>2. Len(list) \in Nat
    BY AlbumAssumption
  <1> QED BY <1>1, <1>2 DEF Precedes

LEMMA InsertOrdered ==
  ASSUME OrderInv, NEW list \in NodeLists, NEW ord \in Ordinals(list), NEW base \in Nat,
         ~Racing => base = HighestPosition, album,
         items' = Rows(list, ord, base),
         asked' = asked \cup (Members \X Incoming(list))
                        \cup {p \in Incoming(list) \X Incoming(list) : Precedes(list, p[1], p[2])},
         UNCHANGED <<photo, album, cover, albumOps>>
  PROVE  RowsOK' /\ Ordered'
  <1> DEFINE new == Incoming(list)
  <1>1. /\ new \subseteq Named(list) /\ new \cap Members = {}
        /\ \A n \in new : n \in FileNode /\ photo[n] = "live"
    BY DEF Incoming, assertOwnedLive
  <1>2. /\ Members' = Members \cup new
        /\ \A n \in Members : items'[n] = items[n]
        /\ \A n \in new : items'[n] = base + ord[n]
        /\ items' = [n \in Members' |-> items'[n]]
    BY <1>1 DEF Rows, Members
  <1>3. \A n \in new : ord[n] \in 1..Len(list) /\ items'[n] \in Nat /\ items'[n] <= base + Len(list)
    BY <1>1, <1>2, OrdinalsAre
  <1>4. \A n \in Members : items[n] \in Nat
    BY DEF OrderInv, RowsOK
  <1>5. items' \in [Members' -> Nat]
    BY <1>2, <1>3, <1>4
  <1>6. asked' \subseteq Members' \X Members'
    BY <1>2 DEF OrderInv, RowsOK
  <1>7. \E b \in Nat : \A n \in Members' : items'[n] <= b
    <2>1. PICK b \in Nat : \A n \in Members : items[n] <= b
      BY DEF OrderInv, RowsOK
    <2>2. b + base + Len(list) \in Nat /\ Len(list) \in Nat
      BY OrdinalsAre
    <2>3. \A n \in Members' : items'[n] <= b + base + Len(list)
      BY <1>2, <1>3, <1>4, <2>1, <2>2
    <2> QED BY <2>2, <2>3
  <1>8. RowsOK'
    BY <1>1, <1>2, <1>5, <1>6, <1>7 DEF OrderInv, RowsOK
  <1>9. ASSUME ~Racing, NEW p \in asked' PROVE items'[p[1]] < items'[p[2]]
    <2>1. CASE p \in asked
      BY <1>2, <1>9, <2>1 DEF OrderInv, Ordered, RowsOK
    <2>2. CASE p \in Members \X new
      <3>1. items[p[1]] <= base
        BY <1>9, <2>2, HighestIs DEF OrderInv
      <3>2. /\ items'[p[1]] = items[p[1]] /\ items[p[1]] \in Nat
            /\ items'[p[2]] = base + ord[p[2]]
        BY <1>2, <1>4, <2>2
      <3>3. ord[p[2]] \in Nat /\ ord[p[2]] >= 1
        BY <1>3, <2>2
      <3> QED BY <3>1, <3>2, <3>3
    <2>3. CASE p \in new \X new /\ Precedes(list, p[1], p[2])
      <3>1. ord[p[1]] < ord[p[2]]
        BY <1>1, <2>3, OrdinalsAre
      <3> QED BY <1>2, <1>3, <2>3, <3>1
    <2> QED BY <1>9, <2>1, <2>2, <2>3
  <1> QED BY <1>8, <1>9 DEF Ordered

LEMMA ReorderOrdered ==
  ASSUME OrderInv, NEW list \in NodeLists, NEW ord \in Ordinals(list),
         items' = Reordered(list, ord),
         asked' = AskedWithout(Named(list) \cap Members)
                    \cup {p \in (Named(list) \cap Members) \X (Named(list) \cap Members) :
                            Precedes(list, p[1], p[2])},
         UNCHANGED <<photo, album, cover, albumOps>>
  PROVE  RowsOK' /\ Ordered'
  <1> DEFINE named == Named(list) \cap Members
  <1>1. /\ Members' = Members
        /\ \A n \in named : items'[n] = ord[n]
        /\ \A n \in Members \ named : items'[n] = items[n]
        /\ items' = [n \in Members' |-> items'[n]]
    BY DEF Reordered, Members
  <1>2. \A n \in named : ord[n] \in Nat /\ ord[n] <= Len(list)
    BY OrdinalsAre
  <1>3. \A n \in Members : items[n] \in Nat
    BY DEF OrderInv, RowsOK
  <1>4. items' \in [Members' -> Nat]
    BY <1>1, <1>2, <1>3
  <1>5. asked' \subseteq Members' \X Members'
    BY <1>1 DEF OrderInv, RowsOK, AskedWithout
  <1>6. \E b \in Nat : \A n \in Members' : items'[n] <= b
    <2>1. PICK b \in Nat : \A n \in Members : items[n] <= b
      BY DEF OrderInv, RowsOK
    <2>2. b + Len(list) \in Nat /\ Len(list) \in Nat
      BY OrdinalsAre
    <2>3. \A n \in Members' : items'[n] <= b + Len(list)
      BY <1>1, <1>2, <1>3, <2>1, <2>2
    <2> QED BY <2>2, <2>3
  <1>7. RowsOK'
    BY <1>1, <1>4, <1>5, <1>6 DEF OrderInv, RowsOK
  <1>8. ASSUME ~Racing, NEW p \in asked' PROVE items'[p[1]] < items'[p[2]]
    <2>1. CASE p \in asked /\ p[1] \notin named /\ p[2] \notin named
      BY <1>1, <1>8, <2>1 DEF OrderInv, Ordered, RowsOK
    <2>2. CASE p \in named \X named /\ Precedes(list, p[1], p[2])
      BY <1>1, <2>2, OrdinalsAre
    <2> QED BY <2>1, <2>2 DEF AskedWithout
  <1> QED BY <1>7, <1>8 DEF Ordered

LEMMA WithoutOrdered ==
  ASSUME OrderInv, NEW n, items' = Without(n), asked' = AskedWithout({n}),
         photo' \in [FileNode -> {"live", "trashed", "gone"}],
         \A x \in FileNode \ {n} : photo'[x] = photo[x],
         cover' \subseteq cover, album' = album, albumOps' \in Nat
  PROVE  RowsOK' /\ Ordered'
  <1>1. /\ Members' = Members \ {n}
        /\ \A x \in Members \ {n} : items'[x] = items[x]
        /\ items' = [x \in Members' |-> items'[x]]
    BY DEF Without, Members
  <1>2. \A x \in Members : items[x] \in Nat
    BY DEF OrderInv, RowsOK
  <1>3. items' \in [Members' -> Nat]
    BY <1>1, <1>2
  <1>4. asked' \subseteq Members' \X Members' /\ asked' \subseteq asked
    BY <1>1 DEF OrderInv, RowsOK, AskedWithout
  <1>5. \E b \in Nat : \A x \in Members' : items'[x] <= b
    BY <1>1 DEF OrderInv, RowsOK
  <1>6. RowsOK'
    BY <1>1, <1>3, <1>4, <1>5 DEF OrderInv, RowsOK
  <1>7. ASSUME ~Racing, NEW p \in asked' PROVE items'[p[1]] < items'[p[2]]
    BY <1>1, <1>4, <1>7 DEF OrderInv, Ordered
  <1> QED BY <1>6, <1>7 DEF Ordered

\* What leaves the items and what is promised of them alone.
LEMMA SameItems ==
  ASSUME OrderInv, UNCHANGED <<items, asked>>,
         photo' \in [FileNode -> {"live", "trashed", "gone"}],
         \A n \in FileNode : photo'[n] = "gone" => photo[n] = "gone",
         cover' \subseteq FileNode \cup Stranger, album' \in BOOLEAN, albumOps' \in Nat,
         ~album' => Members = {} /\ cover' = {}
  PROVE  RowsOK' /\ Ordered'
  BY DEF OrderInv, RowsOK, Ordered, Members

\* The statements of a request.
LEMMA OrderStatements ==
  ASSUME OrderInv, NEW r \in AlbumRequest,
         \/ UpdateAlbum(r) \/ AddAlbumItems(r) \/ RemoveAlbumItem(r) \/ ReorderAlbum(r)
  PROVE  OrderInv'
  <1> DEFINE q == albumReq[r]
  <1>1. RequestTyped(q) /\ RequestsOK
    BY DEF OrderInv, RequestsOK
  <1>2. RowsOK /\ Ordered
    BY DEF OrderInv
  <1>3. CASE UpdateAlbum(r)
    <2>1. q.at = "cover" /\ Answered(r) /\ UNCHANGED <<photo, album, items, asked, albumOps>>
      BY <1>3 DEF UpdateAlbum
    <2>2. q.node \in FileNode \cup Stranger
      BY <1>1, <2>1 DEF RequestTyped, NotAsking
    <2>3. cover' \in {cover, {q.node}} /\ (~album => cover' = cover)
      BY <1>3 DEF UpdateAlbum
    <2>4. RowsOK' /\ Ordered'
      BY <1>2, <2>1, <2>2, <2>3, SameItems DEF RowsOK
    <2>5. RequestsOK'
      BY <1>1, <2>1, Answering
    <2> QED BY <2>4, <2>5 DEF OrderInv
  <1>4. CASE AddAlbumItems(r)
    <2>1. q.at = "add" /\ Answered(r) /\ UNCHANGED <<photo, album, cover, albumOps>>
      BY <1>4 DEF AddAlbumItems
    <2>2. q.list \in NodeLists /\ q.base \in Nat
      BY <1>1, <2>1 DEF RequestTyped, NotAsking
    <2>3. PICK base : /\ base = IF Racing THEN q.base ELSE HighestPosition
                      /\ \E ord \in Ordinals(q.list) :
                           items' = IF album THEN Rows(q.list, ord, base) ELSE items
      BY <1>4 DEF AddAlbumItems
    <2>4. base \in Nat
      BY <1>2, <2>2, <2>3, HighestIs
    <2>5. CASE album
      <3>1. asked' = asked \cup (Members \X Incoming(q.list))
                        \cup {p \in Incoming(q.list) \X Incoming(q.list) :
                                Precedes(q.list, p[1], p[2])}
        BY <1>4, <2>5 DEF AddAlbumItems
      <3> QED BY <2>1, <2>2, <2>3, <2>4, <2>5, <3>1, InsertOrdered, Answering, <1>1 DEF OrderInv
    <2>6. CASE ~album
      <3>1. asked' = asked /\ items' = items
        BY <1>4, <2>3, <2>6 DEF AddAlbumItems
      <3>2. RowsOK' /\ Ordered'
        BY <1>2, <2>1, <2>6, <3>1, SameItems DEF RowsOK
      <3> QED BY <1>1, <2>1, <3>2, Answering DEF OrderInv
    <2> QED BY <2>5, <2>6
  <1>5. CASE RemoveAlbumItem(r)
    <2>1. /\ Answered(r) /\ items' = Without(q.node) /\ asked' = AskedWithout({q.node})
          /\ UNCHANGED <<photo, album, cover, albumOps>>
      BY <1>5 DEF RemoveAlbumItem
    <2>2. RowsOK' /\ Ordered'
      BY <1>2, <2>1, WithoutOrdered DEF RowsOK
    <2> QED BY <1>1, <2>1, <2>2, Answering DEF OrderInv
  <1>6. CASE ReorderAlbum(r)
    <2>1. q.at = "order" /\ Answered(r) /\ UNCHANGED <<photo, album, cover, albumOps>>
      BY <1>6 DEF ReorderAlbum
    <2>2. q.list \in NodeLists
      BY <1>1, <2>1 DEF RequestTyped, NotAsking
    <2>3. /\ \E ord \in Ordinals(q.list) : items' = Reordered(q.list, ord)
          /\ asked' = AskedWithout(Named(q.list) \cap Members)
                    \cup {p \in (Named(q.list) \cap Members) \X (Named(q.list) \cap Members) :
                            Precedes(q.list, p[1], p[2])}
      BY <1>6 DEF ReorderAlbum
    <2>4. RowsOK' /\ Ordered'
      BY <2>1, <2>2, <2>3, ReorderOrdered
    <2> QED BY <1>1, <2>1, <2>4, Answering DEF OrderInv
  <1> QED BY <1>3, <1>4, <1>5, <1>6

\* What a request reads before its statement.
LEMMA OrderReads ==
  ASSUME OrderInv, NEW r \in AlbumRequest, NEW q, RequestTyped(q), ReadAlbum(r, q)
  PROVE  OrderInv'
  <1>1. /\ albumReq' = [albumReq EXCEPT ![r] = q] /\ albumOps' = albumOps + 1
        /\ UNCHANGED <<photo, album, cover, items, asked>>
    BY DEF ReadAlbum, Asks, OpCounted
  <1>2. RowsOK' /\ Ordered'
    BY <1>1, SameItems DEF OrderInv, RowsOK
  <1>3. RequestsOK'
    BY <1>1, Asking DEF OrderInv
  <1> QED BY <1>2, <1>3 DEF OrderInv

LEMMA OrderStep == OrderInv /\ [AlbumNext]_albumVars => OrderInv'
  <1> SUFFICES ASSUME OrderInv, [AlbumNext]_albumVars PROVE OrderInv'
    OBVIOUS
  <1>1. RowsOK /\ RequestsOK /\ Ordered
    BY DEF OrderInv
  <1>2. ASSUME NEW r \in AlbumRequest,
               \/ UpdateAlbum(r) \/ AddAlbumItems(r) \/ RemoveAlbumItem(r) \/ ReorderAlbum(r)
        PROVE  OrderInv'
    BY <1>2, OrderStatements
  <1>3. ASSUME NEW r \in AlbumRequest, NEW n \in FileNode \cup Stranger,
               handlePatchAlbum(r, n) \/ handleRemoveAlbumItem(r, n)
        PROVE  OrderInv'
    <2>1. RequestTyped([at |-> "cover", node |-> n]) /\ RequestTyped([at |-> "remove", node |-> n])
      BY DEF RequestTyped
    <2> QED BY <1>3, <2>1, OrderReads DEF handlePatchAlbum, handleRemoveAlbumItem
  <1>4. ASSUME NEW r \in AlbumRequest, NEW list \in NodeLists,
               handleAddAlbumItems(r, list) \/ handleReorderAlbum(r, list)
        PROVE  OrderInv'
    <2>1. /\ RequestTyped([at |-> "add", list |-> list, base |-> HighestPosition])
          /\ RequestTyped([at |-> "order", list |-> list])
      BY <1>1, HighestIs DEF RequestTyped
    <2> QED BY <1>4, <2>1, OrderReads DEF handleAddAlbumItems, handleReorderAlbum
  <1>5. ASSUME NEW n \in FileNode, PurgeFileNode(n) PROVE OrderInv'
    <2>1. /\ items' = Without(n) /\ asked' = AskedWithout({n}) /\ cover' = cover \ {n}
          /\ photo' = [photo EXCEPT ![n] = "gone"] /\ albumOps' = albumOps + 1
          /\ UNCHANGED <<album, albumReq>>
      BY <1>5 DEF PurgeFileNode, OpCounted
    <2>2. /\ photo' \in [FileNode -> {"live", "trashed", "gone"}]
          /\ \A x \in FileNode \ {n} : photo'[x] = photo[x]
          /\ cover' \subseteq cover /\ album' = album /\ albumOps' \in Nat
      BY <1>1, <2>1 DEF RowsOK
    <2>3. RowsOK' /\ Ordered'
      BY <2>1, <2>2, WithoutOrdered
    <2>4. RequestsOK'
      BY <1>1, <2>1, NothingAsked
    <2> QED BY <2>3, <2>4 DEF OrderInv
  <1>6. ASSUME NEW n \in FileNode, NEW s \in {"live", "trashed"}, Trashes(n, s) PROVE OrderInv'
    <2>1. /\ photo' = [photo EXCEPT ![n] = s] /\ albumOps' = albumOps + 1
          /\ UNCHANGED <<album, cover, items, albumReq, asked>>
      BY <1>6 DEF Trashes, OpCounted
    <2>2. RowsOK' /\ Ordered'
      BY <1>1, <2>1, SameItems DEF RowsOK
    <2>3. RequestsOK'
      BY <1>1, <2>1, NothingAsked
    <2> QED BY <2>2, <2>3 DEF OrderInv
  <1>7. ASSUME NEW r \in AlbumRequest, handleCreateAlbum(r) \/ ClearCover(r) PROVE OrderInv'
    <2>1. /\ albumOps' = albumOps + 1 /\ UNCHANGED <<photo, items, albumReq, asked>>
          /\ album' \in BOOLEAN /\ album' /\ cover' \subseteq cover
      BY <1>1, <1>7 DEF handleCreateAlbum, ClearCover, OpCounted, RowsOK
    <2>2. RowsOK' /\ Ordered'
      BY <1>1, <2>1, SameItems DEF RowsOK
    <2>3. RequestsOK'
      BY <1>1, <2>1, NothingAsked
    <2> QED BY <2>2, <2>3 DEF OrderInv
  <1>8. ASSUME NEW r \in AlbumRequest, handleDeleteAlbum(r) PROVE OrderInv'
    <2>1. /\ albumOps' = albumOps + 1 /\ UNCHANGED <<photo, albumReq>>
          /\ ~album' /\ album' \in BOOLEAN /\ cover' = {} /\ items' = NoItems /\ asked' = {}
      BY <1>8 DEF handleDeleteAlbum, OpCounted
    <2>2. Members' = {} /\ items' \in [Members' -> Nat]
      BY <2>1 DEF NoItems, Members
    <2>3. RowsOK' /\ Ordered'
      BY <1>1, <2>1, <2>2 DEF RowsOK, Ordered
    <2>4. RequestsOK'
      BY <1>1, <2>1, NothingAsked
    <2> QED BY <2>3, <2>4 DEF OrderInv
  <1>9. CASE UNCHANGED albumVars
    BY <1>1, <1>9 DEF albumVars, OrderInv, RowsOK, RequestsOK, Ordered, Members
  <1> QED BY <1>2, <1>3, <1>4, <1>5, <1>6, <1>7, <1>8, <1>9 DEF AlbumNext

LEMMA OrderStart == AlbumInit => OrderInv
  <1> SUFFICES ASSUME AlbumInit PROVE OrderInv
    OBVIOUS
  <1>1. items = NoItems /\ asked = {} /\ Members = {}
    BY DEF AlbumInit, NoItems, Members
  <1>2. RowsOK
    BY <1>1 DEF AlbumInit, RowsOK, NoItems
  <1>3. RequestsOK
    BY DEF AlbumInit, RequestsOK, RequestTyped
  <1> QED BY <1>1, <1>2, <1>3 DEF OrderInv, Ordered

\* The rows and requests of an album have their shape: no item is a file that was
\* purged, and an album that is gone has none (files/albums.go, 00020_albums.sql).
THEOREM AlbumTypesHold == AlbumSpec => []AlbumTypeOK
  <1>1. OrderInv => AlbumTypeOK
    <2> SUFFICES ASSUME OrderInv PROVE AlbumTypeOK
      OBVIOUS
    <2>1. RowsOK /\ DOMAIN albumReq = AlbumRequest
          /\ \A r \in AlbumRequest : RequestTyped(albumReq[r])
      BY DEF OrderInv, RequestsOK
    <2> QED BY <2>1 DEF AlbumTypeOK, RowsOK, RequestTyped
  <1> QED BY <1>1, OrderStart, OrderStep, PTL DEF AlbumSpec

\* While the statements of requests do not overlap, an album is listed in the order its
\* owner asked for, additions after all that was there, and its cover is a file of the
\* owner that still exists (files/albums.go, AddAlbumItems, ReorderAlbum, UpdateAlbum).
THEOREM AlbumsSound == ~Racing => (AlbumSpec => []AlbumSound)
  <1> SUFFICES ASSUME ~Racing PROVE AlbumSpec => []AlbumSound
    OBVIOUS
  <1>1. OrderInv => OrderKept
    BY DEF OrderInv, Ordered, OrderKept, Before
  <1>2. OrderKept /\ CoverStands => AlbumSound
    BY DEF AlbumSound
  <1> QED BY <1>1, <1>2, OrderStart, OrderStep, CoversStand, PTL DEF AlbumSpec

-----------------------------------------------------------------------------
(* Whom a request is charged to                                            *)

\* Behind a trusted peer, the last address that no proxy has is the caller's.
LEMMA LastUntrusted ==
  ASSUME NEW c \in Client, NEW p \in Proxy, NEW xff, NEW n \in 1..Len(xff), Len(xff) \in Nat,
         xff[n] = c, \A i \in 1..Len(xff) : i > n => xff[i] \in Proxy
  PROVE  clientIPFrom(p, xff) = c
  <1> DEFINE usable == {i \in 1..Len(xff) : xff[i] # "junk" /\ ~isTrusted(xff[i])}
  <1>1. n \in usable /\ \A j \in usable : j <= n
    BY RateAssumption DEF isTrusted
  <1>2. (CHOOSE i \in usable : \A j \in usable : j <= i) = n
    <2>1. \A i \in usable : (\A j \in usable : j <= i) => i = n
      BY <1>1
    <2> HIDE DEF usable
    <2> QED BY <1>1, <2>1
  <1>3. clientIPFrom(p, xff) = xff[CHOOSE i \in usable : \A j \in usable : j <= i]
    BY <1>1 DEF clientIPFrom, isTrusted
  <1> QED BY <1>2, <1>3

\* The address a proxy appends is the last one in the header that no proxy has, so
\* what the caller wrote before it is never read.
LEMMA OwnAddress ==
  ASSUME NEW c \in Client, NEW arrival \in Arrivals(c)
  PROVE  clientIPFrom(arrival.peer, arrival.xff) = c
  <1> DEFINE S == Client \cup Proxy \cup {"junk"}
  <1>0. c \notin Proxy /\ c \in S /\ (\A q \in Proxy : q \in S) /\ \A f \in Forwarded : f \in Seq(S)
    BY RateAssumption
  <1> HIDE DEF S
  <1>1. ASSUME NEW f \in Forwarded PROVE clientIPFrom(c, f) = c
    BY <1>0 DEF clientIPFrom, isTrusted
  <1>2. ASSUME NEW p \in Proxy, NEW x \in Through(c) PROVE clientIPFrom(p, x) = c
    <2>1. PICK f \in Forwarded : x = Append(f, c) \/ \E q \in Proxy : x = Append(Append(f, c), q)
      BY DEF Through
    <2>2. PICK h \in Seq(S) : h = Append(f, c) /\ Len(h) = Len(f) + 1 /\ h[Len(f) + 1] = c /\ Len(f) \in Nat
      <3>1. f \in Seq(S)
        BY <1>0
      <3>2. Append(f, c) \in Seq(S) /\ Len(f) \in Nat
        BY <1>0, <3>1
      <3>3. Len(Append(f, c)) = Len(f) + 1 /\ Append(f, c)[Len(f) + 1] = c
        BY <3>1, <3>2
      <3> QED BY <3>2, <3>3
    <2>3. PICK n \in Nat : n = Len(h) /\ n >= 1 /\ h[n] = c
      BY <2>2
    <2>4. /\ Len(x) \in Nat /\ n \in 1..Len(x) /\ x[n] = c
          /\ \A i \in 1..Len(x) : i > n => x[i] \in Proxy
      <3>1. CASE x = h
        BY <2>3, <3>1
      <3>2. ASSUME NEW q \in Proxy, x = Append(h, q)
            PROVE  Len(x) = n + 1 /\ x[n] = c /\ x[n + 1] = q
        <4>1. q \in S
          BY <1>0
        <4> QED BY <2>3, <3>2, <4>1
      <3> QED BY <2>1, <2>2, <2>3, <3>1, <3>2
    <2> QED BY <2>4, LastUntrusted
  <1> QED BY <1>1, <1>2 DEF Arrivals

ChargedToCaller ==
  /\ calls = [r \in Call |-> calls[r]]
  /\ \A r \in Call : calls[r].at = "waits" => calls[r].key = calls[r].caller

\* Every request is charged to who makes it, whatever it writes into its headers
\* (httpapi/ratelimit.go, clientIPFrom).
THEOREM CallersPayForThemselves == RateSpec => []ChargedToCaller
  <1>0. NotCalling.at # "waits"
    BY DEF NotCalling
  <1>1. RateInit => ChargedToCaller
    BY <1>0 DEF RateInit, ChargedToCaller
  <1>2. ChargedToCaller /\ [RateNext]_rateVars => ChargedToCaller'
    <2> SUFFICES ASSUME ChargedToCaller, [RateNext]_rateVars PROVE ChargedToCaller'
      OBVIOUS
    <2>1. ASSUME NEW r \in Call, NEW c \in Client, Arrive(r, c) PROVE ChargedToCaller'
      <3>1. PICK arrival \in Arrivals(c) : calls' = [calls EXCEPT ![r] =
              [at |-> "waits", caller |-> c, now |-> clock, key |-> Key(c, arrival)]]
        BY <2>1 DEF Arrive
      <3>2. Key(c, arrival) = c
        BY OwnAddress DEF Key
      <3> QED BY <3>1, <3>2 DEF ChargedToCaller
    <2>2. ASSUME NEW r \in Call, allow(r) PROVE ChargedToCaller'
      <3>1. calls' = [calls EXCEPT ![r] = NotCalling]
        BY <2>2 DEF allow
      <3> QED BY <1>0, <3>1 DEF ChargedToCaller
    <2>3. CASE reap \/ Tick \/ UNCHANGED rateVars
      BY <2>3 DEF reap, Tick, rateVars, ChargedToCaller
    <2> QED BY <2>1, <2>2, <2>3 DEF RateNext
  <1> QED BY <1>1, <1>2, PTL DEF RateSpec

-----------------------------------------------------------------------------
(* What a bucket holds back                                                *)

Worth(n) == n * Unit
Gain(d) == d * Refill

LEMMA Products ==
  /\ \A n \in Int : Worth(n) \in Int
  /\ \A n \in Nat : Worth(n) \in Int
  /\ \A d \in Int : Gain(d) \in Int
  /\ \A m, n \in Int : Worth(m + n) = Worth(m) + Worth(n) /\ Worth(m - n) = Worth(m) - Worth(n)
  /\ \A d, e \in Int : Gain(d + e) = Gain(d) + Gain(e) /\ Gain(d - e) = Gain(d) - Gain(e)
  /\ \A m, n \in Int : m <= n => Worth(m) <= Worth(n)
  /\ \A d, e \in Int : d <= e => Gain(d) <= Gain(e)
  /\ Worth(0) = 0 /\ Gain(0) = 0 /\ Worth(1) = Unit /\ Unit \in Nat \ {0}
  <1>1. Unit \in Nat \ {0} /\ Refill \in Nat
    BY RateAssumption
  <1>2. \A m, n, k \in Int : m * k \in Int /\ (m + n) * k = m * k + n * k /\ (m - n) * k = m * k - n * k
    OBVIOUS
  <1>3. \A m, n \in Int, k \in Nat : m <= n => m * k <= n * k
    <2> SUFFICES ASSUME NEW m \in Int, NEW n \in Int, NEW k \in Nat, m <= n PROVE m * k <= n * k
      OBVIOUS
    <2>1. PICK d \in Nat : n = m + d
      <3>1. n - m \in Nat /\ n = m + (n - m)
        OBVIOUS
      <3> QED BY <3>1
    <2>2. n * k = m * k + d * k /\ d * k \in Nat /\ m * k \in Int
      BY <2>1
    <2> QED BY <2>2
  <1> QED BY <1>1, <1>2, <1>3 DEF Worth, Gain

\* What is left of a bucket but for what time gives: it only shrinks.
Level(b) == b.tokens - Gain(b.last)

CallKnown(q) ==
  q.at = "waits" =>
    /\ q.caller \in Client /\ q.key = q.caller /\ q.now \in 0..clock
    /\ clock - q.now <= MaxWait

RateTyped ==
  /\ clock \in 0..MaxClock /\ limiter \in DOMAIN Burst
  /\ granted \in [Client -> [0..MaxClock + 1 -> Nat]]
  /\ DOMAIN buckets \subseteq Client
  /\ \A k \in DOMAIN buckets : /\ buckets[k].tokens \in Int /\ buckets[k].tokens <= Capacity
                               /\ buckets[k].last \in 0..clock
  /\ calls = [r \in Call |-> calls[r]] /\ \A r \in Call : CallKnown(calls[r])

Since(c, s) == granted[c][s]

\* Fewer were sent later, none later than now, nor long after the bucket was last used.
Dated(c) ==
  /\ \A s, t \in 0..MaxClock + 1 : s <= t => Since(c, t) <= Since(c, s)
  /\ \A t \in 0..MaxClock + 1 : Since(c, t) > 0 => t <= clock
  /\ c \in DOMAIN buckets => \A t \in 0..MaxClock + 1 : Since(c, t) > 0 => t <= buckets[c].last + MaxWait

\* Whatever was let through since s is gone from what was in the bucket at s at most.
Spent(c) ==
  c \in DOMAIN buckets =>
    \A s \in 0..MaxClock + 1 : Since(c, s) > 0 =>
      Level(buckets[c]) <= Capacity - Gain(s) - Worth(Since(c, s))

\* A bucket that is dropped would be full for any request that is still to come.
Rested(c) ==
  c \notin DOMAIN buckets =>
    \A s \in 0..MaxClock + 1 : Since(c, s) > 0 => Worth(Since(c, s)) <= Gain(clock - MaxWait - s)

\* At some time the bucket was full, and all it lost since went to requests of the caller.
Anchored(c) ==
  c \in DOMAIN buckets =>
    \E s \in 0..MaxClock : /\ Since(c, s) > 0
                           /\ Level(buckets[c]) >= Capacity - Gain(s) - Worth(GrantedSince(c, s))

Bounded(c) ==
  \A s \in 0..MaxClock : \A t \in s..MaxClock :
    Worth(Since(c, s) - Since(c, t + 1)) <= Capacity + Gain(t - s)

RefusedFor(q) ==
  /\ q.caller \in Client /\ q.time \in 0..clock
  /\ \E s \in 0..q.time : Worth(GrantedSince(q.caller, s)) > Capacity + Gain(q.time - s) - Unit

RateInv ==
  /\ RateTyped
  /\ \A c \in Client : Dated(c) /\ Spent(c) /\ Rested(c) /\ Anchored(c) /\ Bounded(c)
  /\ \A q \in refused : RefusedFor(q)

LEMMA Sizes ==
  ASSUME RateTyped
  PROVE  /\ Capacity \in Nat /\ Unit \in Nat \ {0} /\ Capacity >= Unit
         /\ MaxWait \in Nat /\ ReapAfter \in Nat /\ MaxClock \in Nat
         /\ Capacity <= Gain(ReapAfter - 2 * MaxWait) /\ 2 * MaxWait < ReapAfter
  <1>1. /\ MaxWait \in Nat /\ ReapAfter \in Nat /\ MaxClock \in Nat /\ Unit \in Nat \ {0}
        /\ 2 * MaxWait < ReapAfter
        /\ Burst[limiter] \in Nat \ {0}
        /\ (ReapAfter - 2 * MaxWait) * Refill >= Burst[limiter] * Unit
    BY RateAssumption DEF RateTyped
  <1>2. \A m \in Nat \ {0}, n \in Nat \ {0} : m * n \in Nat /\ m * n >= n
    <2> SUFFICES ASSUME NEW m \in Nat, NEW n \in Nat \ {0} PROVE (m + 1) * n \in Nat /\ (m + 1) * n >= n
      <3>1. \A m \in Nat \ {0} : m - 1 \in Nat /\ (m - 1) + 1 = m
        OBVIOUS
      <3> QED BY <3>1
    <2>1. (m + 1) * n = m * n + n /\ m * n \in Nat
      OBVIOUS
    <2> QED BY <2>1
  <1>3. Capacity \in Nat /\ Capacity >= Unit
    BY <1>1, <1>2 DEF Capacity
  <1>4. (ReapAfter - 2 * MaxWait) * Refill >= Capacity /\ Gain(ReapAfter - 2 * MaxWait) = (ReapAfter - 2 * MaxWait) * Refill
    BY <1>1 DEF Capacity, Gain
  <1>5. Gain(ReapAfter - 2 * MaxWait) \in Int
    BY <1>1, Products
  <1> QED BY <1>1, <1>3, <1>4, <1>5

\* The bucket a request finds, once it is refilled.
Finds(c, now, b) ==
  /\ b.tokens \in Int /\ b.last = now /\ b.tokens <= Capacity
  /\ IF c \in DOMAIN buckets
       THEN \/ b.tokens = Capacity /\ Capacity - Gain(now) <= Level(buckets[c])
            \/ Level(b) = Level(buckets[c]) /\ Level(b) <= Capacity - Gain(now)
       ELSE b.tokens = Capacity

LEMMA Found ==
  ASSUME RateTyped, NEW c \in Client, NEW now \in 0..clock PROVE Finds(c, now, Bucket(c, now))
  <1>1. Capacity \in Nat /\ now \in Int
    BY Sizes DEF RateTyped
  <1>2. CASE c \notin DOMAIN buckets
    BY <1>1, <1>2 DEF Bucket, FullBucket, Finds
  <1>3. CASE c \in DOMAIN buckets
    <2>1. PICK n \in Int, l \in Int : n = buckets[c].tokens /\ l = buckets[c].last
      BY <1>3 DEF RateTyped
    <2>2. Bucket(c, now) = [tokens |-> Capped(n + (now - l) * Refill), last |-> now]
      BY <1>3, <2>1 DEF Bucket, Refilled
    <2>3. PICK gn \in Int, gl \in Int : gn = Gain(now) /\ gl = Gain(l) /\ (now - l) * Refill = gn - gl
      <3>1. Gain(now) \in Int /\ Gain(l) \in Int /\ Gain(now - l) = Gain(now) - Gain(l)
        BY <1>1, <2>1, Products
      <3> QED BY <3>1 DEF Gain
    <2>4. Bucket(c, now) = [tokens |-> IF n + (gn - gl) > Capacity THEN Capacity ELSE n + (gn - gl), last |-> now]
      BY <2>2, <2>3 DEF Capped
    <2>5. PICK b : b = Bucket(c, now)
      OBVIOUS
    <2>6. /\ b.last = now /\ b.tokens = IF n + (gn - gl) > Capacity THEN Capacity ELSE n + (gn - gl)
          /\ Level(buckets[c]) = n - gl /\ Level(b) = b.tokens - gn
      BY <2>1, <2>3, <2>4, <2>5 DEF Level
    <2> QED BY <1>1, <1>3, <2>3, <2>5, <2>6 DEF Finds
  <1> QED BY <1>2, <1>3

\* What a request that is decided does to the bucket and to the counts: ok says whether it was
\* let through.
Decides(c, now, b, ok) ==
  /\ DOMAIN buckets' = DOMAIN buckets \cup {c}
  /\ \A k \in DOMAIN buckets : k # c => buckets'[k] = buckets[k]
  /\ buckets'[c].last = now /\ buckets'[c].tokens = IF ok THEN b.tokens - Unit ELSE b.tokens
  /\ ok <=> b.tokens >= Unit
  /\ granted' \in [Client -> [0..MaxClock + 1 -> Nat]]
  /\ \A x \in Client, s \in 0..MaxClock + 1 :
       granted'[x][s] = IF x = c /\ s <= now /\ ok THEN granted[x][s] + 1 ELSE granted[x][s]
  /\ clock' = clock /\ limiter' = limiter

LEMMA Counts ==
  ASSUME RateTyped, NEW c \in Client
  PROVE  \A s \in 0..MaxClock + 1 : Since(c, s) \in Nat
  BY DEF RateTyped, Since

LEMMA Times ==
  ASSUME RateTyped
  PROVE  /\ MaxWait \in Nat /\ MaxClock \in Nat /\ clock \in Nat /\ clock <= MaxClock
         /\ \A s \in 0..MaxClock : s \in 0..MaxClock + 1 /\ s \in Int
         /\ \A s \in 0..MaxClock : (IF s > MaxWait THEN s - MaxWait ELSE 0) \in 0..MaxClock + 1
  BY Sizes DEF RateTyped

LEMMA DecidedCounts ==
  ASSUME RateInv, NEW c \in Client, NEW now \in 0..clock, clock - now <= MaxWait, NEW b, NEW ok \in BOOLEAN,
         Decides(c, now, b, ok)
  PROVE  /\ \A s \in 0..MaxClock + 1 : Since(c, s)' = IF s <= now /\ ok THEN Since(c, s) + 1 ELSE Since(c, s)
         /\ Dated(c)'
  <1>1. \A s \in 0..MaxClock + 1 : Since(c, s)' = IF s <= now /\ ok THEN Since(c, s) + 1 ELSE Since(c, s)
    BY DEF Decides, Since
  <1>2. /\ \A s \in 0..MaxClock + 1 : Since(c, s) \in Nat
        /\ MaxWait \in Nat /\ clock \in Nat /\ now \in Nat /\ now <= clock /\ MaxClock \in Nat
    BY Counts, Times DEF RateInv
  <1>3. /\ \A s, t \in 0..MaxClock + 1 : s <= t => Since(c, t) <= Since(c, s)
        /\ \A t \in 0..MaxClock + 1 : Since(c, t) > 0 => t <= clock
    BY DEF RateInv, Dated
  <1>4. ASSUME NEW s \in 0..MaxClock + 1, NEW t \in 0..MaxClock + 1, s <= t
        PROVE  Since(c, t)' <= Since(c, s)'
    BY <1>1, <1>2, <1>3, <1>4
  <1>5. \A t \in 0..MaxClock + 1 : Since(c, t)' > 0 => t <= clock
    BY <1>1, <1>2, <1>3
  <1>6. clock' = clock /\ clock <= now + MaxWait /\ buckets'[c].last = now
    BY <1>2 DEF Decides
  <1>7. \A t \in 0..MaxClock + 1 : Since(c, t)' > 0 => t <= buckets'[c].last + MaxWait
    BY <1>2, <1>5, <1>6
  <1> QED BY <1>1, <1>4, <1>5, <1>6, <1>7 DEF Dated

\* A level, with what it was before.
LEMMA Lower ==
  ASSUME RateInv, NEW c \in Client, NEW now \in 0..clock, NEW b, Finds(c, now, b), NEW ok \in BOOLEAN,
         Decides(c, now, b, ok)
  PROVE  /\ Level(b) \in Int /\ Level(buckets'[c]) \in Int /\ Level(b) = b.tokens - Gain(now)
         /\ Level(buckets'[c]) = (IF ok THEN Level(b) - Unit ELSE Level(b))
         /\ Level(b) <= Capacity - Gain(now)
         /\ c \in DOMAIN buckets => Level(buckets[c]) \in Int /\ Level(b) <= Level(buckets[c])
         /\ c \notin DOMAIN buckets => Level(b) = Capacity - Gain(now) /\ ok
         /\ Gain(now) \in Int /\ Capacity \in Nat /\ Unit \in Nat \ {0} /\ Capacity >= Unit
  <1>1. Capacity \in Nat /\ Unit \in Nat \ {0} /\ Capacity >= Unit /\ now \in Int
    BY Sizes, Times DEF RateInv
  <1>2. Gain(now) \in Int
    BY <1>1, Products
  <1>3. Level(b) = b.tokens - Gain(now) /\ b.tokens \in Int /\ b.tokens <= Capacity
    BY DEF Level, Finds
  <1>4. Level(buckets'[c]) = buckets'[c].tokens - Gain(now)
    BY DEF Level, Decides
  <1>5. Level(buckets'[c]) = (IF ok THEN Level(b) - Unit ELSE Level(b))
    BY <1>1, <1>2, <1>3, <1>4 DEF Decides
  <1>6. ASSUME c \in DOMAIN buckets PROVE Level(buckets[c]) \in Int /\ Level(b) <= Level(buckets[c])
    <2>1. buckets[c].tokens \in Int /\ buckets[c].last \in Int
      BY <1>6, Times DEF RateInv, RateTyped
    <2>2. Gain(buckets[c].last) \in Int
      BY <2>1, Products
    <2> QED BY <1>2, <1>3, <1>6, <2>1, <2>2 DEF Level, Finds
  <1>7. c \notin DOMAIN buckets => b.tokens = Capacity /\ ok
    BY <1>1 DEF Finds, Decides
  <1> QED BY <1>1, <1>2, <1>3, <1>5, <1>6, <1>7

LEMMA DecidedSpent ==
  ASSUME RateInv, NEW c \in Client, NEW now \in 0..clock, clock - now <= MaxWait, NEW b, Finds(c, now, b),
         NEW ok \in BOOLEAN, Decides(c, now, b, ok)
  PROVE  \A s \in 0..MaxClock + 1 : Since(c, s)' > 0 =>
           Level(buckets'[c]) <= Capacity - Gain(s) - Worth(Since(c, s)')
  <1> SUFFICES ASSUME NEW s \in 0..MaxClock + 1, Since(c, s)' > 0
               PROVE  Level(buckets'[c]) <= Capacity - Gain(s) - Worth(Since(c, s)')
    OBVIOUS
  <1>1. PICK n \in Nat, m \in Nat : n = Since(c, s) /\ m = Since(c, s)' /\ m = IF s <= now /\ ok THEN n + 1 ELSE n
    BY DecidedCounts, Counts DEF RateInv
  <1>2. /\ s \in Int /\ now \in Int /\ clock \in Int /\ MaxWait \in Int /\ clock - MaxWait <= now
    BY Times DEF RateInv
  <1>3. PICK gs \in Int, gn \in Int, wn \in Int, wm \in Int :
          gs = Gain(s) /\ gn = Gain(now) /\ wn = Worth(n) /\ wm = Worth(m)
    <2>1. Gain(s) \in Int /\ Gain(now) \in Int
      BY <1>2, Products
    <2>2. Worth(n) \in Int /\ Worth(m) \in Int
      BY Products
    <2> QED BY <2>1, <2>2
  <1>4. PICK lb \in Int, ln \in Int, C \in Nat, u \in Nat \ {0} :
          /\ lb = Level(b) /\ ln = Level(buckets'[c]) /\ C = Capacity /\ u = Unit
          /\ ln = (IF ok THEN lb - u ELSE lb) /\ lb <= C - gn
          /\ c \in DOMAIN buckets => Level(buckets[c]) \in Int /\ lb <= Level(buckets[c])
          /\ c \notin DOMAIN buckets => lb = C - gn /\ ok
    BY <1>3, Lower
  <1>5. /\ m = n + 1 => wm = wn + u
        /\ s <= now => gs <= gn
        /\ n = 0 => wn = 0
        /\ n > 0 => wn >= u
    <2>1. 1 \in Int /\ 0 \in Int /\ Worth(0) = 0 /\ Worth(1) = u
      BY <1>4, Products
    <2>2. m = n + 1 => Worth(m) = Worth(n) + Worth(1)
      BY <2>1, Products
    <2>3. n > 0 => Worth(1) <= Worth(n)
      BY <2>1, Products
    <2>4. s <= now => Gain(s) <= Gain(now)
      BY <1>2, Products
    <2> QED BY <1>3, <2>1, <2>2, <2>3, <2>4
  <1>6. c \in DOMAIN buckets /\ n > 0 => Level(buckets[c]) <= C - gs - wn
    BY <1>1, <1>3, <1>4 DEF RateInv, Spent
  <1>7. c \notin DOMAIN buckets /\ n > 0 => wn <= gn - gs
    <2> SUFFICES ASSUME c \notin DOMAIN buckets, n > 0 PROVE wn <= gn - gs
      OBVIOUS
    <2>1. wn <= Gain(clock - MaxWait - s)
      BY <1>1, <1>3 DEF RateInv, Rested
    <2>2. PICK d \in Int, e \in Int : d = clock - MaxWait - s /\ e = now - s /\ d <= e
      BY <1>2
    <2>3. Gain(d) <= Gain(e) /\ Gain(e) = gn - gs /\ Gain(d) \in Int
      BY <1>2, <1>3, <2>2, Products
    <2> QED BY <1>3, <2>1, <2>2, <2>3
  <1>8. c \notin DOMAIN buckets /\ n > 0 => s <= now
    <2> SUFFICES ASSUME c \notin DOMAIN buckets, n > 0, now < s PROVE FALSE
      BY <1>2
    <2>1. Gain(now) <= Gain(s)
      BY <1>2, Products
    <2> QED BY <1>3, <1>4, <1>5, <1>7, <2>1
  <1>9. ln <= C - gs - wm
    <2>1. CASE n = 0
      <3>1. m = n + 1 /\ s <= now /\ ok
        BY <1>1, <2>1
      <3> QED BY <1>4, <1>5, <2>1, <3>1
    <2>2. CASE n > 0 /\ c \in DOMAIN buckets
      BY <1>1, <1>3, <1>4, <1>5, <1>6, <2>2
    <2>3. CASE n > 0 /\ c \notin DOMAIN buckets
      BY <1>1, <1>3, <1>4, <1>5, <1>7, <1>8, <2>3
    <2> QED BY <1>1, <2>1, <2>2, <2>3
  <1> QED BY <1>1, <1>3, <1>4, <1>9

LEMMA DecidedBounded ==
  ASSUME RateInv, NEW c \in Client, NEW now \in 0..clock, clock - now <= MaxWait, NEW b, Finds(c, now, b),
         NEW ok \in BOOLEAN, Decides(c, now, b, ok)
  PROVE  Bounded(c)'
  <1> SUFFICES ASSUME NEW s \in 0..MaxClock, NEW t \in s..MaxClock
               PROVE  Worth(Since(c, s)' - Since(c, t + 1)') <= Capacity + Gain(t - s)
    BY DEF Bounded, Capacity, Decides
  <1>1. s \in 0..MaxClock + 1 /\ t + 1 \in 0..MaxClock + 1 /\ s \in Int /\ t \in Int /\ s <= t /\ now \in Int
        /\ MaxClock \in Nat
    BY Times DEF RateInv
  <1>2. PICK n \in Nat, m \in Nat, k \in Nat, l \in Nat :
          /\ n = Since(c, s) /\ m = Since(c, s)' /\ m = (IF s <= now /\ ok THEN n + 1 ELSE n)
          /\ k = Since(c, t + 1) /\ l = Since(c, t + 1)' /\ l = (IF t + 1 <= now /\ ok THEN k + 1 ELSE k)
    BY <1>1, DecidedCounts, Counts DEF RateInv
  <1>3. CASE m - l = n - k
    BY <1>2, <1>3 DEF RateInv, Bounded
  <1>4. CASE m - l # n - k
    <2>1. ok /\ s <= now /\ now <= t /\ m = n + 1
      BY <1>1, <1>2, <1>4
    <2>2. PICK gs \in Int, gn \in Int, gt \in Int, wm \in Int :
            /\ gs = Gain(s) /\ gn = Gain(now) /\ gt = Gain(t) /\ wm = Worth(m)
            /\ gn <= gt /\ Gain(t - s) = gt - gs
      <3>1. Gain(s) \in Int /\ Gain(now) \in Int /\ Gain(t) \in Int
        BY <1>1, Products
      <3>2. Gain(now) <= Gain(t)
        BY <1>1, <2>1, Products
      <3>3. Gain(t - s) = Gain(t) - Gain(s)
        BY <1>1, Products
      <3>4. Worth(m) \in Int
        BY Products
      <3> QED BY <3>1, <3>2, <3>3, <3>4
    <2>3. PICK ln \in Int, C \in Nat : ln = Level(buckets'[c]) /\ C = Capacity /\ ln >= 0 - gn
      <3>1. Level(b) \in Int /\ Level(buckets'[c]) \in Int /\ Level(b) = b.tokens - gn /\ b.tokens \in Int
            /\ Level(buckets'[c]) = Level(b) - Unit /\ Capacity \in Nat /\ Unit \in Nat
        <4>1. b.tokens \in Int
          BY DEF Finds
        <4> QED BY <2>1, <2>2, <4>1, Lower
      <3>2. b.tokens >= Unit
        BY <2>1 DEF Decides
      <3> QED BY <2>2, <3>1, <3>2
    <2>4. ln <= C - gs - wm
      <3>1. \A x \in 0..MaxClock + 1 : Since(c, x)' > 0 =>
              Level(buckets'[c]) <= Capacity - Gain(x) - Worth(Since(c, x)')
        BY DecidedSpent
      <3>2. Since(c, s)' > 0
        BY <1>2, <2>1
      <3> QED BY <1>1, <1>2, <2>2, <2>3, <3>1, <3>2
    <2>5. PICK e \in Int : e = m - l /\ e <= m
      BY <1>2
    <2>6. Worth(e) <= wm /\ Worth(e) \in Int
      <3>1. m \in Int
        OBVIOUS
      <3>2. Worth(e) <= Worth(m) /\ Worth(e) \in Int
        BY <2>5, <3>1, Products
      <3> QED BY <2>2, <3>2
    <2> QED BY <1>2, <2>2, <2>3, <2>4, <2>5, <2>6
  <1> QED BY <1>3, <1>4

\* What was charged since a time at which something was let through was sent at most MaxWait before.
LEMMA Overtaken ==
  ASSUME RateInv, NEW c \in Client, NEW now \in 0..clock, clock - now <= MaxWait,
         NEW s \in 0..MaxClock, s <= clock
  PROVE  (IF s > MaxWait THEN s - MaxWait ELSE 0) <= now
  BY Times DEF RateInv

LEMMA DecidedAnchored ==
  ASSUME RateInv, NEW c \in Client, NEW now \in 0..clock, clock - now <= MaxWait, NEW b, Finds(c, now, b),
         NEW ok \in BOOLEAN, Decides(c, now, b, ok)
  PROVE  Anchored(c)'
  <1>1. /\ MaxClock \in Nat /\ now \in 0..MaxClock /\ now \in 0..MaxClock + 1 /\ now <= clock /\ clock \in Nat
        /\ now \in Int
    BY Times DEF RateInv
  <1>2. PICK lb \in Int, ln \in Int, C \in Nat, u \in Nat \ {0}, gn \in Int :
          /\ lb = Level(b) /\ ln = Level(buckets'[c]) /\ C = Capacity /\ u = Unit /\ gn = Gain(now)
          /\ ln = (IF ok THEN lb - u ELSE lb) /\ lb = b.tokens - gn /\ C >= u
    BY Lower
  <1>3. Capacity' = C
    BY <1>2 DEF Capacity, Decides
  <1>4. ASSUME b.tokens = C PROVE Anchored(c)'
    <2>1. ok
      BY <1>2, <1>4 DEF Decides
    <2>2. PICK lo \in 0..MaxClock + 1 : lo = IF now > MaxWait THEN now - MaxWait ELSE 0
      BY <1>1, Times DEF RateInv
    <2>3. lo <= now
      BY <1>1, <2>2, Overtaken
    <2>4. PICK n \in Nat, m \in Nat : n = Since(c, now)' /\ m = Since(c, lo)' /\ n > 0 /\ m >= 1
      <3>1. Since(c, now) \in Nat /\ Since(c, lo) \in Nat
        BY <1>1, Counts DEF RateInv
      <3>2. Since(c, now)' = Since(c, now) + 1 /\ Since(c, lo)' = Since(c, lo) + 1
        <4>1. \A x \in 0..MaxClock + 1 : Since(c, x)' = IF x <= now /\ ok THEN Since(c, x) + 1 ELSE Since(c, x)
          BY DecidedCounts
        <4> QED BY <1>1, <2>1, <2>3, <4>1
      <3> QED BY <3>1, <3>2
    <2>5. Worth(m) >= u /\ Worth(m) \in Int
      <3>1. Worth(1) <= Worth(m) /\ Worth(1) = Unit /\ Worth(m) \in Int
        BY <2>4, Products
      <3> QED BY <1>2, <3>1
    <2>6. GrantedSince(c, now)' = m
      BY <2>2, <2>4 DEF GrantedSince, Since
    <2>7. ln >= C - gn - Worth(m)
      BY <1>2, <1>4, <2>1, <2>5
    <2> QED BY <1>1, <1>2, <1>3, <2>4, <2>6, <2>7 DEF Anchored
  <1>5. ASSUME c \in DOMAIN buckets, lb = Level(buckets[c]) PROVE Anchored(c)'
    <2>1. PICK s \in 0..MaxClock : /\ Since(c, s) > 0
                                   /\ Level(buckets[c]) >= Capacity - Gain(s) - Worth(GrantedSince(c, s))
      BY <1>5 DEF RateInv, Anchored
    <2>2. s \in 0..MaxClock + 1 /\ s <= clock
      BY <1>1, <2>1 DEF RateInv, Dated
    <2>3. PICK lo \in 0..MaxClock + 1 : lo = IF s > MaxWait THEN s - MaxWait ELSE 0
      BY Times DEF RateInv
    <2>4. lo <= now
      BY <2>2, <2>3, Overtaken
    <2>5. PICK n \in Nat, m \in Nat : n = Since(c, lo) /\ m = Since(c, lo)' /\ m = IF ok THEN n + 1 ELSE n
      <3>1. Since(c, lo) \in Nat
        BY Counts DEF RateInv
      <3>2. Since(c, lo)' = IF ok THEN Since(c, lo) + 1 ELSE Since(c, lo)
        BY <2>4, DecidedCounts
      <3> QED BY <3>1, <3>2
    <2>6. GrantedSince(c, s) = n /\ GrantedSince(c, s)' = m
      BY <2>3, <2>5 DEF GrantedSince, Since
    <2>7. PICK wn \in Int, wm \in Int, gs \in Int :
            wn = Worth(n) /\ wm = Worth(m) /\ gs = Gain(s) /\ (m = n + 1 => wm = wn + u)
      <3>1. Worth(1) = u /\ 1 \in Int /\ n \in Int /\ s \in Int
        BY <1>2, Products
      <3>2. Worth(n) \in Int /\ Worth(m) \in Int /\ Gain(s) \in Int /\ (m = n + 1 => Worth(m) = Worth(n) + Worth(1))
        <4>1. Worth(n) \in Int /\ Worth(m) \in Int /\ Gain(s) \in Int
          BY <3>1, Products
        <4>2. Worth(n + 1) = Worth(n) + Worth(1)
          BY <3>1, Products
        <4> QED BY <4>1, <4>2
      <3> QED BY <3>1, <3>2
    <2>8. lb >= C - gs - wn
      BY <1>2, <1>5, <2>1, <2>6, <2>7
    <2>9. ln >= C - gs - wm
      BY <1>2, <2>5, <2>7, <2>8
    <2>10. Since(c, s)' > 0
      <3>1. Since(c, s) \in Nat /\ Since(c, s)' = IF s <= now /\ ok THEN Since(c, s) + 1 ELSE Since(c, s)
        BY <2>2, Counts, DecidedCounts DEF RateInv
      <3> QED BY <2>1, <3>1
    <2> QED BY <1>2, <1>3, <2>6, <2>7, <2>9, <2>10 DEF Anchored
  <1> QED BY <1>2, <1>4, <1>5 DEF Finds

LEMMA OthersKept ==
  ASSUME RateInv, NEW c \in Client, NEW now, NEW b, NEW ok \in BOOLEAN, Decides(c, now, b, ok),
         NEW x \in Client \ {c}
  PROVE  (Dated(x) /\ Spent(x) /\ Rested(x) /\ Anchored(x) /\ Bounded(x))'
  <1>1. /\ \A s \in 0..MaxClock + 1 : Since(x, s)' = Since(x, s)
        /\ Capacity' = Capacity /\ clock' = clock /\ x \in Client
        /\ x \in DOMAIN buckets' <=> x \in DOMAIN buckets
        /\ x \in DOMAIN buckets => buckets'[x] = buckets[x]
    BY DEF Decides, Since, Capacity
  <1>2. Dated(x) /\ Spent(x) /\ Rested(x) /\ Anchored(x) /\ Bounded(x)
    BY DEF RateInv
  <1>3. \A s \in 0..MaxClock : GrantedSince(x, s)' = GrantedSince(x, s)
    <2> SUFFICES ASSUME NEW s \in 0..MaxClock PROVE GrantedSince(x, s)' = GrantedSince(x, s)
      OBVIOUS
    <2>1. PICK lo \in 0..MaxClock + 1 : lo = IF s > MaxWait THEN s - MaxWait ELSE 0
      BY Times DEF RateInv
    <2> QED BY <1>1, <2>1 DEF GrantedSince, Since
  <1>4. \A s \in 0..MaxClock : s \in 0..MaxClock + 1
    BY Times DEF RateInv
  <1>5. \A s \in 0..MaxClock : \A t \in s..MaxClock : t + 1 \in 0..MaxClock + 1
    BY Times DEF RateInv
  <1>6. Dated(x)'
    BY <1>1, <1>2 DEF Dated
  <1>7. Spent(x)'
    BY <1>1, <1>2 DEF Spent, Level
  <1>8. Rested(x)'
    BY <1>1, <1>2 DEF Rested
  <1>9. Anchored(x)'
    <2> SUFFICES ASSUME x \in DOMAIN buckets
                 PROVE  \E s \in 0..MaxClock :
                          /\ Since(x, s)' > 0
                          /\ Level(buckets[x]) >= Capacity - Gain(s) - Worth(GrantedSince(x, s)')
      BY <1>1 DEF Anchored
    <2>1. PICK s \in 0..MaxClock : /\ Since(x, s) > 0
                                   /\ Level(buckets[x]) >= Capacity - Gain(s) - Worth(GrantedSince(x, s))
      BY <1>2 DEF Anchored
    <2> QED BY <1>1, <1>3, <1>4, <2>1
  <1>10. Bounded(x)'
    BY <1>1, <1>2, <1>4, <1>5 DEF Bounded
  <1> QED BY <1>6, <1>7, <1>8, <1>9, <1>10

LEMMA AllKept ==
  ASSUME RateInv, NEW c \in Client, NEW now \in 0..clock, clock - now <= MaxWait, NEW b, Finds(c, now, b),
         NEW ok \in BOOLEAN, Decides(c, now, b, ok)
  PROVE  \A x \in Client : (Dated(x) /\ Spent(x) /\ Rested(x) /\ Anchored(x) /\ Bounded(x))'
  <1>1. c \in DOMAIN buckets' /\ Capacity' = Capacity
    BY DEF Decides, Capacity
  <1>2. Spent(c)'
    BY <1>1, DecidedSpent DEF Spent
  <1>3. Rested(c)'
    BY <1>1 DEF Rested
  <1> QED BY <1>2, <1>3, DecidedCounts, DecidedAnchored, DecidedBounded, OthersKept

LEMMA RefusalsKept ==
  ASSUME RateInv, NEW c \in Client, NEW now, NEW b, NEW ok \in BOOLEAN, Decides(c, now, b, ok),
         NEW q \in refused
  PROVE  RefusedFor(q)'
  <1>1. PICK s \in 0..q.time : /\ q.caller \in Client /\ q.time \in 0..clock
                               /\ Worth(GrantedSince(q.caller, s)) > Capacity + Gain(q.time - s) - Unit
    BY DEF RateInv, RefusedFor
  <1>2. PICK x \in Client, T \in Nat : x = q.caller /\ T = q.time /\ T <= clock /\ s \in 0..MaxClock /\ s \in Int
    BY <1>1, Times DEF RateInv
  <1>3. PICK lo \in 0..MaxClock + 1 : lo = IF s > MaxWait THEN s - MaxWait ELSE 0
    BY <1>2, Times DEF RateInv
  <1>4. PICK n \in Nat, m \in Nat : n = GrantedSince(x, s) /\ m = GrantedSince(x, s)' /\ n <= m
    <2>1. GrantedSince(x, s) = granted[x][lo] /\ GrantedSince(x, s)' = granted'[x][lo]
      BY <1>3 DEF GrantedSince
    <2>2. granted[x][lo] \in Nat /\ granted'[x][lo] \in Nat /\ granted[x][lo] <= granted'[x][lo]
      <3>1. granted \in [Client -> [0..MaxClock + 1 -> Nat]] /\ granted' \in [Client -> [0..MaxClock + 1 -> Nat]]
        BY DEF Decides, RateInv, RateTyped
      <3>2. granted'[x][lo] = IF x = c /\ lo <= now /\ ok THEN granted[x][lo] + 1 ELSE granted[x][lo]
        BY DEF Decides
      <3>3. PICK n \in Nat, m \in Nat : n = granted[x][lo] /\ m = granted'[x][lo]
        BY <3>1
      <3> QED BY <3>2, <3>3
    <2> QED BY <2>1, <2>2
  <1>5. Worth(n) <= Worth(m) /\ Worth(n) \in Int /\ Worth(m) \in Int
    <2>1. n \in Int /\ m \in Int
      OBVIOUS
    <2> QED BY <1>4, <2>1, Products
  <1>6. Gain(T - s) \in Int /\ Capacity \in Nat /\ Unit \in Nat
    <2>1. T - s \in Int
      BY <1>2
    <2> QED BY <2>1, Products, Sizes DEF RateInv
  <1>7. Worth(m) > Capacity + Gain(T - s) - Unit
    BY <1>1, <1>2, <1>4, <1>5, <1>6
  <1>8. clock' = clock /\ Capacity' = Capacity
    BY DEF Decides, Capacity
  <1> QED BY <1>1, <1>2, <1>4, <1>7, <1>8 DEF RefusedFor

\* A request that was not overtaken.
LEMMA RefusedSpent ==
  ASSUME RateInv, NEW c \in Client, NEW now \in 0..clock, NEW b, Finds(c, now, b), b.tokens < Unit,
         granted[c][now + 1] = 0
  PROVE  \E s \in 0..now : Worth(GrantedSince(c, s)) > Capacity + Gain(now - s) - Unit
  <1>1. /\ MaxClock \in Nat /\ now \in Nat /\ now <= MaxClock /\ clock <= MaxClock
        /\ Capacity \in Nat /\ Unit \in Nat \ {0} /\ Capacity >= Unit
    BY Times, Sizes DEF RateInv
  <1>2. PICK C \in Nat, u \in Nat, k \in Int, gn \in Int : C = Capacity /\ u = Unit /\ k = b.tokens /\ gn = Gain(now) /\ u <= C
    <2>1. now \in Int
      BY <1>1
    <2> QED BY <1>1, <2>1, Products DEF Finds
  <1>3. c \in DOMAIN buckets /\ Level(buckets[c]) = k - gn
    BY <1>2 DEF Finds, Level
  <1>4. PICK s \in 0..MaxClock : /\ Since(c, s) > 0
                                 /\ Level(buckets[c]) >= Capacity - Gain(s) - Worth(GrantedSince(c, s))
    BY <1>3 DEF RateInv, Anchored
  <1>5. s <= now
    <2> SUFFICES ASSUME s > now PROVE FALSE
      BY <1>1
    <2>1. now + 1 \in 0..MaxClock + 1 /\ s \in 0..MaxClock + 1 /\ now + 1 <= s
      BY <1>1, <1>4
    <2>2. Since(c, s) <= Since(c, now + 1) /\ Since(c, now + 1) = 0
      BY <2>1 DEF RateInv, Dated, Since
    <2>3. Since(c, s) \in Nat
      BY <2>1, Counts DEF RateInv
    <2> QED BY <1>4, <2>2, <2>3
  <1>6. PICK lo \in 0..MaxClock + 1 : lo = IF s > MaxWait THEN s - MaxWait ELSE 0
    BY Times DEF RateInv
  <1>7. PICK n \in Nat : n = GrantedSince(c, s)
    <2>1. Since(c, lo) \in Nat
      BY Counts DEF RateInv
    <2> QED BY <1>6, <2>1 DEF GrantedSince, Since
  <1>8. PICK gs \in Int, wn \in Int : gs = Gain(s) /\ wn = Worth(n) /\ Gain(now - s) = gn - gs
    <2>1. s \in Int /\ now \in Int
      BY <1>1
    <2>2. Gain(s) \in Int /\ Gain(now - s) = Gain(now) - Gain(s)
      BY <2>1, Products
    <2> QED BY <1>2, <2>2, Products
  <1>9. wn > C + (gn - gs) - u
    BY <1>2, <1>3, <1>4, <1>7, <1>8
  <1>10. s \in 0..now
    BY <1>1, <1>5
  <1> QED BY <1>2, <1>7, <1>8, <1>9, <1>10

LEMMA AllowKeeps == ASSUME RateInv, NEW r \in Call, allow(r) PROVE RateInv'
  <1>1. PICK c \in Client, now \in 0..clock :
          /\ calls[r].at = "waits" /\ c = calls[r].caller /\ c = calls[r].key /\ now = calls[r].now
          /\ clock - now <= MaxWait
    BY DEF allow, RateInv, RateTyped, CallKnown
  <1>2. PICK b : b = Bucket(c, now) /\ Finds(c, now, b)
    BY Found DEF RateInv
  <1>3. PICK bb : bb = [b EXCEPT !.tokens = b.tokens - Unit]
    OBVIOUS
  <1>4. PICK tok \in Int : b = [tokens |-> tok, last |-> now] /\ b.tokens = tok /\ b.last = now
    <2>1. b = [tokens |-> b.tokens, last |-> now]
      BY <1>2 DEF Bucket, Refilled, FullBucket
    <2> QED BY <1>2, <2>1 DEF Finds
  <1>5. bb.tokens = tok - Unit /\ bb.last = now
    BY <1>3, <1>4
  <1>6. /\ clock' = clock /\ limiter' = limiter /\ calls' = [calls EXCEPT ![r] = NotCalling]
        /\ \/ /\ tok >= Unit /\ buckets' = WithBucket(buckets, c, bb) /\ refused' = refused
              /\ granted' = [granted EXCEPT ![c] =
                   [t \in 0..MaxClock + 1 |-> IF t <= now THEN granted[c][t] + 1 ELSE granted[c][t]]]
           \/ /\ tok < Unit /\ buckets' = WithBucket(buckets, c, b) /\ granted' = granted
              /\ refused' = IF granted[c][now + 1] = 0 THEN {[caller |-> c, time |-> now]} ELSE {}
    <2>1. PICK q : q = calls[r]
      OBVIOUS
    <2>2. q.caller = c /\ q.key = c /\ q.now = now
      BY <1>1, <2>1
    <2>3. granted \in [Client -> [0..MaxClock + 1 -> Nat]]
      BY DEF RateInv, RateTyped
    <2> QED BY <1>2, <1>3, <1>4, <2>1, <2>2, <2>3 DEF allow, InOrder
  <1>7. Unit \in Nat \ {0} /\ Capacity \in Nat /\ granted \in [Client -> [0..MaxClock + 1 -> Nat]]
    BY Sizes DEF RateInv, RateTyped
  <1>8. PICK ok \in BOOLEAN : (ok <=> tok >= Unit) /\ Decides(c, now, b, ok)
    <2>1. CASE tok >= Unit
      <3>1. /\ buckets' = WithBucket(buckets, c, bb)
            /\ granted' = [granted EXCEPT ![c] =
                   [t \in 0..MaxClock + 1 |-> IF t <= now THEN granted[c][t] + 1 ELSE granted[c][t]]]
        BY <1>6, <1>7, <2>1
      <3>2. /\ DOMAIN buckets' = DOMAIN buckets \cup {c} /\ buckets'[c] = bb
            /\ \A k \in DOMAIN buckets : k # c => buckets'[k] = buckets[k]
        BY <3>1 DEF WithBucket
      <3>3. /\ granted' \in [Client -> [0..MaxClock + 1 -> Nat]]
            /\ \A x \in Client, s \in 0..MaxClock + 1 :
                 granted'[x][s] = IF x = c /\ s <= now THEN granted[x][s] + 1 ELSE granted[x][s]
        <4>1. PICK row : row = [t \in 0..MaxClock + 1 |-> IF t <= now THEN granted[c][t] + 1 ELSE granted[c][t]]
          OBVIOUS
        <4>2. /\ DOMAIN row = 0..MaxClock + 1
              /\ \A t \in 0..MaxClock + 1 : row[t] = IF t <= now THEN granted[c][t] + 1 ELSE granted[c][t]
          BY <4>1
        <4>3. granted[c] \in [0..MaxClock + 1 -> Nat]
          BY <1>7
        <4>4. ASSUME NEW t \in 0..MaxClock + 1 PROVE row[t] \in Nat
          <5>1. PICK n \in Nat : n = granted[c][t]
            BY <4>3
          <5> QED BY <4>2, <5>1
        <4>5. row \in [0..MaxClock + 1 -> Nat]
          <5>1. row = [t \in 0..MaxClock + 1 |-> row[t]]
            BY <4>1
          <5> QED BY <4>4, <5>1
        <4>6. granted' = [granted EXCEPT ![c] = row]
          BY <3>1, <4>1
        <4>7. granted' \in [Client -> [0..MaxClock + 1 -> Nat]]
          BY <1>7, <4>5, <4>6
        <4>8. \A x \in Client : granted'[x] = IF x = c THEN row ELSE granted[x]
          BY <1>7, <4>6
        <4> QED BY <4>2, <4>7, <4>8
      <3>4. Decides(c, now, b, TRUE)
        BY <1>4, <1>5, <1>6, <2>1, <3>2, <3>3 DEF Decides
      <3> QED BY <2>1, <3>4
    <2>2. CASE tok < Unit
      <3>1. buckets' = WithBucket(buckets, c, b) /\ granted' = granted
        BY <1>6, <1>7, <2>2
      <3>2. /\ DOMAIN buckets' = DOMAIN buckets \cup {c} /\ buckets'[c] = b
            /\ \A k \in DOMAIN buckets : k # c => buckets'[k] = buckets[k]
        BY <3>1 DEF WithBucket
      <3>3. ~(tok >= Unit)
        BY <1>7, <2>2
      <3>4. Decides(c, now, b, FALSE)
        BY <1>4, <1>6, <1>7, <3>1, <3>2, <3>3 DEF Decides
      <3> QED BY <3>3, <3>4
    <2> QED BY <1>7, <2>1, <2>2
  <1>9. \A x \in Client : (Dated(x) /\ Spent(x) /\ Rested(x) /\ Anchored(x) /\ Bounded(x))'
    BY <1>1, <1>2, <1>8, AllKept
  <1>10. Capacity' = Capacity
    BY <1>6 DEF Capacity
  <1>11. RateTyped'
    <2>1. /\ clock' \in 0..MaxClock /\ limiter' \in DOMAIN Burst
          /\ granted' \in [Client -> [0..MaxClock + 1 -> Nat]] /\ DOMAIN buckets' \subseteq Client
      BY <1>6, <1>8 DEF RateInv, RateTyped, Decides
    <2>2. ASSUME NEW k \in DOMAIN buckets'
          PROVE  buckets'[k].tokens \in Int /\ buckets'[k].tokens <= Capacity /\ buckets'[k].last \in 0..clock
      <3>1. CASE k = c
        <4>1. tok <= Capacity
          BY <1>2, <1>4 DEF Finds
        <4> QED BY <1>4, <1>7, <1>8, <3>1, <4>1 DEF Decides
      <3>2. CASE k # c
        <4>1. k \in DOMAIN buckets /\ buckets'[k] = buckets[k]
          BY <1>8, <3>2 DEF Decides
        <4> QED BY <4>1 DEF RateInv, RateTyped
      <3> QED BY <3>1, <3>2
    <2>3. calls' = [x \in Call |-> calls'[x]] /\ \A x \in Call : CallKnown(calls[x])'
      <3>1. calls = [x \in Call |-> calls[x]] /\ \A x \in Call : CallKnown(calls[x])
        BY DEF RateInv, RateTyped
      <3>2. NotCalling.at # "waits"
        BY DEF NotCalling
      <3> QED BY <1>6, <3>1, <3>2 DEF CallKnown
    <2> QED BY <1>6, <1>10, <2>1, <2>2, <2>3 DEF RateTyped
  <1>12. \A q \in refused' : RefusedFor(q)'
    <2>1. CASE refused' = refused
      BY <1>8, <2>1, RefusalsKept
    <2>2. ASSUME tok < Unit, granted' = granted, granted[c][now + 1] = 0,
                 NEW q, q = [caller |-> c, time |-> now]
          PROVE  RefusedFor(q)'
      <3>1. \E s \in 0..now : Worth(GrantedSince(c, s)) > Capacity + Gain(now - s) - Unit
        BY <1>2, <1>4, <2>2, RefusedSpent
      <3>2. PICK s \in 0..now : Worth(GrantedSince(c, s)) > Capacity + Gain(now - s) - Unit
        BY <3>1
      <3>3. GrantedSince(c, s)' = GrantedSince(c, s)
        BY <2>2 DEF GrantedSince
      <3> QED BY <1>6, <1>10, <2>2, <3>2, <3>3 DEF RefusedFor
    <2> QED BY <1>6, <2>1, <2>2
  <1> QED BY <1>9, <1>11, <1>12 DEF RateInv

LEMMA ArriveKeeps == ASSUME RateInv, NEW r \in Call, NEW c \in Client, Arrive(r, c) PROVE RateInv'
  <1>1. PICK arrival \in Arrivals(c) : calls' = [calls EXCEPT ![r] =
          [at |-> "waits", caller |-> c, now |-> clock, key |-> Key(c, arrival)]]
    BY DEF Arrive
  <1>2. Key(c, arrival) = c
    BY OwnAddress DEF Key
  <1>3. /\ clock' = clock /\ limiter' = limiter /\ buckets' = buckets /\ granted' = granted /\ refused' = refused
    BY DEF Arrive
  <1>4. clock \in 0..clock /\ clock - clock <= MaxWait
    BY Times DEF RateInv
  <1>5. calls' = [x \in Call |-> calls'[x]] /\ \A x \in Call : CallKnown(calls[x])'
    <2>1. calls = [x \in Call |-> calls[x]] /\ \A x \in Call : CallKnown(calls[x])
      BY DEF RateInv, RateTyped
    <2>2. \A x \in Call : calls'[x] = IF x = r THEN [at |-> "waits", caller |-> c, now |-> clock, key |-> c]
                                              ELSE calls[x]
      BY <1>1, <1>2, <2>1
    <2> QED BY <1>1, <1>3, <1>4, <2>1, <2>2 DEF CallKnown
  <1>6. RateTyped'
    BY <1>3, <1>5 DEF RateInv, RateTyped, Capacity
  <1> QED BY <1>3, <1>6 DEF RateInv, Dated, Spent, Rested, Anchored, Bounded, RefusedFor, Since,
                            GrantedSince, Capacity

LEMMA TickKeeps == ASSUME RateInv, Tick PROVE RateInv'
  <1>1. /\ clock' = clock + 1 /\ clock < MaxClock /\ limiter' = limiter /\ buckets' = buckets /\ calls' = calls
        /\ granted' = granted /\ refused' = refused
        /\ \A r \in Call : calls[r].at = "waits" => clock - calls[r].now < MaxWait
    BY DEF Tick
  <1>2. clock \in Nat /\ MaxWait \in Nat /\ MaxClock \in Nat
    BY Times DEF RateInv
  <1>3. ASSUME NEW r \in Call PROVE CallKnown(calls[r])'
    BY <1>1, <1>2, <1>3 DEF RateInv, RateTyped, CallKnown
  <1>4. RateTyped'
    <2>1. \A k \in DOMAIN buckets : buckets[k].last \in 0..clock + 1
      BY <1>2 DEF RateInv, RateTyped
    <2> QED BY <1>1, <1>2, <1>3, <2>1 DEF RateInv, RateTyped, Capacity
  <1>5. ASSUME NEW c \in Client PROVE (Dated(c) /\ Spent(c) /\ Rested(c) /\ Anchored(c) /\ Bounded(c))'
    <2>1. Dated(c) /\ Spent(c) /\ Rested(c) /\ Anchored(c) /\ Bounded(c)
      BY DEF RateInv
    <2>2. Dated(c)'
      BY <1>1, <1>2, <2>1 DEF Dated, Since
    <2>3. (Spent(c) /\ Anchored(c) /\ Bounded(c))'
      BY <1>1, <2>1 DEF Spent, Anchored, Bounded, Since, GrantedSince, Capacity
    <2>4. Rested(c)'
      <3>1. ASSUME c \notin DOMAIN buckets, NEW s \in 0..MaxClock + 1, Since(c, s) > 0
            PROVE  Worth(Since(c, s)) <= Gain(clock + 1 - MaxWait - s)
        <4>1. PICK d \in Int, e \in Int : d = clock - MaxWait - s /\ e = clock + 1 - MaxWait - s /\ d <= e
          BY <1>2
        <4>2. Gain(d) <= Gain(e) /\ Gain(d) \in Int /\ Gain(e) \in Int
          BY <4>1, Products
        <4>3. PICK n \in Nat : n = Since(c, s)
          BY Counts DEF RateInv
        <4>4. Worth(n) \in Int
          <5>1. n \in Int
            OBVIOUS
          <5> QED BY <5>1, Products
        <4>5. Worth(n) <= Gain(d)
          BY <2>1, <3>1, <4>1, <4>3 DEF Rested
        <4> QED BY <4>1, <4>2, <4>3, <4>4, <4>5
      <3>2. ASSUME c \notin DOMAIN buckets', NEW s \in 0..MaxClock + 1, granted'[c][s] > 0
            PROVE  Worth(granted'[c][s]) <= Gain(clock' - MaxWait - s)
        <4>1. PICK e \in Int : e = clock + 1 - MaxWait - s
          BY <1>2
        <4>2. PICK n : n = granted[c][s]
          OBVIOUS
        <4>3. granted'[c][s] = n
          BY <1>1, <4>2
        <4>4. clock' - MaxWait - s = e
          BY <1>1, <1>2, <4>1
        <4>5. n > 0 /\ c \notin DOMAIN buckets
          BY <1>1, <3>2, <4>3
        <4>6. Worth(n) <= Gain(e)
          BY <3>1, <3>2, <4>1, <4>2, <4>5 DEF Since
        <4> QED BY <4>3, <4>6, <4>4
      <3> QED BY <3>2 DEF Rested, Since
    <2> QED BY <2>2, <2>3, <2>4
  <1>6. ASSUME NEW q \in refused PROVE RefusedFor(q)'
    <2>1. RefusedFor(q)
      BY DEF RateInv
    <2>2. q.time \in 0..clock + 1
      BY <1>2, <2>1 DEF RefusedFor
    <2> QED BY <1>1, <2>1, <2>2 DEF RefusedFor, GrantedSince, Capacity
  <1> QED BY <1>1, <1>4, <1>5, <1>6 DEF RateInv

LEMMA ReapKeeps == ASSUME RateInv, reap PROVE RateInv'
  <1>1. /\ clock' = clock /\ limiter' = limiter /\ calls' = calls /\ granted' = granted /\ refused' = refused
        /\ buckets' = [k \in {x \in DOMAIN buckets : ~IdleBucket(x)} |-> buckets[k]]
    BY DEF reap
  <1>2. /\ \A k \in DOMAIN buckets' : k \in DOMAIN buckets /\ buckets'[k] = buckets[k]
        /\ \A k \in DOMAIN buckets : k \notin DOMAIN buckets' => buckets[k].last < clock - ReapAfter
    BY <1>1 DEF IdleBucket
  <1>3. RateTyped'
    <2>1. \A r \in Call : CallKnown(calls[r])'
      BY <1>1 DEF RateInv, RateTyped, CallKnown
    <2>2. DOMAIN buckets' \subseteq Client
      BY <1>2 DEF RateInv, RateTyped
    <2>3. \A k \in DOMAIN buckets' : buckets'[k].tokens \in Int /\ buckets'[k].tokens <= Capacity
                                     /\ buckets'[k].last \in 0..clock
      BY <1>2 DEF RateInv, RateTyped
    <2> QED BY <1>1, <2>1, <2>2, <2>3 DEF RateInv, RateTyped, Capacity
  <1>4. ASSUME NEW c \in Client PROVE (Dated(c) /\ Spent(c) /\ Rested(c) /\ Anchored(c) /\ Bounded(c))'
    <2>1. Dated(c) /\ Spent(c) /\ Rested(c) /\ Anchored(c) /\ Bounded(c)
      BY DEF RateInv
    <2>2. Dated(c)'
      BY <1>1, <1>2, <2>1 DEF Dated, Since
    <2>3. Spent(c)' /\ Bounded(c)'
      BY <1>1, <1>2, <2>1 DEF Spent, Bounded, Since, Capacity
    <2>4. Anchored(c)'
      BY <1>1, <1>2, <2>1 DEF Anchored, Since, GrantedSince, Capacity
    <2>5. Rested(c)'
      <3>1. CASE c \notin DOMAIN buckets
        BY <1>1, <2>1, <3>1 DEF Rested, Since
      <3>2. CASE c \in DOMAIN buckets'
        BY <3>2 DEF Rested
      <3>3. ASSUME c \in DOMAIN buckets, c \notin DOMAIN buckets', NEW s \in 0..MaxClock + 1, Since(c, s) > 0
            PROVE  Worth(Since(c, s)) <= Gain(clock - MaxWait - s)
        <4>1. PICK last \in Nat : last = buckets[c].last /\ last < clock - ReapAfter
          BY <1>2, <3>3, Times DEF RateInv, RateTyped
        <4>2. /\ MaxWait \in Nat /\ ReapAfter \in Nat /\ clock \in Nat /\ MaxClock \in Nat /\ clock <= MaxClock
              /\ 2 * MaxWait < ReapAfter /\ Capacity \in Nat /\ Capacity <= Gain(ReapAfter - 2 * MaxWait)
          BY Sizes, Times DEF RateInv
        <4>3. PICK t \in 0..MaxClock : t = last + MaxWait /\ t < clock
          BY <4>1, <4>2
        <4>4. s \in 0..MaxClock /\ t \in s..MaxClock /\ t + 1 \in 0..MaxClock + 1 /\ s <= t
          <5>1. s <= t
            BY <2>1, <3>3, <4>1, <4>3 DEF Dated
          <5> QED BY <4>2, <4>3, <5>1
        <4>5. Since(c, t + 1) = 0
          <5>1. Since(c, t + 1) \in Nat
            BY <4>4, Counts DEF RateInv
          <5>2. ~(Since(c, t + 1) > 0)
            BY <2>1, <3>3, <4>1, <4>3, <4>4 DEF Dated
          <5> QED BY <5>1, <5>2
        <4>6. PICK n \in Nat : n = Since(c, s)
          BY Counts DEF RateInv
        <4>7. Worth(n) <= Capacity + Gain(t - s)
          <5>1. Worth(Since(c, s) - Since(c, t + 1)) <= Capacity + Gain(t - s)
            BY <2>1, <4>4 DEF Bounded
          <5>2. Since(c, s) - Since(c, t + 1) = n
            BY <4>5, <4>6
          <5> QED BY <5>1, <5>2
        <4>8. PICK d \in Int, e \in Int, f \in Int :
                d = ReapAfter - 2 * MaxWait /\ e = t - s /\ f = clock - MaxWait - s /\ d + e <= f /\ d + e \in Int
          <5>1. PICK d \in Int : d = ReapAfter - 2 * MaxWait
            BY <4>2
          <5>2. PICK e \in Int : e = t - s
            BY <4>3, <4>4
          <5>3. PICK f \in Int : f = clock - MaxWait - s
            BY <4>1, <4>2, <4>4
          <5>4. d + e <= f /\ d + e \in Int
            BY <4>1, <4>2, <4>3, <4>4, <5>1, <5>2, <5>3
          <5> QED BY <5>1, <5>2, <5>3, <5>4
        <4>9. Gain(d) + Gain(e) <= Gain(f) /\ Gain(d) \in Int /\ Gain(e) \in Int /\ Gain(f) \in Int
          <5>1. Gain(d + e) = Gain(d) + Gain(e) /\ Gain(d) \in Int /\ Gain(e) \in Int /\ Gain(f) \in Int
            BY Products
          <5>2. Gain(d + e) <= Gain(f)
            BY <4>8, Products
          <5> QED BY <5>1, <5>2
        <4>10. Worth(n) \in Int
          BY Products
        <4> QED BY <4>2, <4>6, <4>7, <4>8, <4>9, <4>10
      <3>4. ASSUME c \in DOMAIN buckets, c \notin DOMAIN buckets' PROVE Rested(c)'
        BY <1>1, <3>3, <3>4 DEF Rested, Since
      <3> QED BY <3>1, <3>2, <3>4
    <2> QED BY <2>2, <2>3, <2>4, <2>5
  <1>5. \A q \in refused' : RefusedFor(q)'
    BY <1>1 DEF RateInv, RefusedFor, GrantedSince, Capacity
  <1> QED BY <1>3, <1>4, <1>5 DEF RateInv

LEMMA RateStart == RateInit => RateInv
  <1> SUFFICES ASSUME RateInit PROVE RateInv
    OBVIOUS
  <1>1. /\ clock = 0 /\ limiter \in DOMAIN Burst /\ DOMAIN buckets = {} /\ calls = [r \in Call |-> NotCalling]
        /\ granted = [c \in Client |-> [t \in 0..MaxClock + 1 |-> 0]] /\ refused = {}
    BY DEF RateInit
  <1>2. MaxClock \in Nat /\ NotCalling.at # "waits"
    BY RateAssumption DEF NotCalling
  <1>3. RateTyped
    BY <1>1, <1>2 DEF RateTyped, CallKnown
  <1>4. \A c \in Client, s \in 0..MaxClock + 1 : Since(c, s) = 0
    BY <1>1 DEF Since
  <1>5. ASSUME NEW c \in Client PROVE Bounded(c)
    <2> SUFFICES ASSUME NEW s \in 0..MaxClock, NEW t \in s..MaxClock
                 PROVE  Worth(Since(c, s) - Since(c, t + 1)) <= Capacity + Gain(t - s)
      BY DEF Bounded
    <2>1. s \in 0..MaxClock + 1 /\ t + 1 \in 0..MaxClock + 1 /\ t - s \in Int /\ 0 <= t - s
      BY <1>2
    <2>2. Since(c, s) - Since(c, t + 1) = 0
      BY <1>4, <2>1
    <2>3. Gain(0) <= Gain(t - s) /\ Gain(t - s) \in Int /\ Gain(0) = 0 /\ Worth(0) = 0
      BY <2>1, Products
    <2>4. Capacity \in Nat
      BY <1>3, Sizes
    <2> QED BY <2>2, <2>3, <2>4
  <1>6. ASSUME NEW c \in Client PROVE Dated(c) /\ Spent(c) /\ Rested(c) /\ Anchored(c)
    BY <1>1, <1>4 DEF Dated, Spent, Rested, Anchored
  <1> QED BY <1>1, <1>3, <1>5, <1>6 DEF RateInv

LEMMA RateStep == RateInv /\ [RateNext]_rateVars => RateInv'
  <1> SUFFICES ASSUME RateInv, [RateNext]_rateVars PROVE RateInv'
    OBVIOUS
  <1>1. CASE UNCHANGED rateVars
    BY <1>1 DEF rateVars, RateInv, RateTyped, CallKnown, Dated, Spent, Rested, Anchored, Bounded, RefusedFor,
                Since, GrantedSince, Capacity
  <1> QED BY <1>1, AllowKeeps, ArriveKeeps, TickKeeps, ReapKeeps DEF RateNext

\* The limiter's state has the shape that ratelimit.go gives it, and no bucket holds more than the
\* burst or was used in the future.
THEOREM RateTypesHold == RateSpec => []RateTypeOK
  <1>1. RateInv => RateTypeOK
    BY DEF RateInv, RateTyped, RateTypeOK
  <1> QED BY <1>1, RateStart, RateStep, PTL DEF RateSpec

\* A caller gets its share of requests, no more and no less (ratelimit.go, allow): between any two
\* times at most the burst and what was refilled, although requests are charged out of their order
\* and idle buckets are dropped, and a request that was not overtaken is refused only if the caller
\* has used that much itself.
THEOREM SharesAreFair == RateSpec => []RateFair
  <1>1. ASSUME RateInv PROVE RateFair
    <2>1. RateHolds
      <3> SUFFICES ASSUME NEW c \in Client, NEW s \in 0..clock, NEW t \in s..clock
                   PROVE  Granted(c, s, t) * Unit <= Capacity + (t - s) * Refill
        BY DEF RateHolds
      <3>1. s \in 0..MaxClock /\ t \in s..MaxClock
        BY <1>1, Times DEF RateInv
      <3> QED BY <1>1, <3>1 DEF RateInv, Bounded, Granted, Since, Worth, Gain
    <2>2. RefusedWhenSpent
      BY <1>1 DEF RateInv, RefusedFor, RefusedWhenSpent, Worth, Gain
    <2> QED BY <2>1, <2>2 DEF RateFair
  <1> QED BY <1>1, RateStart, RateStep, PTL DEF RateSpec

=============================================================================
