-------------------------- MODULE Background_proofs --------------------------
(***************************************************************************)
(* Proofs about what is done in the background, for any devices, owners,   *)
(* pictures, documents, chunks and files and any bounds: the update of the *)
(* client, metering, web push, vectors, selective sync, the variants of    *)
(* pictures and the transfers of a device each keep an invariant of their  *)
(* own, and at the end the properties of the whole follow from these.      *)
(***************************************************************************)
EXTENDS MCBackground, FiniteSetTheorems, SequenceTheorems, TLAPS

(***************************************************************************)
(* The storage tiers: no demotion, promotion, restore, crash or truncated  *)
(* PUT loses stored content, and a row that says 'cold' is right, as long  *)
(* as no chunk is uploaded again once it was collected.                    *)
(***************************************************************************)

\* The default values belong to their types.
LEMMA Defaults ==
  /\ AnyKey \in Key
  /\ NewRow \in Row /\ NewRow.tier = "hot"
  /\ NoDownload \in Download
  /\ NoSweep \in SweepRun /\ NoSweep.pc = "idle"
  /\ NoTask.pc = "idle" /\ \A steps : NoTask \in Task(steps)
  <1>1. AnyKey \in Key
    BY TierAssumption DEF AnyKey
  <1> QED BY <1>1 DEF NewRow, Row, NoDownload, Download, Answer, Again, NoSweep, SweepRun,
                      Copy, NoTask, Task

LEMMA BegunType ==
  ASSUME TypeOK, NEW ks
  PROVE  /\ Begun(ks) \in [Key -> {"none", "begun", "copying"}]
         /\ \A k \in Key : Begun(ks)[k] # "none" => inflight[k] # "none" \/ hot[k] = "none"
  BY DEF TypeOK, Begun

LEMMA EndsType ==
  ASSUME NEW d \in Download, NEW what \in Answer
  PROVE  Ends(d, what) \in Download
  BY Defaults DEF Ends, Download

LEMMA TakenType ==
  ASSUME NEW d \in Download, NEW k \in Key
  PROVE  Taken(d, k) \in Download
  BY EndsType DEF Taken, Download, Answer

LEMMA TimedOutType ==
  ASSUME NEW d \in Download
  PROVE  TimedOut(d) \in Download
  <1>1. Ends(d, "restoring") \in Download /\ Ends(d, "broken") \in Download
    BY EndsType DEF Answer, Again
  <1>2. [d EXCEPT !.pc = "warm", !.slow = TRUE] \in Download
    BY DEF Download
  <1> QED BY <1>1, <1>2 DEF TimedOut

LEMMA WakeType ==
  ASSUME TypeOK, NEW k \in Key, NEW o \in {"ok", "lost", "failed"}, Wake(k, o)
  PROVE  /\ rd' \in [Reader -> Download]
         /\ inflight' \in [Key -> {"none", "begun", "copying"}]
         /\ \A j \in Key : inflight'[j] # "none" => inflight[j] # "none"
  <1>1. ASSUME NEW d \in Download PROVE Woken(d, o) \in Download
    <2>1. CASE o = "ok"
      BY <2>1 DEF Woken, Download
    <2>2. CASE o # "ok"
      BY <2>2, EndsType DEF Woken, Answer, Again
    <2> QED BY <2>1, <2>2
  <1> QED BY <1>1 DEF TypeOK, Wake

-----------------------------------------------------------------------------
(* Type correctness                                                        *)

LEMMA TypeInit == Init => TypeOK
  BY Defaults, TierAssumption DEF Init, TypeOK, Copy

LEMMA FaultType == ASSUME TypeOK, Fault PROVE faults' \in 0..MaxFault
  BY TierAssumption DEF TypeOK, Fault

LEMMA SweepType ==
  ASSUME TypeOK, NEW s \in Sweeper, SweepStep(s) \/ SweepFails(s) \/ SweepDies(s)
  PROVE  TypeOK'
  <1>1. CASE Candidates(s)
    BY <1>1 DEF TypeOK, Candidates, SweepRun
  <1>2. CASE PutCold(s)
    <2>1. sweep[s] \in SweepRun /\ sweep[s].key \in Key
      BY DEF TypeOK, SweepRun
    <2>2. sweep' \in [Sweeper -> SweepRun]
      BY <1>2, <2>1 DEF TypeOK, PutCold, GivesUp, SweepRun
    <2>3. cold' \in [Key -> Copy]
      BY <1>2, <2>1 DEF TypeOK, PutCold, Copy
    <2>4. faults' \in 0..MaxFault
      BY <1>2, FaultType DEF TypeOK, PutCold
    <2> QED BY <1>2, <2>2, <2>3, <2>4 DEF TypeOK, PutCold
  <1>3. CASE ReadBack(s)
    BY <1>3 DEF TypeOK, ReadBack, SweepRun
  <1>4. CASE DeleteHot(s)
    BY <1>4 DEF TypeOK, DeleteHot, SweepRun, Copy
  <1>5. CASE MarkCold(s)
    <2>1. sweep' \in [Sweeper -> SweepRun]
      BY <1>5 DEF TypeOK, MarkCold, GivesUp, SweepRun
    <2>2. row' \in [Key -> Row]
      BY <1>5 DEF TypeOK, MarkCold, Row
    <2> QED BY <1>5, <2>1, <2>2 DEF TypeOK, MarkCold
  <1>6. CASE SweepEnds(s)
    BY <1>6, Defaults DEF TypeOK, SweepEnds
  <1>7. CASE \E k \in Key : DigestLocal(s, k)
    <2>1. PICK k \in Key : DigestLocal(s, k)
      BY <1>7
    <2>2. sweep' \in [Sweeper -> SweepRun]
      <3>1. sweep[s] \in SweepRun /\ hot[k] \in Copy
        BY DEF TypeOK
      <3>2. [sweep[s] EXCEPT !.todo = @ \ {k}, !.key = k, !.want = hot[k],
                             !.pc = IF hot[k] = "none" THEN "next" ELSE "put"] \in SweepRun
        BY <3>1 DEF SweepRun
      <3> QED BY <2>1, <3>2 DEF TypeOK, DigestLocal
    <2> QED BY <2>1, <2>2 DEF TypeOK, DigestLocal
  <1>8. CASE SweepFails(s)
    BY <1>8, FaultType DEF TypeOK, SweepFails, GivesUp, SweepRun
  <1>9. CASE SweepDies(s)
    BY <1>9, FaultType, Defaults DEF TypeOK, SweepDies
  <1> QED BY <1>1, <1>2, <1>3, <1>4, <1>5, <1>6, <1>7, <1>8, <1>9 DEF SweepStep

LEMMA ReadType ==
  ASSUME TypeOK, NEW r \in Reader, Ask(r) \/ ReadStep(r) \/ RestoreWait(r)
  PROVE  TypeOK'
  <1> USE DEF TypeOK
  <1>0. rd[r] \in Download
    OBVIOUS
  <1>1. CASE Ask(r)
    <2>1. PICK f \in File : OpenBlob(r, f) \/ WarmManifest(r, f)
      BY <1>1 DEF Ask
    <2>2. f \subseteq Key
      BY TierAssumption DEF File
    <2>3. CASE OpenBlob(r, f)
      BY <2>2, <2>3, Defaults DEF OpenBlob, Download
    <2>4. CASE WarmManifest(r, f)
      BY <2>2, <2>4, Defaults, BegunType DEF WarmManifest, Download
    <2> QED BY <2>1, <2>3, <2>4
  <1>2. CASE WarmEnds(r)
    <2>1. rd' \in [Reader -> Download]
      <3>1. Ends(rd[r], "restoring") \in Download
        BY <1>0, EndsType DEF Answer, Again
      <3>2. [rd[r] EXCEPT !.pc = "stream"] \in Download
        BY <1>0 DEF Download
      <3> QED BY <1>2, <3>1, <3>2 DEF WarmEnds, Says
    <2> QED BY <1>2, <2>1 DEF WarmEnds
  <1>3. CASE Reopen(r)
    <2>1. rd[r].key \in Key /\ "lost" \in Answer
      BY <1>0 DEF Download, Answer
    <2> QED BY <1>0, <1>3, <2>1, TakenType, EndsType DEF Reopen
  <1>4. CASE Served(r)
    BY <1>0, <1>4, EndsType DEF Served, Says, Answer
  <1>5. CASE OpenGone(r)
    BY <1>0, <1>5, EndsType DEF OpenGone, Says, Answer
  <1>6. CASE \E k \in Key : Warm(r, k)
    <2>1. PICK k \in Key : Warm(r, k)
      BY <1>6
    <2>2. [rd[r] EXCEPT !.warm = @ \ {k}, !.key = k,
                        !.pc = IF hot[k] = "none" THEN "wait" ELSE "warm"] \in Download
      BY <1>0 DEF Download
    <2>3. rd' \in [Reader -> Download]
      BY <2>1, <2>2 DEF Warm
    <2> QED BY <2>1, <2>3, BegunType DEF Warm
  <1>7. CASE \E k \in Key : Open(r, k)
    <2>1. PICK k \in Key : Open(r, k)
      BY <1>7
    <2>2. Taken(rd[r], k) \in Download
      BY <1>0, TakenType
    <2>3. [rd[r] EXCEPT !.pc = "late", !.key = k] \in Download
      BY <1>0 DEF Download
    <2>4. rd' \in [Reader -> Download]
      BY <2>1, <2>2, <2>3 DEF Open
    <2> QED BY <2>1, <2>4, BegunType DEF Open
  <1>8. CASE RestoreWait(r)
    BY <1>0, <1>8, TimedOutType DEF RestoreWait
  <1> QED BY <1>1, <1>2, <1>3, <1>4, <1>5, <1>6, <1>7, <1>8 DEF ReadStep

LEMMA PromoteType ==
  ASSUME TypeOK, NEW k \in Key, Promote(k) \/ PromoteFails(k)
  PROVE  TypeOK'
  <1>1. CASE PromoteOpen(k)
    <2>1. CASE cold[k] = "none"
      BY <1>1, <2>1, WakeType DEF TypeOK, PromoteOpen
    <2>2. CASE cold[k] # "none"
      BY <1>1, <2>2 DEF TypeOK, PromoteOpen
    <2> QED BY <2>1, <2>2
  <1>2. CASE PromoteCopy(k)
    <2>1. hot' \in [Key -> Copy]
      BY <1>2 DEF TypeOK, PromoteCopy
    <2>2. rd' \in [Reader -> Download] /\ inflight' \in [Key -> {"none", "begun", "copying"}]
      BY <1>2, WakeType DEF PromoteCopy
    <2> QED BY <1>2, <2>1, <2>2 DEF TypeOK, PromoteCopy
  <1>3. CASE PromoteFails(k)
    BY <1>3, WakeType, FaultType DEF TypeOK, PromoteFails
  <1> QED BY <1>1, <1>2, <1>3 DEF Promote

LEMMA OtherType ==
  ASSUME TypeOK,
         \/ \E k \in Key : \/ RestoreWarm(k) \/ Unreferenced(k) \/ DeleteRow(k)
                           \/ FsckRepair(k) \/ PutStat(k) \/ Ages(k)
         \/ Restart \/ MarkHot \/ GcHot \/ GcCold \/ GcFails \/ PutWrite \/ PutRow
  PROVE  TypeOK'
  <1>1. CASE \E k \in Key : RestoreWarm(k)
    <2>1. PICK k \in Key : RestoreWarm(k)
      BY <1>1
    <2>2. hot' \in [Key -> Copy]
      BY <2>1 DEF TypeOK, RestoreWarm
    <2> QED BY <2>1, <2>2 DEF TypeOK, RestoreWarm, Task
  <1>2. CASE \E k \in Key : Unreferenced(k) \/ Ages(k)
    <2>1. PICK k \in Key : Unreferenced(k) \/ Ages(k)
      BY <1>2
    <2>2. row[k] \in Row
      BY DEF TypeOK
    <2>3. [row[k] EXCEPT !.refs = FALSE] \in Row /\ [row[k] EXCEPT !.idle = TRUE] \in Row
      BY <2>2 DEF Row
    <2>4. row' \in [Key -> Row]
      BY <2>1, <2>3 DEF TypeOK, Unreferenced, Ages
    <2> QED BY <2>1, <2>4 DEF TypeOK, Unreferenced, Ages
  <1>3. CASE \E k \in Key : DeleteRow(k)
    <2>1. PICK k \in Key : DeleteRow(k)
      BY <1>3
    <2>2. row' \in [Key -> Row]
      BY <2>1 DEF TypeOK, DeleteRow, Row
    <2>3. gc' \in Task({"hot", "cold"})
      BY <2>1 DEF DeleteRow, Task
    <2> QED BY <2>1, <2>2, <2>3 DEF TypeOK, DeleteRow
  <1>4. CASE \E k \in Key : FsckRepair(k)
    BY <1>4 DEF TypeOK, FsckRepair, Copy
  <1>5. CASE \E k \in Key : PutStat(k)
    BY <1>5 DEF TypeOK, PutStat, Task
  <1>6. CASE Restart
    BY <1>6, FaultType, Defaults DEF TypeOK, Restart
  <1>7. CASE MarkHot
    BY <1>7, Defaults DEF TypeOK, MarkHot, MadeHot, Row
  <1>8. CASE GcHot
    BY <1>8 DEF TypeOK, GcHot, Task, Copy
  <1>9. CASE GcCold
    BY <1>9, Defaults DEF TypeOK, GcCold, Copy
  <1>10. CASE GcFails
    BY <1>10, FaultType, Defaults DEF TypeOK, GcFails
  <1>11. CASE PutWrite
    BY <1>11 DEF TypeOK, PutWrite, Task, Copy
  <1>12. CASE PutRow
    <2>1. row' \in [Key -> Row]
      BY <1>12, Defaults DEF TypeOK, PutRow, Row
    <2> QED BY <1>12, <2>1, Defaults DEF TypeOK, PutRow
  <1> QED BY <1>1, <1>2, <1>3, <1>4, <1>5, <1>6, <1>7, <1>8, <1>9, <1>10, <1>11, <1>12

LEMMA TypeStep == TypeOK /\ [Next]_vars => TypeOK'
  <1> SUFFICES ASSUME TypeOK, [Next]_vars PROVE TypeOK'
    OBVIOUS
  <1>1. CASE UNCHANGED vars
    BY <1>1 DEF TypeOK, vars
  <1>2. CASE Next
    BY <1>2, SweepType, ReadType, PromoteType, OtherType DEF Next
  <1> QED BY <1>1, <1>2

\* Every copy, row, promotion, download, sweep and task stays within its type; in
\* particular no path writes a third tier or a copy that was never made.
THEOREM TypeCorrect == Spec => []TypeOK
  BY TypeInit, TypeStep, PTL DEF Spec

-----------------------------------------------------------------------------
(* Nothing is lost                                                         *)

\* The local copy of stored content is never the damaged one.
LocalIsGood == \A k \in Key : row[k].there => hot[k] # "bad"

\* What a sweep has established about the key that it is moving: the digest that
\* it took is that of the content, and past the read-back so is the object's.
SweepKnows == \A s \in Sweeper : row[sweep[s].key].there =>
  /\ sweep[s].pc \in {"put", "check"} => sweep[s].want = "good"
  /\ sweep[s].pc \in {"delete", "mark"} => cold[sweep[s].key] = "good"

\* A promotion was begun because the pool had no copy, so the bucket has one.
PromotionHasSource ==
  \A k \in Key : row[k].there /\ inflight[k] # "none" => cold[k] = "good"

\* The collector deletes the bytes of rows that are gone, and they stay gone.
CollectsTheGone == (gc.pc # "idle" => ~row[gc.key].there) /\ put.pc = "idle"

Kept == Durable /\ ColdIsInBucket /\ LocalIsGood /\ SweepKnows /\ PromotionHasSource
          /\ CollectsTheGone

\* Kept speaks of these variables only.
StoreState == <<hot, cold, row, inflight, sweep, gc, put>>

LEMMA KeptInit == Init => Kept
  <1> SUFFICES ASSUME Init PROVE Kept
    OBVIOUS
  <1>1. Durable /\ ColdIsInBucket /\ LocalIsGood
    BY Defaults DEF Init, Durable, ColdIsInBucket, LocalIsGood
  <1>2. SweepKnows /\ PromotionHasSource /\ CollectsTheGone
    BY Defaults DEF Init, SweepKnows, PromotionHasSource, CollectsTheGone
  <1> QED BY <1>1, <1>2 DEF Kept

LEMMA KeptStutter == ASSUME Kept, UNCHANGED StoreState PROVE Kept'
  BY DEF Kept, Durable, ColdIsInBucket, LocalIsGood, SweepKnows, PromotionHasSource,
         CollectsTheGone, StoreState

\* A step that leaves the bytes and the rows alone, moves a sweep only to what it
\* may claim, and begins promotions only where the pool has no copy.
LEMMA KeptQuiet ==
  ASSUME Kept, TypeOK, UNCHANGED <<hot, cold, row, put>>, SweepKnows',
         \A k \in Key : inflight'[k] # "none" => inflight[k] # "none" \/ hot[k] = "none",
         gc'.pc # "idle" => gc' = gc
  PROVE  Kept'
  <1>1. Durable' /\ ColdIsInBucket' /\ LocalIsGood'
    BY DEF Kept, Durable, ColdIsInBucket, LocalIsGood
  <1>2. PromotionHasSource'
    BY DEF Kept, Durable, PromotionHasSource
  <1>3. CollectsTheGone'
    BY DEF Kept, CollectsTheGone
  <1> QED BY <1>1, <1>2, <1>3 DEF Kept

LEMMA KeptSweep ==
  ASSUME Kept, TypeOK, NEW s \in Sweeper, SweepStep(s) \/ SweepFails(s) \/ SweepDies(s)
  PROVE  Kept'
  <1> DEFINE k == sweep[s].key
  <1>0. k \in Key /\ sweep[s] \in SweepRun
    BY DEF TypeOK, SweepRun
  <1>1. CASE Candidates(s)
    <2>1. SweepKnows'
      BY <1>1 DEF Candidates, Kept, SweepKnows, TypeOK, SweepRun
    <2> QED BY <1>1, <2>1, KeptQuiet DEF Candidates
  <1>2. CASE PutCold(s)
    <2>1. CASE hot[k] = "none" \/ cold[k] # "none"
      <3>1. UNCHANGED cold
        BY <1>0, <1>2, <2>1 DEF PutCold, TypeOK
      <3>2. SweepKnows'
        BY <1>2, <3>1 DEF PutCold, GivesUp, Kept, SweepKnows, TypeOK, SweepRun
      <3> QED BY <1>2, <3>1, <3>2, KeptQuiet DEF PutCold
    <2>2. CASE hot[k] # "none" /\ cold[k] = "none"
      <3>1. UNCHANGED <<hot, row, inflight, gc, put>>
        BY <1>2 DEF PutCold
      <3>2. \A j \in Key : j # k => cold'[j] = cold[j]
        BY <1>2 DEF PutCold, TypeOK
      <3>3. sweep' = [sweep EXCEPT ![s].pc = "check"] /\ sweep[s].pc = "put"
        BY <1>2, <2>2 DEF PutCold
      <3>4. Durable'
        BY <1>0, <2>2, <3>1, <3>2 DEF Kept, Durable, LocalIsGood, TypeOK, Copy
      <3>5. ColdIsInBucket' /\ PromotionHasSource'
        BY <1>0, <2>2, <3>1, <3>2 DEF Kept, ColdIsInBucket, PromotionHasSource
      <3>6. SweepKnows'
        <4> SUFFICES ASSUME NEW t \in Sweeper, row'[sweep'[t].key].there
                     PROVE  /\ sweep'[t].pc \in {"put", "check"} => sweep'[t].want = "good"
                            /\ sweep'[t].pc \in {"delete", "mark"} => cold'[sweep'[t].key] = "good"
          BY DEF SweepKnows
        <4>1. sweep'[t].key = sweep[t].key /\ sweep'[t].want = sweep[t].want
          BY <3>3 DEF TypeOK, SweepRun
        <4>2. CASE t = s
          BY <3>1, <3>3, <4>1, <4>2 DEF Kept, SweepKnows, TypeOK, SweepRun
        <4>3. CASE t # s
          <5>1. sweep'[t] = sweep[t] /\ sweep[t].key \in Key
            BY <3>3, <4>3 DEF TypeOK, SweepRun
          <5>2. sweep[t].pc \in {"delete", "mark"} => sweep[t].key # k
            BY <2>2, <3>1, <5>1 DEF Kept, SweepKnows
          <5> QED BY <3>1, <3>2, <5>1, <5>2 DEF Kept, SweepKnows
        <4> QED BY <4>2, <4>3
      <3>7. LocalIsGood' /\ CollectsTheGone'
        BY <3>1 DEF Kept, LocalIsGood, CollectsTheGone
      <3> QED BY <3>4, <3>5, <3>6, <3>7 DEF Kept
    <2> QED BY <2>1, <2>2
  <1>3. CASE ReadBack(s)
    <2>1. SweepKnows'
      BY <1>3 DEF ReadBack, Matches, Kept, SweepKnows, TypeOK, SweepRun
    <2> QED BY <1>3, <2>1, KeptQuiet DEF ReadBack
  <1>4. CASE DeleteHot(s)
    <2>1. row[k].there => cold[k] = "good"
      BY <1>4 DEF DeleteHot, Kept, SweepKnows
    <2>2. /\ UNCHANGED <<cold, row, inflight, gc, put>>
          /\ \A j \in Key : hot'[j] = IF j = k THEN "none" ELSE hot[j]
      BY <1>4 DEF DeleteHot, TypeOK
    <2>3. Durable' /\ LocalIsGood'
      BY <2>1, <2>2 DEF Kept, Durable, LocalIsGood
    <2>4. SweepKnows'
      BY <1>4, <2>1 DEF DeleteHot, Kept, SweepKnows, TypeOK, SweepRun
    <2>5. ColdIsInBucket' /\ PromotionHasSource' /\ CollectsTheGone'
      BY <2>2 DEF Kept, ColdIsInBucket, PromotionHasSource, CollectsTheGone
    <2> QED BY <2>3, <2>4, <2>5 DEF Kept
  <1>5. CASE MarkCold(s)
    <2>1. row[k].there => cold[k] = "good"
      BY <1>5 DEF MarkCold, Kept, SweepKnows
    <2>2. UNCHANGED <<hot, cold, inflight, gc, put>>
      BY <1>5 DEF MarkCold
    <2>3. \A j \in Key : /\ row'[j].there = row[j].there
                         /\ row'[j].tier = "cold" => row[j].tier = "cold" \/ j = k
      BY <1>0, <1>5 DEF MarkCold, TypeOK, Row
    <2>4. Durable' /\ LocalIsGood' /\ PromotionHasSource'
      BY <2>2, <2>3 DEF Kept, Durable, LocalIsGood, PromotionHasSource
    <2>5. ColdIsInBucket'
      BY <2>1, <2>2, <2>3 DEF Kept, ColdIsInBucket
    <2>6. CollectsTheGone'
      <3>1. gc.key \in Key
        BY DEF TypeOK, Task
      <3> QED BY <2>2, <2>3, <3>1 DEF Kept, CollectsTheGone
    <2>7. SweepKnows'
      <3> SUFFICES ASSUME NEW t \in Sweeper, row'[sweep'[t].key].there
                   PROVE  /\ sweep'[t].pc \in {"put", "check"} => sweep'[t].want = "good"
                          /\ sweep'[t].pc \in {"delete", "mark"} => cold'[sweep'[t].key] = "good"
        BY DEF SweepKnows
      <3>1. /\ sweep'[t].key = sweep[t].key /\ sweep'[t].want = sweep[t].want
            /\ sweep[t].key \in Key
            /\ sweep'[t].pc = sweep[t].pc \/ sweep'[t].pc = "next"
        BY <1>5 DEF MarkCold, GivesUp, TypeOK, SweepRun
      <3> QED BY <2>2, <2>3, <3>1 DEF Kept, SweepKnows
    <2> QED BY <2>4, <2>5, <2>6, <2>7 DEF Kept
  <1>6. CASE SweepEnds(s)
    <2>1. SweepKnows'
      BY <1>6, Defaults DEF SweepEnds, Kept, SweepKnows, TypeOK
    <2> QED BY <1>6, <2>1, KeptQuiet DEF SweepEnds
  <1>7. CASE \E j \in Key : DigestLocal(s, j)
    <2>1. PICK j \in Key : DigestLocal(s, j)
      BY <1>7
    <2>2. row[j].there /\ hot[j] # "none" => hot[j] = "good"
      BY DEF Kept, LocalIsGood, TypeOK, Copy
    <2>3. sweep'[s].key = j /\ sweep'[s].want = hot[j]
          /\ sweep'[s].pc = IF hot[j] = "none" THEN "next" ELSE "put"
      BY <2>1 DEF DigestLocal, TypeOK, SweepRun
    <2>4. \A t \in Sweeper : t # s => sweep'[t] = sweep[t]
      BY <2>1 DEF DigestLocal, TypeOK
    <2>5. UNCHANGED <<row, cold>>
      BY <2>1 DEF DigestLocal
    <2>6. SweepKnows'
      <3> SUFFICES ASSUME NEW t \in Sweeper, row'[sweep'[t].key].there
                   PROVE  /\ sweep'[t].pc \in {"put", "check"} => sweep'[t].want = "good"
                          /\ sweep'[t].pc \in {"delete", "mark"} => cold'[sweep'[t].key] = "good"
        BY DEF SweepKnows
      <3>1. CASE t = s
        BY <2>2, <2>3, <2>5, <3>1
      <3>2. CASE t # s
        BY <2>4, <2>5, <3>2 DEF Kept, SweepKnows
      <3> QED BY <3>1, <3>2
    <2> QED BY <2>1, <2>6, KeptQuiet DEF DigestLocal
  <1>8. CASE SweepFails(s)
    <2>1. SweepKnows'
      BY <1>8 DEF SweepFails, GivesUp, Kept, SweepKnows, TypeOK, SweepRun
    <2> QED BY <1>8, <2>1, KeptQuiet DEF SweepFails
  <1>9. CASE SweepDies(s)
    <2>1. SweepKnows'
      BY <1>9, Defaults DEF SweepDies, Kept, SweepKnows, TypeOK
    <2> QED BY <1>9, <2>1, KeptQuiet DEF SweepDies
  <1> QED BY <1>1, <1>2, <1>3, <1>4, <1>5, <1>6, <1>7, <1>8, <1>9 DEF SweepStep

LEMMA KeptRead ==
  ASSUME Kept, TypeOK, NEW r \in Reader, Ask(r) \/ ReadStep(r) \/ RestoreWait(r)
  PROVE  Kept'
  <1>1. UNCHANGED <<hot, cold, row, sweep, gc, put>>
    BY DEF Ask, OpenBlob, WarmManifest, ReadStep, WarmEnds, Reopen, Served, OpenGone, Warm,
           Open, RestoreWait
  <1>2. inflight' = inflight \/ \E ks : inflight' = Begun(ks)
    BY DEF Ask, OpenBlob, WarmManifest, ReadStep, WarmEnds, Reopen, Served, OpenGone, Warm,
           Open, RestoreWait
  <1>3. \A k \in Key : inflight'[k] # "none" => inflight[k] # "none" \/ hot[k] = "none"
    BY <1>2, BegunType
  <1>4. SweepKnows'
    BY <1>1 DEF Kept, SweepKnows
  <1> QED BY <1>1, <1>3, <1>4, KeptQuiet

\* A copy from the bucket that the pool lacked is a good one.
LEMMA KeptFilled ==
  ASSUME Kept, TypeOK, NEW k \in Key, row[k].there => cold[k] = "good" \/ hot[k] # "none",
         hot' = [hot EXCEPT ![k] = IF @ = "none" THEN cold[k] ELSE @],
         UNCHANGED <<cold, row, sweep, gc, put>>,
         \A j \in Key : inflight'[j] # "none" => inflight[j] # "none"
  PROVE  Kept'
  <1>1. Durable' /\ LocalIsGood'
    BY DEF Kept, Durable, LocalIsGood, TypeOK
  <1>2. ColdIsInBucket' /\ PromotionHasSource'
    BY DEF Kept, ColdIsInBucket, PromotionHasSource
  <1>3. SweepKnows' /\ CollectsTheGone'
    BY DEF Kept, SweepKnows, CollectsTheGone
  <1> QED BY <1>1, <1>2, <1>3 DEF Kept

LEMMA KeptPromote ==
  ASSUME Kept, TypeOK, NEW k \in Key, Promote(k) \/ PromoteFails(k)
  PROVE  Kept'
  <1>1. CASE PromoteOpen(k)
    <2>1. \A j \in Key : inflight'[j] # "none" => inflight[j] # "none"
      <3>1. CASE cold[k] = "none"
        BY <1>1, <3>1, WakeType DEF PromoteOpen
      <3>2. CASE cold[k] # "none"
        BY <1>1, <3>2 DEF PromoteOpen, TypeOK
      <3> QED BY <3>1, <3>2
    <2>2. SweepKnows'
      BY <1>1 DEF PromoteOpen, Kept, SweepKnows
    <2> QED BY <1>1, <2>1, <2>2, KeptQuiet DEF PromoteOpen
  <1>2. CASE PromoteCopy(k)
    <2>1. \A j \in Key : inflight'[j] # "none" => inflight[j] # "none"
      BY <1>2, WakeType DEF PromoteCopy
    <2>2. row[k].there => cold[k] = "good"
      BY <1>2 DEF PromoteCopy, Kept, PromotionHasSource
    <2> QED BY <1>2, <2>1, <2>2, KeptFilled DEF PromoteCopy
  <1>3. CASE PromoteFails(k)
    <2>1. \A j \in Key : inflight'[j] # "none" => inflight[j] # "none"
      BY <1>3, WakeType DEF PromoteFails
    <2>2. SweepKnows'
      BY <1>3 DEF PromoteFails, Kept, SweepKnows
    <2> QED BY <1>3, <2>1, <2>2, KeptQuiet DEF PromoteFails
  <1> QED BY <1>1, <1>2, <1>3 DEF Promote

\* A step that changes rows may mark them hot and may delete them.
LEMMA KeptRows ==
  ASSUME Kept, TypeOK, UNCHANGED <<hot, cold, inflight, sweep, put>>,
         \A k \in Key : /\ row'[k].there => row[k].there
                        /\ row'[k].tier = "cold" => row[k].tier = "cold",
         CollectsTheGone'
  PROVE  Kept'
  <1>1. Durable' /\ LocalIsGood' /\ ColdIsInBucket' /\ PromotionHasSource'
    BY DEF Kept, Durable, LocalIsGood, ColdIsInBucket, PromotionHasSource
  <1>2. SweepKnows'
    <2>1. \A s \in Sweeper : sweep[s].key \in Key
      BY DEF TypeOK, SweepRun
    <2> QED BY <2>1 DEF Kept, SweepKnows
  <1> QED BY <1>1, <1>2 DEF Kept

\* A step that only deletes bytes of a row that is gone.
LEMMA KeptDelete ==
  ASSUME Kept, TypeOK, NEW k \in Key, ~row[k].there, UNCHANGED <<row, inflight, sweep, put>>,
         \A j \in Key : j # k => hot'[j] = hot[j] /\ cold'[j] = cold[j],
         CollectsTheGone'
  PROVE  Kept'
  <1>1. Durable' /\ LocalIsGood' /\ ColdIsInBucket' /\ PromotionHasSource'
    BY DEF Kept, Durable, LocalIsGood, ColdIsInBucket, PromotionHasSource
  <1>2. SweepKnows'
    <2>1. \A s \in Sweeper : sweep[s].key \in Key
      BY DEF TypeOK, SweepRun
    <2> QED BY <2>1 DEF Kept, SweepKnows
  <1> QED BY <1>1, <1>2 DEF Kept

LEMMA KeptOther ==
  ASSUME Kept, TypeOK, Rewrite = "never",
         \/ \E k \in Key : \/ RestoreWarm(k) \/ Unreferenced(k) \/ DeleteRow(k)
                           \/ FsckRepair(k) \/ PutStat(k) \/ Ages(k)
         \/ Restart \/ MarkHot \/ GcHot \/ GcCold \/ GcFails \/ PutWrite \/ PutRow
  PROVE  Kept'
  <1>0. put.pc = "idle" /\ gc.key \in Key /\ restore.key \in Key
    BY DEF Kept, CollectsTheGone, TypeOK, Task
  <1>1. CASE \E k \in Key : RestoreWarm(k)
    <2>1. PICK k \in Key : RestoreWarm(k)
      BY <1>1
    <2>2. row[k].there => cold[k] = "good"
      BY <2>1 DEF RestoreWarm, Kept, ColdIsInBucket
    <2> QED BY <2>1, <2>2, KeptFilled DEF RestoreWarm
  <1>2. CASE \E k \in Key : Unreferenced(k) \/ Ages(k)
    <2>1. PICK k \in Key : Unreferenced(k) \/ Ages(k)
      BY <1>2
    <2>2. UNCHANGED <<hot, cold, inflight, sweep, put, gc>>
      BY <2>1 DEF Unreferenced, Ages
    <2>3. row[k] \in Row
      BY DEF TypeOK
    <2>4. \A j \in Key : row'[j].there = row[j].there /\ row'[j].tier = row[j].tier
      BY <2>1, <2>3 DEF Unreferenced, Ages, TypeOK, Row
    <2>5. CollectsTheGone'
      BY <1>0, <2>2, <2>4 DEF Kept, CollectsTheGone
    <2> QED BY <2>2, <2>4, <2>5, KeptRows
  <1>3. CASE \E k \in Key : DeleteRow(k)
    <2>1. PICK k \in Key : DeleteRow(k)
      BY <1>3
    <2>2. \A j \in Key : /\ row'[j].there => row[j].there
                         /\ row'[j].tier = row[j].tier
      BY <2>1 DEF DeleteRow, TypeOK, Row
    <2>3. ~row'[k].there /\ gc'.key = k /\ put' = put
      BY <2>1 DEF DeleteRow, TypeOK, Row
    <2>4. CollectsTheGone'
      BY <1>0, <2>3 DEF CollectsTheGone
    <2> QED BY <2>1, <2>2, <2>4, KeptRows DEF DeleteRow
  <1>4. CASE \E k \in Key : FsckRepair(k)
    <2>1. PICK k \in Key : FsckRepair(k)
      BY <1>4
    <2>2. CollectsTheGone'
      BY <2>1 DEF FsckRepair, Kept, CollectsTheGone
    <2> QED BY <2>1, <2>2, KeptDelete DEF FsckRepair, TypeOK
  <1>5. CASE \E k \in Key : PutStat(k)
    BY <1>5 DEF PutStat
  <1>6. CASE Restart
    <2>1. SweepKnows'
      BY <1>6 DEF Restart, Kept, SweepKnows
    <2> QED BY <1>6, <2>1, KeptQuiet DEF Restart
  <1>7. CASE MarkHot
    <2>1. \A j \in Key : row'[j].there = row[j].there
                         /\ (row'[j].tier = "cold" => row[j].tier = "cold")
      BY <1>0, <1>7 DEF MarkHot, MadeHot, TypeOK, Row
    <2>2. CollectsTheGone'
      BY <1>0, <1>7, <2>1 DEF MarkHot, Kept, CollectsTheGone
    <2> QED BY <1>7, <2>1, <2>2, KeptRows DEF MarkHot
  <1>8. CASE GcHot
    <2>1. ~row[gc.key].there /\ gc'.key = gc.key
      BY <1>8 DEF GcHot, Kept, CollectsTheGone, TypeOK, Task
    <2>2. CollectsTheGone'
      BY <1>0, <1>8, <2>1 DEF GcHot, CollectsTheGone
    <2> QED BY <1>0, <1>8, <2>1, <2>2, KeptDelete DEF GcHot, TypeOK
  <1>9. CASE GcCold
    <2>1. ~row[gc.key].there
      BY <1>9 DEF GcCold, Kept, CollectsTheGone
    <2>2. CollectsTheGone'
      BY <1>0, <1>9, Defaults DEF GcCold, CollectsTheGone
    <2> QED BY <1>0, <1>9, <2>1, <2>2, KeptDelete DEF GcCold, TypeOK
  <1>10. CASE GcFails
    <2>1. SweepKnows'
      BY <1>10 DEF GcFails, Kept, SweepKnows
    <2> QED BY <1>10, <2>1, KeptQuiet, Defaults DEF GcFails
  <1>11. CASE PutWrite \/ PutRow
    BY <1>0, <1>11 DEF PutWrite, PutRow
  <1> QED BY <1>1, <1>2, <1>3, <1>4, <1>5, <1>6, <1>7, <1>8, <1>9, <1>10, <1>11

LEMMA KeptStep ==
  ASSUME Rewrite = "never"
  PROVE  TypeOK /\ Kept /\ [Next]_vars => Kept'
  <1> SUFFICES ASSUME TypeOK, Kept, [Next]_vars PROVE Kept'
    OBVIOUS
  <1>1. CASE UNCHANGED vars
    BY <1>1, KeptStutter DEF vars, StoreState
  <1>2. CASE Next
    BY <1>2, KeptSweep, KeptRead, KeptPromote, KeptOther DEF Next
  <1> QED BY <1>1, <1>2

\* Demotions, promotions, restores, collections, crashes, network errors and
\* truncated PUTs, in any order and any number, leave every row with a good copy
\* of its bytes in one of the tiers.
THEOREM NothingLost == ASSUME Rewrite = "never" PROVE Spec => []Durable
  <1>1. Kept => Durable
    BY DEF Kept
  <1> QED BY <1>1, TypeInit, TypeStep, KeptInit, KeptStep, PTL DEF Spec

\* Under the same assumption a row says 'cold' only when the bucket has its bytes.
THEOREM ColdRowsTrue == ASSUME Rewrite = "never" PROVE Spec => []ColdIsInBucket
  <1>1. Kept => ColdIsInBucket
    BY DEF Kept
  <1> QED BY <1>1, TypeInit, TypeStep, KeptInit, KeptStep, PTL DEF Spec

(***************************************************************************)
(* What the duties share                                                   *)
(***************************************************************************)

\* A column that is NULL or one value is a set with at most one element.
AtMostOne(S) == \A x, y \in S : x = y

LEMMA AtMostOneElement == ASSUME NEW S, AtMostOne(S) PROVE Cardinality(S) <= 1
  <1>1. CASE S = {}
    BY <1>1, FS_EmptySet
  <1>2. CASE S # {}
    <2>1. PICK x : S = {x}
      BY <1>2 DEF AtMostOne
    <2>2. Cardinality(S) = 1
      BY <2>1, FS_Singleton
    <2> QED BY <2>2
  <1> QED BY <1>1, <1>2

-----------------------------------------------------------------------------
(***************************************************************************)
(* The client updating itself                                              *)
(***************************************************************************)
StepRow == {NotBusy, [at |-> "done"]}
             \cup [at : {"checked", "verified"}, release : Release]
             \cup [at : {"staged", "aside"}, release : Release, file : Release]

Steps == {"idle", "done", "checked", "verified", "staged", "aside"}
Holder == {"checked", "verified", "staged", "aside"}

\* The path holds no damaged binary: what is staged is a release.
UpdateShape ==
  /\ feed \in Release /\ windows \in BOOLEAN /\ AllowDowngrade \in BOOLEAN
  /\ target \in Build \cup {NoBinary} /\ aside \in Build \cup {NoBinary}
  /\ running \in [Runner -> Build \cup {NoBinary}]
  /\ step \in [Runner -> StepRow]
  /\ \A p \in Runner : step[p].at \in {"staged", "aside"} => step[p].file = step[p].release

\* One update at a time, by a process that could start.
OneUpdates ==
  /\ \A p, q \in Runner : step[p].at \in Holder /\ step[q].at \in Holder => p = q
  /\ \A p \in Runner : step[p].at \in Holder => running[p] # NoBinary

\* On Windows the binary that the daemon runs is the one at the path or the one moved
\* aside, which nobody removes while the daemon runs it.
DaemonsBinary ==
  windows => \A p \in Runner : p = "daemon" => running[p] \in {NoBinary, target, aside}

\* The path is empty only between the two renames, or after a death between them, and then
\* nobody but the daemon gets as far as to replace it.
EmptyPath ==
  /\ target = NoBinary => /\ windows /\ aside # NoBinary
                          /\ \A p \in Runner : step[p].at \in Holder
                                                => step[p].at = "aside" \/ p = "daemon"
  /\ \A p \in Runner : step[p].at = "aside" => windows /\ target = NoBinary

UpdateInv == UpdateShape /\ (~Together => OneUpdates /\ DaemonsBinary /\ EmptyPath)

\* A step of an update writes the row of its process.
LEMMA StepFields ==
  ASSUME UpdateShape, NEW p \in Runner
  PROVE  /\ step[p] \in StepRow /\ step[p].at \in Steps
         /\ step[p].at \in Holder => step[p].release \in Release
         /\ step[p].at \in {"staged", "aside"} => step[p].file \in Release
         /\ running[p] \in Build \cup {NoBinary}
  <1>1. step[p] \in StepRow
    BY DEF UpdateShape
  <1>2. PICK s : s = step[p]
    OBVIOUS
  <1>3. /\ s.at \in Steps /\ (s.at \in Holder => s.release \in Release)
        /\ s.at \in {"staged", "aside"} => s.file \in Release
    BY <1>1, <1>2 DEF StepRow, Steps, Holder, NotBusy
  <1> QED BY <1>1, <1>2, <1>3 DEF UpdateShape

\* Nobody's binary is Damaged or a negative number but NoBinary.
LEMMA Numbers ==
  /\ Dev # NoBinary /\ Damaged \notin Build \cup {NoBinary} /\ NoBinary \notin Build
  /\ Release \subseteq Build /\ 1 \in Release /\ Dev \in Build /\ Runner \subseteq {"daemon", "cli"}
  BY UpdateAssumption DEF Dev, NoBinary, Damaged, Build

LEMMA UpdateStart == UpdateInit => UpdateInv
  <1> SUFFICES ASSUME UpdateInit PROVE UpdateInv
    OBVIOUS
  <1>1. NotBusy \in StepRow /\ NotBusy.at = "idle"
    BY DEF StepRow, NotBusy
  <1>2. \A p \in Runner : step[p] = NotBusy /\ step[p].at = "idle" /\ running[p] = target
    BY <1>1 DEF UpdateInit
  <1>3. UpdateShape
    BY <1>1, <1>2, Numbers DEF UpdateInit, UpdateShape
  <1>4. OneUpdates /\ DaemonsBinary /\ EmptyPath
    BY <1>2, Numbers DEF UpdateInit, OneUpdates, DaemonsBinary, EmptyPath, Holder
  <1> QED BY <1>3, <1>4 DEF UpdateInv

\* The row of one process changes, and what it says of itself is known.
LEMMA Advanced ==
  ASSUME UpdateShape, NEW p \in Runner, NEW s \in StepRow, Advances(p, s)
  PROVE  /\ step' \in [Runner -> StepRow] /\ step'[p] = s
         /\ \A q \in Runner : q # p => step'[q] = step[q]
  BY DEF UpdateShape, Advances

Alone(p) ==
  /\ running[p] # NoBinary /\ \A q \in Runner : step[q].at \notin Holder
  /\ p = "daemon" \/ target # NoBinary

\* An update that is not between the renames goes on, or one begins, and leaves the disk.
LEMMA UpdateGoesOn ==
  ASSUME UpdateInv, NEW p \in Runner, NEW s \in StepRow, Advances(p, s), s.at \in Steps \ {"aside"},
         UNCHANGED <<settings, diskVars, running>>, feed' \in Release, step[p].at # "aside",
         s.at = "staged" => s.file = s.release,
         s.at \in Holder /\ ~Together => step[p].at \in Holder \/ Alone(p)
  PROVE  UpdateInv'
  <1>1. /\ step' \in [Runner -> StepRow] /\ step'[p] = s
        /\ \A q \in Runner : q # p => step'[q] = step[q]
    BY Advanced DEF UpdateInv
  <1>2. UpdateShape'
    BY <1>1 DEF UpdateInv, UpdateShape, settings, diskVars, Build
  <1>3. ASSUME ~Together PROVE OneUpdates' /\ DaemonsBinary' /\ EmptyPath'
    <2>1. OneUpdates'
      BY <1>1, <1>3 DEF UpdateInv, OneUpdates, Alone
    <2>2. DaemonsBinary'
      BY <1>3 DEF UpdateInv, DaemonsBinary, settings, diskVars
    <2>3. EmptyPath'
      BY <1>1, <1>3 DEF UpdateInv, EmptyPath, Alone, settings, diskVars
    <2> QED BY <2>1, <2>2, <2>3
  <1> QED BY <1>2, <1>3 DEF UpdateInv

\* A process ends, and what is at the path is started in its place.
LEMMA StartsAgain ==
  ASSUME UpdateInv, NEW p \in Runner, UNCHANGED <<settings, diskVars>>, feed' = feed,
         running' = [running EXCEPT ![p] = target],
         Advances(p, NotBusy) \/ (step' = step /\ step[p].at = "idle")
  PROVE  UpdateInv'
  <1>1. /\ step' \in [Runner -> StepRow] /\ step'[p].at = "idle"
        /\ \A q \in Runner : q # p => step'[q] = step[q]
    <2>1. NotBusy \in StepRow /\ NotBusy.at = "idle"
      BY DEF StepRow, NotBusy
    <2> QED BY <2>1, Advanced DEF UpdateInv, UpdateShape
  <1>2. /\ running' \in [Runner -> Build \cup {NoBinary}] /\ running'[p] = target
        /\ \A q \in Runner : q # p => running'[q] = running[q]
    BY DEF UpdateInv, UpdateShape
  <1>3. UpdateShape'
    BY <1>1, <1>2 DEF UpdateInv, UpdateShape, settings, diskVars, Build
  <1>4. ASSUME ~Together PROVE OneUpdates' /\ DaemonsBinary' /\ EmptyPath'
    <2>1. OneUpdates'
      BY <1>1, <1>2, <1>4 DEF UpdateInv, OneUpdates, Holder
    <2>2. DaemonsBinary'
      BY <1>2, <1>4 DEF UpdateInv, DaemonsBinary, settings, diskVars
    <2>3. EmptyPath'
      BY <1>1, <1>4 DEF UpdateInv, EmptyPath, settings, diskVars, Holder
    <2> QED BY <2>1, <2>2, <2>3
  <1> QED BY <1>3, <1>4 DEF UpdateInv

\* A process that holds the update ends it, and the path has a binary of a release, or the
\* one that was moved aside.
LEMMA Replaced ==
  ASSUME UpdateInv, NEW p \in Runner, step[p].at \in {"staged", "aside"},
         NEW s \in {NotBusy, [at |-> "done"]}, Advances(p, s), UNCHANGED <<settings, feed, running>>,
         target' \in Build, aside' \in Build \cup {NoBinary},
         ~Together => DaemonsBinary'
  PROVE  UpdateInv'
  <1>1. s \in StepRow /\ s.at \in {"idle", "done"}
    BY DEF StepRow, NotBusy
  <1>2. /\ step' \in [Runner -> StepRow] /\ step'[p] = s
        /\ \A q \in Runner : q # p => step'[q] = step[q]
    BY <1>1, Advanced DEF UpdateInv
  <1>3. UpdateShape'
    BY <1>1, <1>2 DEF UpdateInv, UpdateShape, settings, Build
  <1>4. ASSUME ~Together PROVE OneUpdates' /\ EmptyPath'
    <2>1. OneUpdates'
      BY <1>1, <1>2, <1>4 DEF UpdateInv, OneUpdates, Holder
    <2>2. \A q \in Runner : step[q].at = "aside" => q = p
      BY <1>4 DEF UpdateInv, OneUpdates, Holder
    <2>3. EmptyPath'
      BY <1>1, <1>2, <2>2, Numbers DEF EmptyPath
    <2> QED BY <2>1, <2>3
  <1> QED BY <1>3, <1>4 DEF UpdateInv

LEMMA RenameOverKeeps ==
  ASSUME UpdateInv, NEW p \in Runner, RenameOver(p) PROVE UpdateInv'
  <1>1. /\ step[p].at = "staged" /\ ~windows /\ target' = step[p].file /\ aside' = aside
        /\ Advances(p, [at |-> "done"]) /\ UNCHANGED <<settings, feed, running>>
    BY DEF RenameOver, Installed, At
  <1>2. target' \in Build /\ aside' \in Build \cup {NoBinary}
    BY <1>1, StepFields, Numbers DEF UpdateInv, UpdateShape
  <1>3. DaemonsBinary'
    BY <1>1 DEF DaemonsBinary, settings
  <1> QED BY <1>1, <1>2, <1>3, Replaced

\* What the daemon runs from beside the path stays there.
LEMMA LockedKeeps ==
  ASSUME NEW p \in Runner, p = "daemon", running[p] = aside, aside # NoBinary PROVE Locked
  BY DEF Locked

LEMMA PutBackKeeps ==
  ASSUME UpdateInv, NEW p \in Runner, PutBack(p) PROVE UpdateInv'
  <1>1. /\ step[p].at = "aside" /\ aside' = NoBinary /\ target' = IF aside # NoBinary THEN aside ELSE target
        /\ Advances(p, NotBusy) /\ UNCHANGED <<settings, feed, running>>
    BY DEF PutBack, At, Abandons
  <1>2. CASE ~Together
    <2>1. target = NoBinary /\ aside # NoBinary /\ target' = aside
      BY <1>1, <1>2 DEF UpdateInv, EmptyPath
    <2>2. target' \in Build /\ aside' \in Build \cup {NoBinary}
      BY <1>1, <2>1 DEF UpdateInv, UpdateShape
    <2>3. DaemonsBinary'
      BY <1>1, <1>2, <2>1 DEF UpdateInv, DaemonsBinary, settings
    <2> QED BY <1>1, <2>2, <2>3, Replaced
  <1>3. CASE Together
    <2>1. NotBusy \in StepRow /\ NotBusy.at = "idle"
      BY DEF StepRow, NotBusy
    <2>2. step' \in [Runner -> StepRow] /\ \A q \in Runner : step'[q] = NotBusy \/ step'[q] = step[q]
      BY <1>1, <2>1, Advanced DEF UpdateInv
    <2>3. UpdateShape'
      BY <1>1, <2>1, <2>2 DEF UpdateInv, UpdateShape, settings
    <2> QED BY <1>3, <2>3 DEF UpdateInv
  <1> QED BY <1>2, <1>3

LEMMA PutInPlaceKeeps ==
  ASSUME UpdateInv, NEW p \in Runner, PutInPlace(p) PROVE UpdateInv'
  <1>1. /\ step[p].at = "aside" /\ target' = step[p].file /\ aside' = IF Locked THEN aside ELSE NoBinary
        /\ Advances(p, [at |-> "done"]) /\ UNCHANGED <<settings, feed, running>>
    BY DEF PutInPlace, Installed, At
  <1>2. target' \in Build /\ aside' \in Build \cup {NoBinary}
    BY <1>1, StepFields, Numbers DEF UpdateInv, UpdateShape
  <1>3. ASSUME ~Together PROVE DaemonsBinary'
    <2> SUFFICES ASSUME windows', NEW q \in Runner, q = "daemon", running[q] # NoBinary
                 PROVE  running[q] = aside'
      BY <1>1 DEF DaemonsBinary
    <2>1. target = NoBinary /\ running[q] = aside
      BY <1>1, <1>3 DEF UpdateInv, EmptyPath, DaemonsBinary, settings
    <2> QED BY <1>1, <2>1, LockedKeeps
  <1> QED BY <1>1, <1>2, <1>3, Replaced

LEMMA MoveAsideKeeps ==
  ASSUME UpdateInv, NEW p \in Runner, MoveAside(p) PROVE UpdateInv'
  <1>1. /\ step[p].at = "staged" /\ windows /\ UNCHANGED <<settings, feed, running>>
        /\ step[p] \in StepRow /\ step[p].release \in Release /\ step[p].file = step[p].release
    BY StepFields DEF MoveAside, At, UpdateInv, UpdateShape, Holder
  <1>2. CASE /\ target # NoBinary /\ ~Locked /\ aside' = target /\ target' = NoBinary
             /\ Advances(p, [step[p] EXCEPT !.at = "aside"])
    <2>1. PICK s : s = [step[p] EXCEPT !.at = "aside"]
      OBVIOUS
    <2>2. s \in StepRow /\ s.at = "aside" /\ s.file = s.release
      BY <1>1, <2>1 DEF StepRow, NotBusy
    <2>3. /\ step' \in [Runner -> StepRow] /\ step'[p] = s
          /\ \A q \in Runner : q # p => step'[q] = step[q]
      BY <1>2, <2>1, <2>2, Advanced DEF UpdateInv
    <2>4. UpdateShape'
      BY <1>1, <1>2, <2>2, <2>3 DEF UpdateInv, UpdateShape, settings
    <2>5. ASSUME ~Together PROVE OneUpdates' /\ DaemonsBinary' /\ EmptyPath'
      <3>1. OneUpdates' /\ \A q \in Runner : step'[q].at \in Holder => q = p
        BY <1>1, <2>2, <2>3, <2>5 DEF UpdateInv, OneUpdates, Holder
      <3>2. DaemonsBinary'
        BY <1>1, <1>2, <2>5, LockedKeeps DEF UpdateInv, DaemonsBinary, settings
      <3>3. EmptyPath'
        BY <1>1, <1>2, <2>2, <2>3, <3>1 DEF EmptyPath, settings, Holder
      <3> QED BY <3>1, <3>2, <3>3
    <2> QED BY <2>4, <2>5 DEF UpdateInv
  <1>3. CASE /\ target = NoBinary \/ Locked
             /\ aside' = (IF Locked THEN aside ELSE NoBinary) /\ target' = target
             /\ Advances(p, NotBusy)
    <2>1. NotBusy \in StepRow /\ NotBusy.at = "idle"
      BY DEF StepRow, NotBusy
    <2>2. /\ step' \in [Runner -> StepRow] /\ step'[p] = NotBusy
          /\ \A q \in Runner : q # p => step'[q] = step[q]
      BY <1>3, <2>1, Advanced DEF UpdateInv
    <2>3. UpdateShape'
      BY <1>1, <1>3, <2>1, <2>2 DEF UpdateInv, UpdateShape, settings
    <2>4. ASSUME ~Together PROVE OneUpdates' /\ DaemonsBinary' /\ EmptyPath'
      <3>1. Locked
        <4> SUFFICES ASSUME target = NoBinary PROVE Locked
          BY <1>3
        <4>1. p = "daemon" /\ aside # NoBinary /\ running[p] # NoBinary
          BY <1>1, <2>4 DEF UpdateInv, EmptyPath, OneUpdates, Holder
        <4>2. running[p] = aside
          BY <1>1, <2>4, <4>1 DEF UpdateInv, DaemonsBinary
        <4> QED BY <4>1, <4>2, LockedKeeps
      <3>2. UNCHANGED <<settings, diskVars, running>>
        BY <1>1, <1>3, <3>1 DEF diskVars
      <3>3. NotBusy.at \in Steps \ {"aside"} /\ NotBusy.at \notin Holder /\ NotBusy.at # "staged"
        BY <2>1 DEF Steps, Holder
      <3>4. feed' \in Release /\ step[p].at # "aside"
        BY <1>1 DEF UpdateInv, UpdateShape
      <3>5. UpdateInv'
        BY <1>3, <2>1, <3>2, <3>3, <3>4, UpdateGoesOn
      <3> QED BY <2>4, <3>5 DEF UpdateInv
    <2> QED BY <2>3, <2>4 DEF UpdateInv
  <1> QED BY <1>2, <1>3 DEF MoveAside, Abandons

LEMMA CheckKeeps ==
  ASSUME UpdateInv, NEW p \in Runner, Check(p) PROVE UpdateInv'
  <1>1. PICK s : s = [at |-> "checked", release |-> feed]
    OBVIOUS
  <1>2. /\ Advances(p, s) /\ UNCHANGED <<settings, diskVars, running>> /\ feed' \in Release
        /\ step[p].at = "idle" /\ running[p] # NoBinary
        /\ ~Together => \A q \in Runner : step[q].at \in {"idle", "done"}
        /\ p = "cli" => running[p] = target
    BY <1>1 DEF Check, At, UpdateInv, UpdateShape
  <1>3. s \in StepRow /\ s.at = "checked" /\ s.at \in Steps \ {"aside"} /\ s.at # "staged"
    BY <1>1 DEF StepRow, Steps, UpdateInv, UpdateShape
  <1>4. ~Together => Alone(p)
    BY <1>2, Numbers DEF Alone, Holder
  <1>5. step[p].at # "aside"
    BY <1>2
  <1> QED BY <1>2, <1>3, <1>4, <1>5, UpdateGoesOn

LEMMA ApplyKeeps ==
  ASSUME UpdateInv, NEW p \in Runner, Apply(p) PROVE UpdateInv'
  <1>1. /\ UNCHANGED <<settings, diskVars, running>> /\ feed' \in Release /\ step[p] \in StepRow
        /\ step[p].at = "checked" /\ step[p].at # "aside" /\ step[p].at \in Holder
    BY DEF Apply, At, UpdateInv, UpdateShape, Holder
  <1>2. PICK s : /\ Advances(p, s)
                 /\ s = NotBusy \/ s = [step[p] EXCEPT !.at = "verified"]
    BY DEF Apply, Abandons
  <1>3. s \in StepRow /\ s.at \in {"idle", "verified"}
    BY <1>1, <1>2 DEF StepRow, NotBusy
  <1>4. s.at \in Steps \ {"aside"} /\ s.at # "staged"
    BY <1>3 DEF Steps
  <1> QED BY <1>1, <1>2, <1>3, <1>4, UpdateGoesOn

LEMMA downloadKeeps ==
  ASSUME UpdateInv, NEW p \in Runner, download(p) PROVE UpdateInv'
  <1>1. /\ UNCHANGED <<settings, diskVars, running>> /\ feed' \in Release /\ step[p].release \in Release
        /\ step[p].at = "verified" /\ step[p].at # "aside" /\ step[p].at \in Holder
    BY StepFields DEF download, At, UpdateInv, UpdateShape, Holder
  <1>2. PICK got : Advances(p, IF Digested(p, got) = NoBinary THEN NotBusy
                               ELSE [at |-> "staged", release |-> step[p].release, file |-> got])
    BY DEF download
  <1>3. PICK s : /\ Advances(p, s)
                 /\ \/ s = NotBusy
                    \/ s = [at |-> "staged", release |-> step[p].release, file |-> step[p].release]
    BY <1>2 DEF Digested
  <1>4. s \in StepRow /\ s.at \in {"idle", "staged"} /\ (s.at = "staged" => s.file = s.release)
    BY <1>1, <1>3 DEF StepRow, NotBusy
  <1>5. s.at \in Steps \ {"aside"}
    BY <1>4 DEF Steps
  <1> QED BY <1>1, <1>3, <1>4, <1>5, UpdateGoesOn

LEMMA UpdateStep == UpdateInv /\ [UpdateNext]_updateVars => UpdateInv'
  <1> SUFFICES ASSUME UpdateInv, [UpdateNext]_updateVars PROVE UpdateInv'
    OBVIOUS
  <1>1. ASSUME NEW p \in Runner, replaceBinary(p) PROVE UpdateInv'
    BY <1>1, RenameOverKeeps, MoveAsideKeeps, PutBackKeeps, PutInPlaceKeeps DEF replaceBinary
  <1>2. ASSUME NEW p \in Runner, autoUpdate(p) \/ StartAgain(p) \/ Die(p) PROVE UpdateInv'
    <2>1. /\ UNCHANGED <<settings, diskVars>> /\ feed' = feed /\ running' = [running EXCEPT ![p] = target]
          /\ Advances(p, NotBusy) \/ (step' = step /\ step[p].at = "idle")
      BY <1>2 DEF autoUpdate, StartAgain, Die, At
    <2> QED BY <2>1, StartsAgain
  <1>3. CASE UNCHANGED <<settings, diskVars, running, step>> /\ feed' \in Release
    BY <1>3 DEF UpdateInv, UpdateShape, OneUpdates, DaemonsBinary, EmptyPath, settings, diskVars
  <1>4. CASE Publish \/ Withdraw \/ UNCHANGED updateVars
    <2>1. UNCHANGED <<settings, diskVars, running, step>> /\ feed' \in Release
      BY <1>4 DEF Publish, Withdraw, updateVars, UpdateInv, UpdateShape, settings, diskVars
    <2> QED BY <1>3, <2>1
  <1> QED BY <1>1, <1>2, <1>4, CheckKeeps, ApplyKeeps, downloadKeeps DEF UpdateNext, Updates

LEMMA UpdateFacts == UpdateInv => UpdateTypeOK /\ (~Together => BinaryAtHand)
  <1> SUFFICES ASSUME UpdateInv PROVE UpdateTypeOK /\ (~Together => BinaryAtHand)
    OBVIOUS
  <1>1. UpdateTypeOK
    BY StepFields DEF UpdateInv, UpdateShape, UpdateTypeOK, Holder
  <1>2. ~Together => BinaryAtHand
    BY Numbers DEF UpdateInv, UpdateShape, EmptyPath, BinaryAtHand
  <1> QED BY <1>1, <1>2

-----------------------------------------------------------------------------
(***************************************************************************)
(* Metering                                                                *)
(***************************************************************************)
MeterRow == [at : {"wait"}, announced : SUBSET Topics]
              \cup [at : {"close", "sample"}, announced : SUBSET Topics, period : Periods,
                    left : SUBSET Owner]
Measured == [there : {TRUE}, total : Bytes, peak : Bytes]

BillShape ==
  /\ period \in Periods /\ stored \in [Owner -> Bytes]
  /\ quota \in [Owner -> SUBSET Limits] /\ assigned \in [Owner -> SUBSET Plan]
  /\ planQuota \in [Plan -> SUBSET Limits]
  /\ records \in [Owner -> [Periods -> Measured \cup {NoRecord}]]
  /\ meters \in [Meter -> MeterRow]
  /\ told \in [Meter -> [Topics -> Nat]]

\* A limit is one number, and an account has one plan.
OneLimit == /\ \A o \in Owner : AtMostOne(quota[o]) /\ AtMostOne(assigned[o])
            /\ \A p \in Plan : AtMostOne(planQuota[p])

\* Tries are counted from 0 and end below the bound.
Delivery(e, n) == [event |-> e, tries |-> n]
TriesBounded == \A m \in outbox : \E e : \E n \in Nat : m = Delivery(e, n) /\ n < Attempts

\* What a worker told since it started is among what it remembers.
ToldIsRemembered ==
  \A w \in Meter, k \in Topics : /\ told[w][k] \in {0, 1}
                                 /\ k \notin meters[w].announced => told[w][k] = 0

\* Whoever sweeps has begun before the end of the period it is in, and a period is closed
\* by a sweep that began after it.
ClosedBefore ==
  /\ \A w \in Meter : meters[w].at # "wait" => meters[w].period <= period
  /\ \A c \in closed :
       /\ c.period \in Periods /\ c.period < period
       /\ \A w \in Meter : meters[w].at # "wait" => c.period < meters[w].period

BillInv ==
  /\ BillShape /\ OneLimit /\ TriesBounded /\ ToldIsRemembered
  /\ (\A v, w \in Meter : v = w) => ClosedBefore /\ ClosedIsFinal

LEMMA MeterFields ==
  ASSUME BillShape, NEW w \in Meter
  PROVE  /\ meters[w] \in MeterRow /\ meters[w].announced \in SUBSET Topics
         /\ meters[w].at \in {"wait", "close", "sample"}
         /\ meters[w].at # "wait" => meters[w].period \in Periods /\ meters[w].left \in SUBSET Owner
         /\ period \in Nat /\ MaxPeriod \in Nat /\ Periods \subseteq Nat
  <1>1. meters[w] \in MeterRow
    BY DEF BillShape
  <1>2. PICK q : q = meters[w]
    OBVIOUS
  <1>3. /\ q.announced \in SUBSET Topics /\ q.at \in {"wait", "close", "sample"}
        /\ q.at # "wait" => q.period \in Periods /\ q.left \in SUBSET Owner
    BY <1>1, <1>2 DEF MeterRow
  <1>4. period \in Nat /\ MaxPeriod \in Nat /\ Periods \subseteq Nat
    BY BillingAssumption DEF BillShape, Periods
  <1> QED BY <1>1, <1>2, <1>3, <1>4

LEMMA BillStart == BillInit => BillInv
  <1> SUFFICES ASSUME BillInit PROVE BillInv
    OBVIOUS
  <1>1. {} \in SUBSET Topics /\ {} \in SUBSET Limits /\ {} \in SUBSET Plan
    OBVIOUS
  <1>2. Between({}) \in MeterRow /\ Between({}).at = "wait" /\ Between({}).announced = {}
    BY <1>1 DEF Between, MeterRow
  <1>3. 1 \in Periods
    BY BillingAssumption DEF Periods
  <1>4. BillShape
    <2>1. planQuota \in [Plan -> SUBSET Limits]
      BY <1>1 DEF BillInit
    <2>2. \A x : [o \in Owner |-> x] \in [Owner -> {x}]
      OBVIOUS
    <2>3. records \in [Owner -> [Periods -> Measured \cup {NoRecord}]]
      BY DEF BillInit
    <2>4. told \in [Meter -> [Topics -> Nat]]
      BY DEF BillInit
    <2> QED BY <1>1, <1>2, <1>3, <2>1, <2>3, <2>4 DEF BillInit, BillShape
  <1>5. OneLimit
    BY DEF BillInit, OneLimit, AtMostOne
  <1>6. TriesBounded /\ ToldIsRemembered
    BY <1>2 DEF BillInit, TriesBounded, ToldIsRemembered
  <1>7. ClosedBefore /\ ClosedIsFinal
    BY <1>2 DEF BillInit, ClosedBefore, ClosedIsFinal
  <1> QED BY <1>4, <1>5, <1>6, <1>7 DEF BillInv

\* A worker goes on, and tells at most what it remembers from then on.
LEMMA Remembers ==
  ASSUME BillShape, ToldIsRemembered, NEW w \in Meter, NEW m \in MeterRow,
         meters' = [meters EXCEPT ![w] = m], meters[w].announced \subseteq m.announced,
         \/ told' = told
         \/ \E k \in Topics : /\ k \notin meters[w].announced /\ k \in m.announced
                              /\ told' = [told EXCEPT ![w][k] = @ + 1]
  PROVE  /\ meters' \in [Meter -> MeterRow] /\ meters'[w] = m
         /\ \A v \in Meter : v # w => meters'[v] = meters[v]
         /\ told' \in [Meter -> [Topics -> Nat]] /\ ToldIsRemembered'
  <1>1. /\ meters' \in [Meter -> MeterRow] /\ meters'[w] = m
        /\ \A v \in Meter : v # w => meters'[v] = meters[v]
    BY DEF BillShape
  <1>2. CASE told' = told
    BY <1>1, <1>2 DEF BillShape, ToldIsRemembered
  <1>3. ASSUME NEW k \in Topics, k \notin meters[w].announced, k \in m.announced,
               told' = [told EXCEPT ![w][k] = @ + 1]
        PROVE  told' \in [Meter -> [Topics -> Nat]] /\ ToldIsRemembered'
    <2>1. told[w] \in [Topics -> Nat] /\ told[w][k] = 0
      BY <1>3 DEF BillShape, ToldIsRemembered
    <2>2. PICK t : t = [told[w] EXCEPT ![k] = 1]
      OBVIOUS
    <2>3. t \in [Topics -> Nat] /\ t[k] = 1 /\ \A x \in Topics : x # k => t[x] = told[w][x]
      BY <2>1, <2>2
    <2>4. told' = [told EXCEPT ![w] = t]
      BY <1>3, <2>1, <2>2
    <2>5. /\ told' \in [Meter -> [Topics -> Nat]] /\ told'[w] = t
          /\ \A v \in Meter : v # w => told'[v] = told[v]
      BY <2>3, <2>4 DEF BillShape
    <2> QED BY <1>1, <1>3, <2>3, <2>5 DEF ToldIsRemembered
  <1> QED BY <1>1, <1>2, <1>3

\* An event enters the outbox with no try yet.
LEMMA Notified ==
  ASSUME TriesBounded, NEW e, outbox' = outbox \/ Notify(e) PROVE TriesBounded'
  <1>1. 0 \in Nat /\ 0 < Attempts
    BY BillingAssumption
  <1> QED BY <1>1 DEF TriesBounded, Notify, Delivery

LEMMA DeliverKeeps ==
  ASSUME BillInv, NEW m \in outbox, Deliver(m) PROVE BillInv'
  <1>1. TriesBounded'
    <2>1. PICK e, n : m = Delivery(e, n) /\ n \in Nat
      BY DEF BillInv, TriesBounded
    <2>2. CASE outbox' = outbox \ {m}
      BY <2>2 DEF BillInv, TriesBounded
    <2>3. CASE TryAgain(m) /\ outbox' = (outbox \ {m}) \cup {[m EXCEPT !.tries = @ + 1]}
      <3>1. [m EXCEPT !.tries = @ + 1] = Delivery(e, n + 1) /\ m.tries = n
        BY <2>1 DEF Delivery
      <3>2. n + 1 \in Nat /\ n + 1 < Attempts
        BY <2>1, <2>3, <3>1 DEF TryAgain
      <3> QED BY <2>3, <3>1, <3>2 DEF BillInv, TriesBounded
    <2> QED BY <2>2, <2>3 DEF Deliver
  <1> QED BY <1>1 DEF Deliver, BillInv, BillShape, OneLimit, ToldIsRemembered, ClosedBefore, ClosedIsFinal

LEMMA PlansKeep ==
  ASSUME BillInv, \/ \E p \in Plan, q \in Limits : handleAdminUpsertPlan(p, q)
                  \/ \E o \in Owner : handleAdminSetAccountPlan(o)
  PROVE  BillInv'
  <1>1. UNCHANGED <<period, stored, records, meters, sweeps, crashes, told, closed>>
    BY DEF handleAdminUpsertPlan, handleAdminSetAccountPlan
  <1>2. /\ quota' \in [Owner -> SUBSET Limits] /\ assigned' \in [Owner -> SUBSET Plan]
        /\ planQuota' \in [Plan -> SUBSET Limits] /\ OneLimit'
    <2>1. ASSUME NEW p \in Plan, NEW q \in Limits, handleAdminUpsertPlan(p, q)
          PROVE  /\ quota' \in [Owner -> SUBSET Limits] /\ assigned' \in [Owner -> SUBSET Plan]
                 /\ planQuota' \in [Plan -> SUBSET Limits] /\ OneLimit'
      BY <2>1 DEF handleAdminUpsertPlan, UpsertPlan, BillInv, BillShape, OneLimit, AtMostOne
    <2>2. ASSUME NEW o \in Owner, handleAdminSetAccountPlan(o)
          PROVE  /\ quota' \in [Owner -> SUBSET Limits] /\ assigned' \in [Owner -> SUBSET Plan]
                 /\ planQuota' \in [Plan -> SUBSET Limits] /\ OneLimit'
      <3>1. {} \in SUBSET Plan
        OBVIOUS
      <3>2. CASE UnassignPlan(o)
        BY <2>2, <3>1, <3>2 DEF handleAdminSetAccountPlan, UnassignPlan, BillInv, BillShape, OneLimit, AtMostOne
      <3>3. ASSUME NEW p \in Plan, AssignPlan(o, p)
            PROVE  /\ quota' \in [Owner -> SUBSET Limits] /\ assigned' \in [Owner -> SUBSET Plan]
                   /\ planQuota' \in [Plan -> SUBSET Limits] /\ OneLimit'
        BY <2>2, <3>3 DEF handleAdminSetAccountPlan, AssignPlan, BillInv, BillShape, OneLimit, AtMostOne
      <3> QED BY <2>2, <3>2, <3>3 DEF handleAdminSetAccountPlan
    <2> QED BY <2>1, <2>2
  <1>3. TriesBounded'
    BY Notified DEF handleAdminUpsertPlan, handleAdminSetAccountPlan, BillInv
  <1>4. BillShape' /\ ToldIsRemembered'
    BY <1>1, <1>2 DEF BillInv, BillShape, ToldIsRemembered
  <1>5. (\A v, w \in Meter : v = w) => ClosedBefore' /\ ClosedIsFinal'
    BY <1>1 DEF BillInv, ClosedBefore, ClosedIsFinal
  <1> QED BY <1>2, <1>3, <1>4, <1>5 DEF BillInv

LEMMA WorldKeeps ==
  ASSUME BillInv, (\E o \in Owner, b \in Bytes : Store(o, b)) \/ NextPeriod PROVE BillInv'
  <1>1. /\ UNCHANGED <<quota, planQuota, assigned, records, meters, outbox, told, closed>>
        /\ stored' \in [Owner -> Bytes]
    BY DEF Store, NextPeriod, plansAndQuotas, BillInv, BillShape
  <1>2. period' \in Periods /\ period' >= period /\ period \in Nat
    BY MeterFields, BillingAssumption DEF Store, NextPeriod, Periods, BillInv, BillShape
  <1>3. BillShape' /\ OneLimit' /\ TriesBounded' /\ ToldIsRemembered'
    BY <1>1, <1>2 DEF BillInv, BillShape, OneLimit, TriesBounded, ToldIsRemembered
  <1>4. ASSUME \A v, w \in Meter : v = w PROVE ClosedBefore' /\ ClosedIsFinal'
    <2>1. Periods \subseteq Nat /\ \A w \in Meter : meters[w].at # "wait" => meters[w].period \in Nat
      BY MeterFields, BillingAssumption DEF BillInv, Periods
    <2>2. period' \in Nat
      BY <1>2, <2>1
    <2>3. ClosedBefore'
      <3>1. ASSUME NEW w \in Meter, meters[w].at # "wait" PROVE meters[w].period <= period'
        BY <1>2, <1>4, <2>1, <2>2, <3>1 DEF BillInv, ClosedBefore
      <3>2. ASSUME NEW c \in closed PROVE c.period \in Periods /\ c.period < period'
        <4>1. c.period \in Periods /\ c.period < period
          BY <1>4 DEF BillInv, ClosedBefore
        <4>2. PICK n \in Nat : n = c.period
          BY <2>1, <4>1
        <4> QED BY <1>2, <2>2, <4>1, <4>2
      <3> QED BY <1>1, <1>4, <3>1, <3>2 DEF BillInv, ClosedBefore
    <2> QED BY <1>1, <1>4, <2>3 DEF BillInv, ClosedIsFinal
  <1> QED BY <1>3, <1>4 DEF BillInv

LEMMA MeterSweepKeeps ==
  ASSUME BillInv, NEW w \in Meter, Sweep(w) PROVE BillInv'
  <1>1. PICK m : m = [at |-> "close", announced |-> meters[w].announced, period |-> period, left |-> Owner]
    OBVIOUS
  <1>2. /\ UNCHANGED <<period, stored, quota, planQuota, assigned, records, outbox, told, closed>>
        /\ meters' = [meters EXCEPT ![w] = m]
    BY <1>1 DEF Sweep, plansAndQuotas
  <1>3. m \in MeterRow /\ m.at = "close" /\ m.period = period /\ m.announced = meters[w].announced
    BY <1>1, MeterFields DEF MeterRow, BillInv, BillShape
  <1>4. /\ meters' \in [Meter -> MeterRow] /\ meters'[w] = m
        /\ told' \in [Meter -> [Topics -> Nat]] /\ ToldIsRemembered'
    BY <1>2, <1>3, Remembers DEF BillInv
  <1>5. BillShape' /\ OneLimit' /\ TriesBounded'
    BY <1>2, <1>4 DEF BillInv, BillShape, OneLimit, TriesBounded
  <1>6. ASSUME \A v, u \in Meter : v = u PROVE ClosedBefore' /\ ClosedIsFinal'
    <2>1. period \in Nat
      BY MeterFields DEF BillInv
    <2>2. \A u \in Meter : meters'[u].period = period
      BY <1>3, <1>4, <1>6
    <2> QED BY <1>2, <1>6, <2>1, <2>2 DEF BillInv, ClosedBefore, ClosedIsFinal
  <1> QED BY <1>4, <1>5, <1>6 DEF BillInv

\* A worker that goes on in its sweep, or ends it, keeps the period it has.
LEMMA SweepGoesOn ==
  ASSUME BillInv, NEW w \in Meter, NEW m \in MeterRow, meters' = [meters EXCEPT ![w] = m],
         m.at # "wait" => meters[w].at # "wait" /\ m.period = meters[w].period,
         meters[w].announced \subseteq m.announced,
         \/ told' = told
         \/ \E k \in Topics : /\ k \notin meters[w].announced /\ k \in m.announced
                              /\ told' = [told EXCEPT ![w][k] = @ + 1],
         UNCHANGED <<period, stored, quota, planQuota, assigned>>,
         records' \in [Owner -> [Periods -> Measured \cup {NoRecord}]],
         \/ records' = records
         \/ /\ meters[w].at # "wait" /\ closed' = closed
            /\ \A o \in Owner, p \in Periods : p # meters[w].period => records'[o][p] = records[o][p],
         TriesBounded',
         \A c \in closed' \ closed :
           /\ c.period \in Periods /\ meters[w].at # "wait" /\ c.period = meters[w].period - 1
           /\ \A o \in Owner : c.figures[o] = records[o][c.period],
         \A c \in closed : c \in closed'
  PROVE  BillInv'
  <1>1. /\ meters' \in [Meter -> MeterRow] /\ meters'[w] = m
        /\ told' \in [Meter -> [Topics -> Nat]] /\ ToldIsRemembered'
    BY Remembers DEF BillInv
  <1>2. BillShape' /\ OneLimit'
    BY <1>1 DEF BillInv, BillShape, OneLimit
  <1>3. ASSUME \A v, u \in Meter : v = u PROVE ClosedBefore' /\ ClosedIsFinal'
    <2>1. /\ period \in Nat /\ Periods \subseteq Nat
          /\ meters[w].at # "wait" => meters[w].period \in Nat /\ meters[w].period <= period
      BY <1>3, MeterFields DEF BillInv, ClosedBefore
    <2>2. \A v \in Meter : v = w
      BY <1>3
    <2>3. ASSUME NEW c \in closed'
          PROVE  /\ c.period \in Periods /\ c.period < period
                 /\ meters[w].at # "wait" => c.period < meters[w].period
                 /\ \A o \in Owner : records[o][c.period] = c.figures[o]
      <3>1. CASE c \in closed
        BY <1>3, <3>1 DEF BillInv, ClosedBefore, ClosedIsFinal
      <3>2. CASE c \notin closed
        <4>1. PICK n \in Nat : n = c.period
          BY <2>1, <3>2
        <4> QED BY <2>1, <3>2, <4>1
      <3> QED BY <3>1, <3>2
    <2>4. ClosedBefore'
      BY <1>1, <1>3, <2>1, <2>2, <2>3 DEF BillInv, ClosedBefore
    <2>5. ClosedIsFinal'
      <3>1. ASSUME NEW c \in closed', NEW o \in Owner PROVE records'[o][c.period] = records[o][c.period]
        <4>1. meters[w].at # "wait" => c.period # meters[w].period
          BY <2>1, <2>3
        <4> QED BY <2>3, <4>1
      <3> QED BY <2>3, <3>1 DEF ClosedIsFinal
    <2> QED BY <2>4, <2>5
  <1> QED BY <1>1, <1>2, <1>3 DEF BillInv

LEMMA closePreviousKeeps ==
  ASSUME BillInv, NEW w \in Meter, closePrevious(w) PROVE BillInv'
  <1>1. PICK p, key : p = meters[w].period - 1 /\ key = <<"closed", 0, p>>
    OBVIOUS
  <1>2. /\ meters[w].at = "close" /\ meters[w].period \in 1..MaxPeriod /\ meters[w] \in MeterRow
        /\ UNCHANGED <<period, stored, quota, planQuota, assigned, records>>
    BY MeterFields DEF closePrevious, plansAndQuotas, BillInv, Periods
  <1>3. key \in Topics /\ (p \in Periods \/ p = 0) /\ p = meters[w].period - 1
    BY <1>1, <1>2, BillingAssumption DEF Topics, Periods
  <1>4. records' \in [Owner -> [Periods -> Measured \cup {NoRecord}]]
    BY <1>2 DEF BillInv, BillShape
  <1>5. CASE /\ key \in meters[w].announced /\ meters' = [meters EXCEPT ![w].at = "sample"]
             /\ UNCHANGED <<outbox, told, closed>>
    <2>1. PICK m : m = [meters[w] EXCEPT !.at = "sample"]
      OBVIOUS
    <2>2. m \in MeterRow /\ m.at = "sample" /\ m.period = meters[w].period /\ m.announced = meters[w].announced
      BY <1>2, <2>1 DEF MeterRow
    <2>3. meters' = [meters EXCEPT ![w] = m] /\ TriesBounded'
      BY <1>5, <2>1 DEF BillInv, BillShape, TriesBounded
    <2> QED BY <1>2, <1>4, <1>5, <2>2, <2>3, SweepGoesOn
  <1>6. CASE /\ key \notin meters[w].announced
             /\ meters' = [meters EXCEPT ![w].at = "sample", ![w].announced = @ \cup {key}]
             /\ told' = [told EXCEPT ![w][key] = @ + 1]
             /\ \/ UNCHANGED <<outbox, closed>>
                \/ /\ p \in Periods /\ Notify(<<"period.closed", p>>)
                   /\ closed' = closed \cup {[period |-> p, figures |-> [o \in Owner |-> records[o][p]]]}
    <2>1. PICK m : m = [meters[w] EXCEPT !.at = "sample", !.announced = meters[w].announced \cup {key}]
      OBVIOUS
    <2>2. /\ m \in MeterRow /\ m.at = "sample" /\ m.period = meters[w].period
          /\ m.announced = meters[w].announced \cup {key}
      BY <1>2, <1>3, <2>1 DEF MeterRow
    <2>3. meters' = [meters EXCEPT ![w] = m]
      BY <1>6, <2>1 DEF BillInv, BillShape
    <2>4. TriesBounded'
      BY <1>6, Notified DEF BillInv, TriesBounded
    <2>5. PICK c : c = [period |-> p, figures |-> [o \in Owner |-> records[o][p]]]
      OBVIOUS
    <2>6. \A d \in closed' \ closed :
           /\ d.period \in Periods /\ meters[w].at # "wait" /\ d.period = meters[w].period - 1
           /\ \A o \in Owner : d.figures[o] = records[o][d.period]
      BY <1>2, <1>3, <1>6, <2>5
    <2>7. \A d \in closed : d \in closed'
      BY <1>6
    <2> QED BY <1>2, <1>3, <1>4, <1>6, <2>2, <2>3, <2>4, <2>6, <2>7, SweepGoesOn
  <1> QED BY <1>1, <1>3, <1>5, <1>6 DEF closePrevious

LEMMA EndSweepKeeps ==
  ASSUME BillInv, NEW w \in Meter, EndSweep(w) PROVE BillInv'
  <1>1. PICK m : m = Between(meters[w].announced)
    OBVIOUS
  <1>2. m \in MeterRow /\ m.at = "wait" /\ m.announced = meters[w].announced
    BY <1>1, MeterFields DEF MeterRow, Between, BillInv
  <1>3. /\ meters' = [meters EXCEPT ![w] = m]
        /\ UNCHANGED <<period, stored, quota, planQuota, assigned, records, outbox, told, closed>>
    BY <1>1 DEF EndSweep, plansAndQuotas
  <1>4. TriesBounded' /\ records' \in [Owner -> [Periods -> Measured \cup {NoRecord}]]
    BY <1>3 DEF BillInv, BillShape, TriesBounded
  <1> QED BY <1>2, <1>3, <1>4, SweepGoesOn

LEMMA SkipOwnerKeeps ==
  ASSUME BillInv, NEW w \in Meter, NEW o \in Owner, SkipOwner(w, o) PROVE BillInv'
  <1>1. PICK m : m = [meters[w] EXCEPT !.left = meters[w].left \ {o}]
    OBVIOUS
  <1>2. /\ m \in MeterRow /\ m.at = "sample" /\ m.announced = meters[w].announced
        /\ m.period = meters[w].period /\ meters[w].at # "wait"
    BY <1>1, MeterFields DEF SkipOwner, MeterRow, BillInv
  <1>3. /\ meters' = [meters EXCEPT ![w] = m]
        /\ UNCHANGED <<period, stored, quota, planQuota, assigned, records, outbox, told, closed>>
    BY <1>1 DEF SkipOwner, plansAndQuotas
  <1>4. TriesBounded' /\ records' \in [Owner -> [Periods -> Measured \cup {NoRecord}]]
    BY <1>3 DEF BillInv, BillShape, TriesBounded
  <1> QED BY <1>2, <1>3, <1>4, SweepGoesOn

LEMMA SampleOwnerKeeps ==
  ASSUME BillInv, NEW w \in Meter, NEW o \in Owner, SampleOwner(w, o) PROVE BillInv'
  <1>1. PICK p \in Periods : p = meters[w].period
    BY MeterFields DEF SampleOwner, BillInv
  <1>2. /\ meters[w].at = "sample" /\ meters[w] \in MeterRow
        /\ UNCHANGED <<period, stored, quota, planQuota, assigned, closed>>
    BY MeterFields DEF SampleOwner, plansAndQuotas, BillInv
  <1>3. /\ records' \in [Owner -> [Periods -> Measured \cup {NoRecord}]]
        /\ \A x \in Owner, y \in Periods : y # p => records'[x][y] = records[x][y]
    <2>1. stored[o] \in Bytes /\ records[o] \in [Periods -> Measured \cup {NoRecord}]
      BY DEF BillInv, BillShape
    <2>2. PICK was : was = records[o][p]
      OBVIOUS
    <2>3. PICK new : new = [there |-> TRUE, total |-> stored[o],
                            peak |-> IF was.there /\ was.peak > stored[o] THEN was.peak ELSE stored[o]]
      OBVIOUS
    <2>4. was \in Measured \cup {NoRecord} /\ (was.there => was.peak \in Bytes)
      <3>1. was \in Measured \cup {NoRecord}
        BY <2>1, <2>2
      <3>2. CASE was = NoRecord
        <4>1. was.there = FALSE
          BY <3>2 DEF NoRecord
        <4> QED BY <3>1, <4>1
      <3>3. CASE was \in Measured
        BY <3>3 DEF Measured
      <3> QED BY <3>1, <3>2, <3>3
    <2>5. new \in Measured
      BY <2>1, <2>3, <2>4 DEF Measured
    <2>6. PICK f : f = [records[o] EXCEPT ![p] = new]
      OBVIOUS
    <2>7. records' = [records EXCEPT ![o] = f]
      BY <1>1, <2>2, <2>3, <2>6 DEF SampleOwner, RecordUsage, BillInv, BillShape
    <2>8. f \in [Periods -> Measured \cup {NoRecord}] /\ \A y \in Periods : y # p => f[y] = records[o][y]
      BY <2>1, <2>5, <2>6
    <2> QED BY <2>7, <2>8 DEF BillInv, BillShape
  <1>4. PICK key : key = <<"quota", o, p>>
    OBVIOUS
  <1>5. key \in Topics
    BY <1>4 DEF Topics
  <1>6. CASE /\ key \notin meters[w].announced /\ Notify(<<"quota.exceeded", o, p>>)
             /\ told' = [told EXCEPT ![w][key] = @ + 1]
             /\ meters' = [meters EXCEPT ![w].left = @ \ {o}, ![w].announced = @ \cup {key}]
    <2>1. PICK m : m = [meters[w] EXCEPT !.left = meters[w].left \ {o}, !.announced = meters[w].announced \cup {key}]
      OBVIOUS
    <2>2. /\ m \in MeterRow /\ m.at = "sample" /\ m.period = p /\ m.announced = meters[w].announced \cup {key}
      BY <1>1, <1>2, <1>5, <2>1 DEF MeterRow
    <2>3. meters' = [meters EXCEPT ![w] = m] /\ TriesBounded'
      BY <1>6, <2>1, Notified DEF BillInv, BillShape
    <2>4. \E k \in Topics : /\ k \notin meters[w].announced /\ k \in m.announced
                            /\ told' = [told EXCEPT ![w][k] = @ + 1]
      BY <1>5, <1>6, <2>2
    <2>5. meters[w].announced \subseteq m.announced
      BY <2>2
    <2> QED BY <1>1, <1>2, <1>3, <2>2, <2>3, <2>4, <2>5, SweepGoesOn
  <1>7. CASE meters' = [meters EXCEPT ![w].left = @ \ {o}] /\ UNCHANGED <<outbox, told>>
    <2>1. PICK m : m = [meters[w] EXCEPT !.left = meters[w].left \ {o}]
      OBVIOUS
    <2>2. /\ m \in MeterRow /\ m.at = "sample" /\ m.period = p /\ m.announced = meters[w].announced
      BY <1>1, <1>2, <2>1 DEF MeterRow
    <2>3. meters' = [meters EXCEPT ![w] = m] /\ TriesBounded'
      BY <1>7, <2>1 DEF BillInv, BillShape, TriesBounded
    <2> QED BY <1>1, <1>2, <1>3, <1>7, <2>2, <2>3, SweepGoesOn
  <1> QED BY <1>1, <1>4, <1>6, <1>7 DEF SampleOwner, checkQuotaEvent

LEMMA CrashKeeps ==
  ASSUME BillInv, NEW w \in Meter, Crash(w) PROVE BillInv'
  <1>1. PICK m : m = Between({})
    OBVIOUS
  <1>2. m \in MeterRow /\ m.at = "wait" /\ m.announced = {}
    <2>1. {} \in SUBSET Topics
      OBVIOUS
    <2> QED BY <1>1, <2>1 DEF MeterRow, Between
  <1>3. /\ meters' = [meters EXCEPT ![w] = m] /\ told' = [told EXCEPT ![w] = [k \in Topics |-> 0]]
        /\ outbox' \subseteq outbox /\ UNCHANGED <<period, stored, quota, planQuota, assigned, records, closed>>
    BY <1>1 DEF Crash, plansAndQuotas
  <1>4. /\ meters' \in [Meter -> MeterRow] /\ meters'[w] = m
        /\ \A v \in Meter : v # w => meters'[v] = meters[v]
    BY <1>2, <1>3 DEF BillInv, BillShape
  <1>5. told' \in [Meter -> [Topics -> Nat]] /\ ToldIsRemembered'
    <2>1. PICK t : t = [k \in Topics |-> 0]
      OBVIOUS
    <2>2. t \in [Topics -> Nat] /\ \A k \in Topics : t[k] = 0
      BY <2>1
    <2>3. /\ told' \in [Meter -> [Topics -> Nat]] /\ told'[w] = t
          /\ \A v \in Meter : v # w => told'[v] = told[v]
      BY <1>3, <2>1, <2>2 DEF BillInv, BillShape
    <2> QED BY <1>4, <2>2, <2>3 DEF BillInv, ToldIsRemembered
  <1>6. BillShape' /\ OneLimit' /\ TriesBounded'
    BY <1>3, <1>4, <1>5 DEF BillInv, BillShape, OneLimit, TriesBounded
  <1>7. (\A v, u \in Meter : v = u) => ClosedBefore' /\ ClosedIsFinal'
    BY <1>2, <1>3, <1>4 DEF BillInv, ClosedBefore, ClosedIsFinal
  <1> QED BY <1>5, <1>6, <1>7 DEF BillInv

LEMMA BillStep == BillInv /\ [BillNext]_billVars => BillInv'
  <1> SUFFICES ASSUME BillInv, [BillNext]_billVars PROVE BillInv'
    OBVIOUS
  <1>1. CASE UNCHANGED billVars
    BY <1>1 DEF billVars, BillInv, BillShape, OneLimit, TriesBounded, ToldIsRemembered, ClosedBefore, ClosedIsFinal
  <1> QED BY <1>1, PlansKeep, WorldKeeps, DeliverKeeps, MeterSweepKeeps, closePreviousKeeps, EndSweepKeeps,
             SampleOwnerKeeps, SkipOwnerKeeps, CrashKeeps DEF BillNext, Metering

LEMMA BillFacts ==
  BillInv => /\ BillTypeOK /\ AnnouncedOncePerLife
             /\ (\A v, w \in Meter : v = w) => ClosedIsFinal
  <1> SUFFICES ASSUME BillInv PROVE BillTypeOK /\ AnnouncedOncePerLife
    BY DEF BillInv
  <1>1. AnnouncedOncePerLife
    BY DEF BillInv, ToldIsRemembered, AnnouncedOncePerLife
  <1>2. \A S : AtMostOne(S) => Cardinality(S) <= 1
    BY AtMostOneElement
  <1>3. ASSUME NEW o \in Owner, NEW p \in Periods, records[o][p] # NoRecord
        PROVE  {records[o][p].total, records[o][p].peak} \subseteq Bytes
    <2>1. records[o][p] \in Measured
      BY <1>3 DEF BillInv, BillShape
    <2> QED BY <2>1 DEF Measured
  <1>4. \A m \in outbox : m.tries < Attempts
    BY DEF BillInv, TriesBounded, Delivery
  <1> QED BY <1>1, <1>2, <1>3, <1>4 DEF BillInv, BillShape, OneLimit, BillTypeOK

-----------------------------------------------------------------------------
(***************************************************************************)
(* Web push                                                                *)
(***************************************************************************)
NoteRow == {Resting, [at |-> "begin"]} \cup [at : {"read", "targets"}, seq : Nat]
             \cup [at : {"fan"}, seq : Nat, left : SUBSET (Device \X Endpoint)]

PushShape ==
  /\ device \in [Device -> {"live", "revoked"}]
  /\ subs \in [Device -> SUBSET Endpoint] /\ \A d \in Device : AtMostOne(subs[d])
  /\ seq \in 0..MaxSeq /\ lastNotified \in 0..seq /\ pending \in 0..seq
  /\ owed \in [Device -> 0..seq]
  /\ notes \in [Notification -> NoteRow]

Announcing(n) == notes[n].at \in {"targets", "fan"}
HasRead(n) == notes[n].at \in {"read", "targets", "fan"}

\* The cursor that a notification has read is one that the journal has reached, and of
\* those that were announced there is one notification each: the one that sends.
OneAnnouncer ==
  /\ \A n \in Notification : HasRead(n) => notes[n].seq <= seq
  /\ \A n \in Notification : Announcing(n) => notes[n].seq <= lastNotified
  /\ \A n, m \in Notification : Announcing(n) /\ Announcing(m) /\ notes[n].seq = notes[m].seq => n = m
  /\ \A a \in sends : /\ a[3] \in Nat /\ a[3] <= lastNotified
                      /\ \A n \in Notification : Announcing(n) /\ notes[n].seq = a[3] => a[4] = n
  /\ AnnouncedOnce

PushInv == PushShape /\ OneAnnouncer

LEMMA PushNumbers == PushShape => /\ seq \in Nat /\ lastNotified \in Nat /\ pending \in Nat
                                  /\ lastNotified <= seq /\ pending <= seq /\ seq <= MaxSeq /\ MaxSeq \in Nat
  BY PushAssumption DEF PushShape

LEMMA NoteFields ==
  ASSUME PushShape, NEW n \in Notification
  PROVE  /\ notes[n] \in NoteRow
         /\ HasRead(n) => notes[n].seq \in Nat
         /\ notes[n].at = "fan" => notes[n].left \in SUBSET (Device \X Endpoint)
         /\ notes[n].at \in {"idle", "begin", "read", "targets", "fan"}
  <1>1. notes[n] \in NoteRow
    BY DEF PushShape
  <1>2. PICK q : q = notes[n]
    OBVIOUS
  <1>3. /\ q.at \in {"read", "targets", "fan"} => q.seq \in Nat
        /\ q.at = "fan" => q.left \in SUBSET (Device \X Endpoint)
        /\ q.at \in {"idle", "begin", "read", "targets", "fan"}
    BY <1>1, <1>2 DEF NoteRow, Resting
  <1> QED BY <1>1, <1>2, <1>3 DEF HasRead

LEMMA PushStart == PushInit => PushInv
  <1> SUFFICES ASSUME PushInit PROVE PushInv
    OBVIOUS
  <1>1. Resting \in NoteRow /\ Resting.at = "idle"
    BY DEF Resting, NoteRow
  <1>2. {} \in SUBSET Endpoint /\ AtMostOne({}) /\ 0 \in 0..0 /\ 0 \in 0..MaxSeq
    BY PushAssumption DEF AtMostOne
  <1>3. PushShape
    BY <1>1, <1>2 DEF PushInit, PushShape, NoEndpoint
  <1>4. OneAnnouncer
    BY <1>1 DEF PushInit, OneAnnouncer, Announcing, HasRead, AnnouncedOnce
  <1> QED BY <1>3, <1>4 DEF PushInv

\* What devices and the push service do leaves the notifications alone.
LEMMA DevicesKeep ==
  ASSUME PushInv, UNCHANGED <<seq, pending, lastNotified, notes, sends>>,
         device' \in [Device -> {"live", "revoked"}], subs' \in [Device -> SUBSET Endpoint],
         \A d \in Device : subs'[d] = subs[d] \/ AtMostOne(subs'[d]), owed' \in [Device -> 0..seq]
  PROVE  PushInv'
  <1>1. PushShape'
    BY DEF PushInv, PushShape
  <1>2. OneAnnouncer'
    BY DEF PushInv, OneAnnouncer, Announcing, HasRead, AnnouncedOnce
  <1> QED BY <1>1, <1>2 DEF PushInv

LEMMA ForgetTyped ==
  ASSUME PushShape, NEW d \in Device, Forget(d)
  PROVE  /\ subs' \in [Device -> SUBSET Endpoint] /\ owed' \in [Device -> 0..seq]
         /\ \A x \in Device : subs'[x] = subs[x] \/ AtMostOne(subs'[x])
  <1>1. {} \in SUBSET Endpoint /\ AtMostOne({}) /\ 0 \in 0..seq
    BY PushNumbers DEF AtMostOne
  <1> QED BY <1>1 DEF Forget, PushShape, NoEndpoint

LEMMA DeviceActs ==
  ASSUME PushInv, \/ \E d \in Device, e \in Endpoint : handleRegisterPush(d, e)
                  \/ \E d \in Device : handleUnregisterPush(d) \/ handleRevokeDevice(d) \/ RevokeOtherwise(d)
                  \/ \E e \in Endpoint : EndpointGone(e)
  PROVE  PushInv'
  <1>1. /\ device \in [Device -> {"live", "revoked"}] /\ subs \in [Device -> SUBSET Endpoint]
        /\ owed \in [Device -> 0..seq] /\ PushShape /\ 0 \in 0..seq
    BY PushNumbers DEF PushInv, PushShape
  <1>2. ASSUME NEW d \in Device, NEW e \in Endpoint, handleRegisterPush(d, e) PROVE PushInv'
    <2>1. {e} \in SUBSET Endpoint /\ AtMostOne({e})
      BY DEF AtMostOne
    <2>2. /\ subs' \in [Device -> SUBSET Endpoint] /\ owed' \in [Device -> 0..seq]
          /\ \A x \in Device : subs'[x] = subs[x] \/ AtMostOne(subs'[x])
      BY <1>1, <1>2, <2>1 DEF handleRegisterPush, PutPushSubscription
    <2>3. UNCHANGED <<device, seq, pending, lastNotified, notes, sends>>
      BY <1>2 DEF handleRegisterPush
    <2> QED BY <1>1, <2>2, <2>3, DevicesKeep
  <1>3. ASSUME NEW d \in Device, handleUnregisterPush(d) PROVE PushInv'
    BY <1>1, <1>3, ForgetTyped, DevicesKeep DEF handleUnregisterPush, DeletePushSubscription
  <1>4. ASSUME NEW d \in Device, handleRevokeDevice(d) PROVE PushInv'
    <2>1. device' \in [Device -> {"live", "revoked"}]
      BY <1>1, <1>4 DEF handleRevokeDevice, RevokeDevice
    <2> QED BY <1>1, <1>4, <2>1, ForgetTyped, DevicesKeep DEF handleRevokeDevice, RevokeDevice
  <1>5. ASSUME NEW d \in Device, RevokeOtherwise(d) PROVE PushInv'
    <2>1. device' \in [Device -> {"live", "revoked"}] /\ owed' \in [Device -> 0..seq]
      BY <1>1, <1>5 DEF RevokeOtherwise
    <2> QED BY <1>1, <1>5, <2>1, DevicesKeep DEF RevokeOtherwise
  <1>6. ASSUME NEW e \in Endpoint, EndpointGone(e) PROVE PushInv'
    BY <1>1, <1>6, DevicesKeep DEF EndpointGone
  <1> QED BY <1>2, <1>3, <1>4, <1>5, <1>6

LEMMA ChangeTreeKeeps == ASSUME PushInv, ChangeTree PROVE PushInv'
  <1>1. PICK s \in Nat : s = seq
    BY PushNumbers DEF PushInv
  <1>2. seq' = s + 1 /\ s + 1 <= MaxSeq /\ pending' = pending + 1
    BY <1>1, PushNumbers DEF ChangeTree, PushInv
  <1>3. PushShape'
    <2>1. 0..s \subseteq 0..(s + 1) /\ s + 1 \in 0..(s + 1)
      BY <1>1
    <2>2. owed' \in [Device -> 0..seq']
      BY <1>1, <1>2, <2>1 DEF ChangeTree, PushInv, PushShape
    <2>3. seq' \in 0..MaxSeq /\ lastNotified \in 0..seq' /\ pending' \in 0..seq'
      BY <1>1, <1>2, PushNumbers DEF PushInv
    <2> QED BY <2>2, <2>3 DEF ChangeTree, PushInv, PushShape
  <1>4. OneAnnouncer'
    <2>1. ASSUME NEW n \in Notification, HasRead(n) PROVE notes[n].seq <= s + 1
      <3>1. notes[n].seq <= s /\ notes[n].seq \in Nat
        BY <1>1, <2>1, NoteFields DEF PushInv, OneAnnouncer
      <3> QED BY <3>1
    <2> QED BY <1>1, <1>2, <2>1 DEF ChangeTree, PushInv, OneAnnouncer, Announcing, HasRead, AnnouncedOnce
  <1> QED BY <1>3, <1>4 DEF PushInv

\* A notification goes on without announcing anything new.
LEMMA NoteGoesOn ==
  ASSUME PushInv, NEW n \in Notification, NEW q \in NoteRow, notes' = [notes EXCEPT ![n] = q],
         UNCHANGED <<device, subs, seq, lastNotified, owed, sends>>, pending' \in 0..seq,
         q.at \in {"read", "targets", "fan"} => q.seq <= seq,
         q.at \in {"targets", "fan"} => Announcing(n) /\ q.seq = notes[n].seq
  PROVE  PushInv'
  <1>1. /\ notes' \in [Notification -> NoteRow] /\ notes'[n] = q
        /\ \A m \in Notification : m # n => notes'[m] = notes[m]
    BY DEF PushInv, PushShape
  <1>2. PushShape'
    BY <1>1 DEF PushInv, PushShape
  <1>3. OneAnnouncer'
    BY <1>1 DEF PushInv, OneAnnouncer, Announcing, HasRead, AnnouncedOnce
  <1> QED BY <1>2, <1>3 DEF PushInv

LEMMA RestingTyped == Resting \in NoteRow /\ Resting.at = "idle"
  BY DEF Resting, NoteRow

LEMMA NotesKeep ==
  ASSUME PushInv, NEW n \in Notification,
         notifyIfChanged(n) \/ LatestSeq(n) \/ fanout(n) \/ Finish(n) \/ Fails(n)
  PROVE  PushInv'
  <1>1. seq \in Nat /\ pending \in 0..seq /\ notes[n] \in NoteRow
    BY PushNumbers DEF PushInv, PushShape
  <1>2. CASE notifyIfChanged(n)
    <2>1. PICK q : q = [at |-> "begin"]
      OBVIOUS
    <2>2. q \in NoteRow /\ q.at = "begin"
      BY <2>1 DEF NoteRow
    <2>3. pending' \in 0..seq
      <3>1. PICK k \in Nat : k = pending /\ k <= seq
        BY <1>1
      <3> QED BY <1>1, <1>2, <3>1 DEF notifyIfChanged
    <2> QED BY <1>2, <2>1, <2>2, <2>3, NoteGoesOn DEF notifyIfChanged
  <1>3. CASE LatestSeq(n)
    <2>1. PICK q : q = [at |-> "read", seq |-> seq]
      OBVIOUS
    <2>2. q \in NoteRow /\ q.at = "read" /\ q.seq = seq /\ seq <= seq
      BY <1>1, <2>1 DEF NoteRow
    <2> QED BY <1>1, <1>3, <2>1, <2>2, NoteGoesOn DEF LatestSeq
  <1>4. CASE fanout(n)
    <2>1. PICK q : q = [at |-> "fan", seq |-> notes[n].seq, left |-> PushTargetsFor]
      OBVIOUS
    <2>2. notes[n].at = "targets" /\ notes[n].seq \in Nat /\ notes[n].seq <= seq /\ Announcing(n)
      BY <1>4, NoteFields DEF fanout, PushInv, OneAnnouncer, HasRead, Announcing
    <2>3. PushTargetsFor \in SUBSET (Device \X Endpoint)
      BY DEF PushTargetsFor
    <2>4. q \in NoteRow /\ q.at = "fan" /\ q.seq = notes[n].seq
      BY <2>1, <2>2, <2>3 DEF NoteRow
    <2> QED BY <1>1, <1>4, <2>1, <2>2, <2>4, NoteGoesOn DEF fanout
  <1>5. CASE Finish(n) \/ Fails(n)
    <2>1. /\ notes' = [notes EXCEPT ![n] = Resting]
          /\ UNCHANGED <<device, subs, seq, pending, lastNotified, owed, sends>>
      BY <1>5 DEF Finish, Fails
    <2> QED BY <1>1, <2>1, RestingTyped, NoteGoesOn
  <1> QED BY <1>2, <1>3, <1>4, <1>5

LEMMA notifyKeeps == ASSUME PushInv, NEW n \in Notification, notify(n) PROVE PushInv'
  <1>1. /\ notes[n].at = "read" /\ notes[n].seq \in Nat /\ notes[n].seq <= seq /\ ~Announcing(n)
        /\ seq \in Nat /\ lastNotified \in Nat /\ pending \in 0..seq
    BY NoteFields, PushNumbers DEF notify, PushInv, PushShape, OneAnnouncer, HasRead, Announcing
  <1>2. CASE /\ notes[n].seq > lastNotified /\ lastNotified' = notes[n].seq
             /\ notes' = [notes EXCEPT ![n] = [at |-> "targets", seq |-> notes[n].seq]]
    <2>1. PICK q : q = [at |-> "targets", seq |-> notes[n].seq]
      OBVIOUS
    <2>2. q \in NoteRow /\ q.at = "targets" /\ q.seq = notes[n].seq
      BY <1>1, <2>1 DEF NoteRow
    <2>3. /\ notes' \in [Notification -> NoteRow] /\ notes'[n] = q
          /\ \A m \in Notification : m # n => notes'[m] = notes[m]
      BY <1>2, <2>1, <2>2 DEF PushInv, PushShape
    <2>4. PushShape'
      BY <1>1, <1>2, <2>3 DEF notify, PushInv, PushShape
    <2>5. \A m \in Notification : Announcing(m) => notes[m].seq \in Nat /\ notes[m].seq <= lastNotified
      BY NoteFields DEF PushInv, OneAnnouncer, Announcing, HasRead
    <2>6. \A m \in Notification : m # n => (HasRead(m)' <=> HasRead(m)) /\ (Announcing(m)' <=> Announcing(m))
      BY <2>3 DEF HasRead, Announcing
    <2>7. \A m \in Notification : HasRead(m)' => notes'[m].seq <= seq'
      BY <1>1, <2>2, <2>3, <2>6 DEF notify, PushInv, OneAnnouncer
    <2>8. \A m \in Notification : Announcing(m)' => notes'[m].seq <= lastNotified'
      <3>1. ASSUME NEW m \in Notification, m # n, Announcing(m) PROVE notes[m].seq <= lastNotified'
        <4>1. PICK k \in Nat : k = notes[m].seq /\ k <= lastNotified
          BY <2>5, <3>1
        <4> QED BY <1>1, <1>2, <4>1
      <3>2. q.seq <= lastNotified'
        BY <1>1, <1>2, <2>2
      <3> QED BY <2>3, <2>6, <3>1, <3>2
    <2>9. \A m \in Notification : m # n /\ Announcing(m) => notes[m].seq # q.seq
      <3> SUFFICES ASSUME NEW m \in Notification, m # n, Announcing(m), notes[m].seq = q.seq PROVE FALSE
        OBVIOUS
      <3>1. PICK k \in Nat : k = notes[m].seq /\ k <= lastNotified
        BY <2>5
      <3> QED BY <1>1, <1>2, <2>2, <3>1
    <2>10. \A m, x \in Notification :
             Announcing(m)' /\ Announcing(x)' /\ notes'[m].seq = notes'[x].seq => m = x
      BY <2>3, <2>6, <2>9 DEF PushInv, OneAnnouncer
    <2>11. ASSUME NEW a \in sends'
           PROVE  /\ a[3] \in Nat /\ a[3] <= lastNotified'
                  /\ \A m \in Notification : Announcing(m)' /\ notes'[m].seq = a[3] => a[4] = m
      <3>1. a \in sends
        BY DEF notify
      <3>2. PICK k \in Nat : k = a[3] /\ k <= lastNotified
        BY <3>1 DEF PushInv, OneAnnouncer
      <3>3. k <= lastNotified' /\ k # q.seq
        BY <1>1, <1>2, <2>2, <3>2
      <3> QED BY <2>3, <2>6, <3>1, <3>2, <3>3 DEF PushInv, OneAnnouncer
    <2>12. AnnouncedOnce'
      BY DEF notify, PushInv, OneAnnouncer, AnnouncedOnce
    <2> QED BY <2>4, <2>7, <2>8, <2>10, <2>11, <2>12 DEF PushInv, OneAnnouncer
  <1>3. CASE notes' = [notes EXCEPT ![n] = Resting] /\ lastNotified' = lastNotified
    BY <1>1, <1>3, RestingTyped, NoteGoesOn DEF notify
  <1> QED BY <1>2, <1>3 DEF notify

LEMMA SendKeeps ==
  ASSUME PushInv, NEW n \in Notification, NEW d \in Device, NEW e \in Endpoint, Send(n, d, e) PROVE PushInv'
  <1>1. /\ notes[n].at = "fan" /\ notes[n].seq \in Nat /\ notes[n].left \in SUBSET (Device \X Endpoint)
        /\ notes[n] \in NoteRow /\ Announcing(n)
    BY NoteFields DEF Send, Holds, PushInv, HasRead, Announcing
  <1>2. PICK q : q = [notes[n] EXCEPT !.left = notes[n].left \ {<<d, e>>}]
    OBVIOUS
  <1>3. q \in NoteRow /\ q.at = "fan" /\ q.seq = notes[n].seq
    BY <1>1, <1>2 DEF NoteRow, Resting
  <1>4. notes' = [notes EXCEPT ![n] = q]
    BY <1>2 DEF Send, PushInv, PushShape
  <1>5. /\ notes' \in [Notification -> NoteRow] /\ notes'[n] = q
        /\ \A m \in Notification : m # n => notes'[m] = notes[m]
    BY <1>3, <1>4 DEF PushInv, PushShape
  <1>6. /\ subs' \in [Device -> SUBSET Endpoint] /\ owed' \in [Device -> 0..seq]
        /\ \A x \in Device : AtMostOne(subs'[x])
    BY ForgetTyped DEF Send, PushInv, PushShape
  <1>7. PushShape'
    BY <1>5, <1>6 DEF Send, PushInv, PushShape
  <1>8. PICK b : b = <<d, e, notes[n].seq, n>> /\ sends' = sends \cup {b}
    BY DEF Send
  <1>9. b[3] = notes[n].seq /\ b[4] = n
    BY <1>8
  <1>10. \A m \in Notification : /\ HasRead(m)' => HasRead(m)
                                 /\ Announcing(m)' => Announcing(m)
                                 /\ notes'[m].seq = notes[m].seq
    BY <1>1, <1>3, <1>5 DEF HasRead, Announcing
  <1>11. b[3] \in Nat /\ b[3] <= lastNotified
    BY <1>1, <1>9 DEF PushInv, OneAnnouncer
  <1>12. \A m \in Notification : Announcing(m) /\ notes[m].seq = b[3] => b[4] = m
    BY <1>1, <1>9 DEF PushInv, OneAnnouncer
  <1>13. \A a \in sends : a[3] = b[3] => a[4] = b[4]
    BY <1>1, <1>9 DEF PushInv, OneAnnouncer
  <1>14. UNCHANGED <<seq, lastNotified>>
    BY DEF Send
  <1>15. AnnouncedOnce'
    BY <1>8, <1>13 DEF PushInv, OneAnnouncer, AnnouncedOnce
  <1>16. OneAnnouncer'
    BY <1>8, <1>10, <1>11, <1>12, <1>14, <1>15 DEF PushInv, OneAnnouncer
  <1> QED BY <1>7, <1>16 DEF PushInv

LEMMA RestartNotifierKeeps == ASSUME PushInv, RestartNotifier PROVE PushInv'
  <1>1. \A n \in Notification : notes'[n] = Resting
    BY DEF RestartNotifier
  <1>2. 0 \in 0..seq
    BY PushNumbers DEF PushInv
  <1>3. PushShape'
    BY <1>2, RestingTyped DEF RestartNotifier, PushInv, PushShape
  <1>4. OneAnnouncer'
    BY <1>1, RestingTyped DEF RestartNotifier, OneAnnouncer, Announcing, HasRead, AnnouncedOnce
  <1> QED BY <1>3, <1>4 DEF PushInv

LEMMA PushStep == PushInv /\ [PushNext]_pushVars => PushInv'
  <1> SUFFICES ASSUME PushInv, [PushNext]_pushVars PROVE PushInv'
    OBVIOUS
  <1>1. CASE UNCHANGED pushVars
    BY <1>1 DEF pushVars, PushInv, PushShape, OneAnnouncer, Announcing, HasRead, AnnouncedOnce
  <1> QED BY <1>1, DeviceActs, ChangeTreeKeeps, NotesKeep, notifyKeeps, SendKeeps, RestartNotifierKeeps
          DEF PushNext, Works

LEMMA PushFacts == PushInv => PushTypeOK /\ AnnouncedOnce
  <1> SUFFICES ASSUME PushInv PROVE PushTypeOK
    BY DEF PushInv, OneAnnouncer
  <1>1. pending \in 0..MaxSeq
    <2>1. PICK k \in Nat : k = pending /\ k <= seq
      BY PushNumbers DEF PushInv
    <2> QED BY <2>1, PushNumbers DEF PushInv
  <1> QED BY <1>1, AtMostOneElement DEF PushInv, PushShape, PushTypeOK

-----------------------------------------------------------------------------
(***************************************************************************)
(* Vectors of documents                                                    *)
(***************************************************************************)
EmbeddingRow == [vector : Nat \ {0}, vec : Nat]
MadeBy(m) == [doc : Document, vector : 1 .. m]
Batch(D, m) == [run : {TRUE}, batch : [D -> 1 .. m]]

VectorShape ==
  /\ visible \subseteq Document /\ model \in 1 .. MaxModels
  /\ rowOf \in [Document -> SUBSET EmbeddingRow]
  /\ \A d \in Document : AtMostOne(rowOf[d]) /\ \A r \in rowOf[d] : r.vector <= model
  /\ embedding \in [EmbedWorker -> SUBSET MadeBy(model)]
  /\ filling = NotFilling \/ \E D \in SUBSET Document : filling \in Batch(D, model)

\* The search that ranks in SQL has found every row of its model copied, and no such row
\* comes to be without a copy.
AnswersHold ==
  /\ FoundAll
  /\ query.step = "rank" => Pending(query.model) = {}

\* A document in the batch has the row that was read, for it is not embedded anew.
CopiesTrue ==
  /\ \A d \in Document : \A r \in rowOf[d] : r.vec \in {0, r.vector}
  /\ filling.run => \A d \in DOMAIN filling.batch :
                      rowOf[d] # NoRow /\ \A r \in rowOf[d] : r.vector = filling.batch[d]
  /\ \A d \in Document :
       (\E r \in rowOf[d] : r.vec = 0) \/ (filling.run /\ d \in DOMAIN filling.batch)
         => \A w \in EmbedWorker : \A e \in embedding[w] : e.doc # d

VectorInv ==
  /\ VectorShape
  /\ Aged = {} => AnswersHold
  /\ Aged = {} /\ ~Restamped => CopiesTrue

LEMMA ModelNumber == VectorShape => model \in Nat /\ model >= 1 /\ MaxModels \in Nat
  BY VectorAssumption DEF VectorShape

LEMMA FillingFields ==
  ASSUME VectorShape
  PROVE  /\ filling.run \in BOOLEAN /\ (~filling.run => filling = NotFilling)
         /\ filling.run => /\ DOMAIN filling.batch \in SUBSET Document
                           /\ filling \in Batch(DOMAIN filling.batch, model)
                           /\ filling.batch \in [DOMAIN filling.batch -> 1 .. model]
  <1>1. CASE filling = NotFilling
    BY <1>1 DEF NotFilling
  <1>2. ASSUME NEW D \in SUBSET Document, filling \in Batch(D, model)
        PROVE  /\ filling.run = TRUE /\ DOMAIN filling.batch = D /\ filling \in Batch(D, model)
               /\ filling.batch \in [D -> 1 .. model]
    BY <1>2 DEF Batch
  <1> QED BY <1>1, <1>2 DEF VectorShape

LEMMA VectorStart == VectorInit => VectorInv
  <1> SUFFICES ASSUME VectorInit PROVE VectorInv
    OBVIOUS
  <1>1. PICK q : q = [vector |-> 1, vec |-> 0]
    OBVIOUS
  <1>2. q \in EmbeddingRow /\ q.vector = 1 /\ q.vec = 0
    BY <1>1 DEF EmbeddingRow
  <1>3. \A d \in Document : rowOf[d] = {} \/ rowOf[d] = {q}
    BY <1>1 DEF VectorInit, NoRow
  <1>4. {} \in SUBSET EmbeddingRow /\ {q} \in SUBSET EmbeddingRow /\ {} \in SUBSET MadeBy(model)
    BY <1>2
  <1>5. VectorShape
    <2>1. rowOf \in [Document -> SUBSET EmbeddingRow]
      <3>1. rowOf \in [Document -> {NoRow, {q}}]
        BY <1>1 DEF VectorInit
      <3> QED BY <1>4, <3>1 DEF NoRow
    <2>2. embedding \in [EmbedWorker -> SUBSET MadeBy(model)]
      BY <1>4 DEF VectorInit, Nothing
    <2>3. \A d \in Document : AtMostOne(rowOf[d]) /\ \A r \in rowOf[d] : r.vector <= model
      <3>1. ASSUME NEW d \in Document, NEW r \in rowOf[d] PROVE r.vector <= model
        <4>1. r = q /\ model = 1 /\ q.vector = 1
          BY <1>2, <1>3 DEF VectorInit
        <4>2. PICK k \in Nat : k = 1 /\ r.vector = k /\ model = k
          BY <4>1
        <4> QED BY <4>2
      <3>2. \A d \in Document : AtMostOne(rowOf[d])
        BY <1>3 DEF AtMostOne
      <3> QED BY <3>1, <3>2
    <2> QED BY <2>1, <2>2, <2>3, VectorAssumption DEF VectorInit, VectorShape
  <1>6. AnswersHold
    BY DEF VectorInit, AnswersHold, FoundAll, NotAsking
  <1>7. CopiesTrue
    <2>1. ~filling.run /\ \A w \in EmbedWorker : embedding[w] = {}
      BY DEF VectorInit, NotFilling, Nothing
    <2> QED BY <1>2, <1>3, <2>1 DEF CopiesTrue
  <1> QED BY <1>5, <1>6, <1>7 DEF VectorInv

\* Rows stay as they are.
LEMMA RowsStay ==
  ASSUME VectorInv, rowOf' = rowOf, visible' \subseteq Document, model' \in 1 .. MaxModels, model <= model',
         embedding' \in [EmbedWorker -> SUBSET MadeBy(model')],
         filling' = NotFilling \/ \E D \in SUBSET Document : filling' \in Batch(D, model'),
         Aged = {} => FoundAll' /\ (query'.step = "rank" => Pending(query'.model) = {}),
         Aged = {} /\ ~Restamped =>
           /\ filling' # filling => /\ embedding' = embedding
                                    /\ filling'.run => \A d \in DOMAIN filling'.batch :
                                         /\ rowOf[d] # NoRow
                                         /\ \A r \in rowOf[d] : r.vector = filling'.batch[d] /\ r.vec = 0
           /\ embedding' # embedding => \A w \in EmbedWorker : \A e \in embedding'[w] :
                e \in embedding[w] \/ rowOf[e.doc] = NoRow
  PROVE  VectorInv'
  <1>1. VectorShape'
    <2>1. ASSUME NEW d \in Document, NEW r \in rowOf[d] PROVE r.vector <= model'
      <3>1. PICK k \in Nat : k = r.vector /\ k <= model
        BY DEF VectorInv, VectorShape, EmbeddingRow
      <3>2. model' \in Nat /\ model \in Nat
        BY ModelNumber, VectorAssumption DEF VectorInv
      <3> QED BY <3>1, <3>2
    <2> QED BY <2>1 DEF VectorInv, VectorShape
  <1>2. Aged = {} => AnswersHold'
    BY DEF AnswersHold, Pending, Of
  <1>3. ASSUME Aged = {}, ~Restamped PROVE CopiesTrue'
    <2>1. CopiesTrue
      BY <1>3 DEF VectorInv
    <2>2. CASE filling' # filling
      <3>1. \A d \in Document : \A r \in rowOf[d] : r.vec \in {0, r.vector}
        BY <2>1 DEF CopiesTrue
      <3>2. filling'.run => \A d \in DOMAIN filling'.batch :
              rowOf[d] # NoRow /\ \A r \in rowOf[d] : r.vector = filling'.batch[d] /\ r.vec = 0
        BY <1>3, <2>2
      <3>3. ASSUME NEW d \in Document,
                   (\E r \in rowOf[d] : r.vec = 0) \/ (filling'.run /\ d \in DOMAIN filling'.batch)
            PROVE  \A w \in EmbedWorker : \A e \in embedding[w] : e.doc # d
        <4>1. \E r \in rowOf[d] : r.vec = 0
          BY <3>2, <3>3 DEF NoRow
        <4> QED BY <2>1, <4>1 DEF CopiesTrue
      <3>4. embedding' = embedding
        BY <1>3, <2>2
      <3> QED BY <3>1, <3>2, <3>3, <3>4 DEF CopiesTrue
    <2>3. CASE filling' = filling
      BY <1>3, <2>1, <2>3 DEF CopiesTrue, NoRow
    <2> QED BY <2>2, <2>3
  <1> QED BY <1>1, <1>2, <1>3 DEF VectorInv

LEMMA Quiet ==
  ASSUME VectorInv
  PROVE  /\ visible \subseteq Document /\ model \in 1 .. MaxModels /\ model \in Nat
         /\ embedding \in [EmbedWorker -> SUBSET MadeBy(model)]
         /\ filling = NotFilling \/ \E D \in SUBSET Document : filling \in Batch(D, model)
         /\ Aged = {} => FoundAll /\ (query.step = "rank" => Pending(query.model) = {})
  BY ModelNumber DEF VectorInv, VectorShape, AnswersHold

LEMMA ShownKeeps ==
  ASSUME VectorInv, NEW d \in Document, Shown(d)
  PROVE  VectorInv'
  <1>1. visible' \subseteq Document
    BY Quiet DEF Shown
  <1>2. (FoundAll' <=> FoundAll)
    BY DEF Shown, FoundAll
  <1> QED BY Quiet, RowsStay, <1>1, <1>2 DEF Shown

\* What was made by an older model is still made by one of the models there have been.
LEMMA SwapModelKeeps ==
  ASSUME VectorInv, SwapModel
  PROVE  VectorInv'
  <1>1. PICK m, n, k \in Nat : m = model /\ n = MaxModels /\ k = model'
    BY Quiet, VectorAssumption DEF SwapModel
  <1>2. k = m + 1 /\ m < n /\ m >= 1
    BY <1>1, Quiet DEF SwapModel
  <1>3. model' \in 1 .. MaxModels /\ model <= model' /\ 1 .. model \subseteq 1 .. model'
    BY <1>1, <1>2
  <1>4. SUBSET MadeBy(model) \subseteq SUBSET MadeBy(model')
    BY <1>3 DEF MadeBy
  <1>5. embedding' \in [EmbedWorker -> SUBSET MadeBy(model')]
    BY <1>4, Quiet DEF SwapModel
  <1>6. \A D : Batch(D, model) \subseteq Batch(D, model')
    BY <1>3 DEF Batch
  <1>7. filling' = NotFilling \/ \E D \in SUBSET Document : filling' \in Batch(D, model')
    BY <1>6, Quiet DEF SwapModel
  <1>8. FoundAll' <=> FoundAll
    BY DEF SwapModel, FoundAll
  <1> QED BY Quiet, RowsStay, <1>3, <1>5, <1>7, <1>8 DEF SwapModel

LEMMA HasEmbeddingKeeps ==
  ASSUME VectorInv, NEW w \in EmbedWorker, NEW d \in Document, HasEmbedding(w, d)
  PROVE  VectorInv'
  <1>1. PICK e : e = [doc |-> d, vector |-> model]
    OBVIOUS
  <1>2. e \in MadeBy(model) /\ e.doc = d
    BY <1>1, Quiet DEF MadeBy
  <1>3. embedding' = [embedding EXCEPT ![w] = {e}] /\ {e} \in SUBSET MadeBy(model)
    BY <1>1, <1>2 DEF HasEmbedding
  <1>4. embedding' \in [EmbedWorker -> SUBSET MadeBy(model')]
    BY <1>3, Quiet DEF HasEmbedding
  <1>5. \A v \in EmbedWorker : \A x \in embedding'[v] : x \in embedding[v] \/ rowOf[x.doc] = NoRow
    BY <1>2, <1>3, Quiet DEF HasEmbedding
  <1>6. FoundAll' <=> FoundAll
    BY DEF HasEmbedding, FoundAll
  <1>7. model \in Nat /\ model <= model'
    BY Quiet DEF HasEmbedding
  <1> QED BY Quiet, RowsStay, <1>4, <1>5, <1>6, <1>7 DEF HasEmbedding

\* One document's row changes: it gets a copy or goes, and is in no batch afterwards.
LEMMA RowChanges ==
  ASSUME VectorInv, NEW d \in Document, NEW R \in SUBSET EmbeddingRow, AtMostOne(R),
         \A r \in R : r.vector <= model,
         rowOf' = [rowOf EXCEPT ![d] = R],
         UNCHANGED <<visible, model, query, answer>>,
         embedding' \in [EmbedWorker -> SUBSET MadeBy(model)],
         \A w \in EmbedWorker : embedding'[w] \subseteq embedding[w],
         filling' = NotFilling \/ \E D \in SUBSET Document : filling' \in Batch(D, model),
         Aged = {} => \A r \in R : r.vec # 0,
         Aged = {} /\ ~Restamped =>
           /\ \A r \in R : r.vec = r.vector
           /\ filling'.run => /\ filling.run /\ d \notin DOMAIN filling'.batch
                              /\ DOMAIN filling'.batch \subseteq DOMAIN filling.batch
                              /\ DOMAIN filling'.batch \subseteq Document
                              /\ \A x \in DOMAIN filling'.batch : filling'.batch[x] = filling.batch[x]
  PROVE  VectorInv'
  <1>1. rowOf'[d] = R /\ \A x \in Document : x # d => rowOf'[x] = rowOf[x]
    BY DEF VectorInv, VectorShape
  <1>2. VectorShape'
    BY <1>1 DEF VectorInv, VectorShape
  <1>3. ASSUME Aged = {} PROVE AnswersHold'
    <2>1. FoundAll' /\ (query.step = "rank" => Pending(query.model) = {})
      BY <1>3, Quiet DEF FoundAll
    <2>2. ASSUME NEW v, Pending(v) = {} PROVE Pending(v)' = {}
      BY <1>1, <1>3, <2>2 DEF Pending, Of
    <2> QED BY <2>1, <2>2 DEF AnswersHold, Pending, Of
  <1>4. ASSUME Aged = {}, ~Restamped PROVE CopiesTrue'
    <2>1. CopiesTrue
      BY <1>4 DEF VectorInv
    <2>2. \A r \in R : r.vec = r.vector /\ r.vec # 0
      BY <1>4
    <2>3. ASSUME NEW x \in Document, NEW r \in rowOf'[x] PROVE r.vec \in {0, r.vector}
      BY <1>1, <2>1, <2>2, <2>3 DEF CopiesTrue
    <2>4. ASSUME filling'.run, NEW x \in DOMAIN filling'.batch
          PROVE  rowOf'[x] # NoRow /\ \A r \in rowOf'[x] : r.vector = filling'.batch[x]
      <3>1. x # d /\ x \in Document /\ x \in DOMAIN filling.batch /\ filling.run
        BY <1>4, <2>4
      <3>2. filling'.batch[x] = filling.batch[x] /\ rowOf'[x] = rowOf[x]
        BY <1>1, <1>4, <2>4, <3>1
      <3> QED BY <2>1, <3>1, <3>2 DEF CopiesTrue
    <2>5. ASSUME NEW x \in Document,
                 (\E r \in rowOf'[x] : r.vec = 0) \/ (filling'.run /\ x \in DOMAIN filling'.batch)
          PROVE  \A w \in EmbedWorker : \A e \in embedding'[w] : e.doc # x
      <3>1. x # d
        BY <1>1, <1>4, <2>2, <2>5
      <3>2. (\E r \in rowOf[x] : r.vec = 0) \/ (filling.run /\ x \in DOMAIN filling.batch)
        BY <1>1, <1>4, <2>5, <3>1
      <3> QED BY <2>1, <3>2 DEF CopiesTrue
    <2> QED BY <2>3, <2>4, <2>5 DEF CopiesTrue
  <1> QED BY <1>2, <1>3, <1>4 DEF VectorInv

LEMMA PutEmbeddingsKeeps ==
  ASSUME VectorInv, NEW w \in EmbedWorker, PutEmbeddings(w)
  PROVE  VectorInv'
  <1>1. PICK e \in embedding[w] :
          rowOf' = [rowOf EXCEPT ![e.doc] = {[vector |-> e.vector,
                                            vec |-> IF pgvectorReady(w) THEN e.vector ELSE 0]}]
    BY DEF PutEmbeddings
  <1>2. e \in MadeBy(model)
    BY Quiet, <1>1
  <1>3. PICK d \in Document, n \in 1 .. model : d = e.doc /\ n = e.vector
    BY <1>2 DEF MadeBy
  <1>4. PICK q : q = [vector |-> n, vec |-> IF pgvectorReady(w) THEN n ELSE 0]
    OBVIOUS
  <1>5. n \in Nat \ {0} /\ n <= model
    BY <1>3, Quiet
  <1>6. q \in EmbeddingRow /\ q.vector = n /\ q.vec \in {0, n} /\ (Aged = {} => q.vec = n)
    BY <1>4, <1>5 DEF EmbeddingRow, pgvectorReady
  <1>7. rowOf' = [rowOf EXCEPT ![d] = {q}] /\ {q} \in SUBSET EmbeddingRow /\ AtMostOne({q})
    BY <1>1, <1>3, <1>4, <1>6 DEF AtMostOne
  <1>8. \A r \in {q} : r.vector <= model /\ (Aged = {} => r.vec # 0 /\ r.vec = r.vector)
    BY <1>5, <1>6
  <1>9. {} \in SUBSET MadeBy(model)
    OBVIOUS
  <1>10. embedding' = [embedding EXCEPT ![w] = {}]
    BY DEF PutEmbeddings, Nothing
  <1>11. /\ embedding' \in [EmbedWorker -> SUBSET MadeBy(model)]
         /\ \A v \in EmbedWorker : embedding'[v] \subseteq embedding[v]
    BY <1>9, <1>10, Quiet
  <1>12. UNCHANGED <<visible, model, filling, query, answer>>
    BY DEF PutEmbeddings
  <1>13. ASSUME Aged = {}, ~Restamped, filling.run
         PROVE  d \notin DOMAIN filling.batch /\ DOMAIN filling.batch \subseteq Document
    <2>1. CopiesTrue
      BY <1>13 DEF VectorInv
    <2>2. DOMAIN filling.batch \in SUBSET Document
      BY <1>13, FillingFields DEF VectorInv
    <2> QED BY <1>1, <1>3, <1>13, <2>1, <2>2 DEF CopiesTrue
  <1> QED BY <1>7, <1>8, <1>11, <1>12, <1>13, Quiet, RowChanges

LEMMA PruneEmbeddingsKeeps ==
  ASSUME VectorInv, NEW d \in Document, PruneEmbeddings(d)
  PROVE  VectorInv'
  <1>1. {} \in SUBSET EmbeddingRow /\ AtMostOne({})
    BY DEF AtMostOne
  <1>2. rowOf' = [rowOf EXCEPT ![d] = {}]
    BY DEF PruneEmbeddings, NoRow
  <1>3. UNCHANGED <<visible, model, embedding, filling, query, answer>>
    BY DEF PruneEmbeddings
  <1>4. ASSUME ~Restamped, filling.run
        PROVE  d \notin DOMAIN filling.batch /\ DOMAIN filling.batch \subseteq Document
    <2>1. DOMAIN filling.batch \in SUBSET Document
      BY <1>4, FillingFields DEF VectorInv
    <2> QED BY <1>4, <2>1 DEF PruneEmbeddings
  <1> QED BY <1>1, <1>2, <1>3, <1>4, Quiet, RowChanges

LEMMA FillCopyKeeps ==
  ASSUME VectorInv, NEW d \in Document, FillCopy(d)
  PROVE  VectorInv'
  <1>1. filling.run /\ d \in DOMAIN filling.batch
    BY DEF FillCopy
  <1>2. PICK D \in SUBSET Document : D = DOMAIN filling.batch
    BY <1>1, FillingFields DEF VectorInv
  <1>3. filling \in Batch(D, model) /\ filling.batch \in [D -> 1 .. model]
    BY <1>1, <1>2, FillingFields DEF VectorInv
  <1>4. PICK b : b = [x \in D \ {d} |-> filling.batch[x]]
    OBVIOUS
  <1>5. filling' = [filling EXCEPT !.batch = b]
    BY <1>2, <1>4 DEF FillCopy
  <1>6. b \in [D \ {d} -> 1 .. model] /\ DOMAIN b = D \ {d} /\ \A x \in D \ {d} : b[x] = filling.batch[x]
    BY <1>3, <1>4
  <1>7. filling' \in Batch(D \ {d}, model) /\ filling'.batch = b /\ D \ {d} \in SUBSET Document
    BY <1>3, <1>5, <1>6 DEF Batch
  <1>8. PICK n \in 1 .. model : n = filling.batch[d]
    BY <1>1, <1>2, <1>3
  <1>9. n \in Nat \ {0}
    BY <1>8, Quiet
  <1>10. PICK R : R = {[vector |-> r.vector, vec |-> n] : r \in rowOf[d]}
    OBVIOUS
  <1>11. rowOf[d] \in SUBSET EmbeddingRow /\ AtMostOne(rowOf[d]) /\ \A r \in rowOf[d] : r.vector <= model
    BY DEF VectorInv, VectorShape
  <1>12. \A q \in R : q \in EmbeddingRow /\ q.vec = n /\ \E r \in rowOf[d] : q.vector = r.vector
    BY <1>9, <1>10, <1>11 DEF EmbeddingRow
  <1>13. R \in SUBSET EmbeddingRow /\ AtMostOne(R) /\ \A r \in R : r.vector <= model
    BY <1>10, <1>11, <1>12 DEF AtMostOne
  <1>14. rowOf' = [rowOf EXCEPT ![d] = R]
    BY <1>8, <1>10 DEF FillCopy, Fillable, Unpacked
  <1>15. Aged = {} /\ ~Restamped => \A q \in R : q.vec = q.vector
    BY <1>1, <1>8, <1>12 DEF VectorInv, CopiesTrue
  <1>16. UNCHANGED <<visible, model, embedding, query, answer>>
    BY DEF FillCopy
  <1>17. \A q \in R : q.vec # 0
    BY <1>9, <1>12
  <1>18. /\ d \notin DOMAIN filling'.batch /\ DOMAIN filling'.batch \subseteq DOMAIN filling.batch
         /\ DOMAIN filling'.batch \subseteq Document
         /\ \A x \in DOMAIN filling'.batch : filling'.batch[x] = filling.batch[x]
    BY <1>2, <1>6, <1>7
  <1>19. filling' = NotFilling \/ \E E \in SUBSET Document : filling' \in Batch(E, model)
    BY <1>7
  <1> QED BY <1>1, <1>13, <1>14, <1>15, <1>16, <1>17, <1>18, <1>19, Quiet, RowChanges

\* The batch that is read has the vectors of the rows as they are.
LEMMA ReadBatchKeeps ==
  ASSUME VectorInv, ReadBatch
  PROVE  VectorInv'
  <1>1. Unfilled \in SUBSET Document
    BY DEF Unfilled
  <1>2. ASSUME NEW d \in Unfilled
        PROVE  /\ Packed(d) \in 1 .. model
               /\ rowOf[d] # NoRow /\ \A r \in rowOf[d] : r.vector = Packed(d) /\ r.vec = 0
    <2>1. PICK r \in rowOf[d] : r.vec = 0
      BY DEF Unfilled
    <2>2. rowOf[d] \in SUBSET EmbeddingRow /\ AtMostOne(rowOf[d]) /\ \A q \in rowOf[d] : q.vector <= model
      BY <1>1 DEF VectorInv, VectorShape
    <2>3. \A q \in rowOf[d] : q = r
      BY <2>1, <2>2 DEF AtMostOne
    <2>4. Packed(d) = r.vector
      BY <2>1, <2>3 DEF Packed
    <2>5. r.vector \in 1 .. model
      <3>1. PICK k \in Nat \ {0} : k = r.vector /\ k <= model
        BY <2>1, <2>2 DEF EmbeddingRow
      <3> QED BY <3>1, Quiet
    <2> QED BY <2>1, <2>3, <2>4, <2>5 DEF NoRow
  <1>3. CASE Unfilled = {}
    <2>1. filling' = NotFilling /\ ~filling'.run
      BY <1>3 DEF ReadBatch, NotFilling
    <2>2. FoundAll' <=> FoundAll
      BY DEF ReadBatch, FoundAll
    <2>3. model <= model'
      BY Quiet DEF ReadBatch
    <2> QED BY <2>1, <2>2, <2>3, Quiet, RowsStay DEF ReadBatch
  <1>4. CASE Unfilled # {}
    <2>1. PICK b : b = [d \in Unfilled |-> Packed(d)]
      OBVIOUS
    <2>2. filling' = [run |-> TRUE, batch |-> b]
      BY <1>4, <2>1 DEF ReadBatch
    <2>3. filling' \in Batch(Unfilled, model) /\ filling'.batch = b /\ DOMAIN b = Unfilled
      BY <1>2, <2>1, <2>2 DEF Batch
    <2>4. \A d \in DOMAIN filling'.batch : rowOf[d] # NoRow
            /\ \A r \in rowOf[d] : r.vector = filling'.batch[d] /\ r.vec = 0
      BY <1>2, <2>1, <2>3
    <2>5. FoundAll' <=> FoundAll
      BY DEF ReadBatch, FoundAll
    <2>6. model <= model'
      BY Quiet DEF ReadBatch
    <2>7. filling' = NotFilling \/ \E D \in SUBSET Document : filling' \in Batch(D, model')
      BY <1>1, <2>3 DEF ReadBatch
    <2>8. embedding' = embedding
      BY DEF ReadBatch
    <2>9. visible' = visible /\ model' = model /\ rowOf' = rowOf /\ query' = query
      BY DEF ReadBatch
    <2> QED BY <2>4, <2>5, <2>6, <2>7, <2>8, <2>9, Quiet, RowsStay
  <1> QED BY <1>3, <1>4

LEMMA SearchKeeps ==
  ASSUME VectorInv, SemanticSearch \/ semanticSearchIndexed
  PROVE  VectorInv'
  <1>1. UNCHANGED <<visible, rowOf, model, embedding, filling>> /\ model <= model'
    BY Quiet DEF SemanticSearch, semanticSearchIndexed
  <1>2. ASSUME Aged = {} PROVE FoundAll' /\ (query'.step = "rank" => Pending(query'.model) = {})
    <2>1. FoundAll /\ (query.step = "rank" => Pending(query.model) = {})
      BY <1>2, Quiet
    <2>2. CASE SemanticSearch /\ Incomplete
      BY <2>1, <2>2 DEF SemanticSearch, FoundAll
    <2>3. CASE SemanticSearch /\ ~Incomplete
      <3>1. query'.step = "rank" /\ query'.model = model /\ answer' = answer
        BY <2>3 DEF SemanticSearch
      <3> QED BY <2>1, <2>3, <3>1 DEF Incomplete, FoundAll
    <2>4. CASE semanticSearchIndexed
      <3>1. query'.step = "idle" /\ query.step = "rank"
        BY <2>4 DEF semanticSearchIndexed, NotAsking
      <3> QED BY <2>1, <2>4, <3>1 DEF semanticSearchIndexed, FoundAll
    <2> QED BY <2>2, <2>3, <2>4
  <1> QED BY <1>1, <1>2, Quiet, RowsStay

LEMMA VectorStep ==
  ASSUME VectorInv, [VectorNext]_vectorVars
  PROVE  VectorInv'
  <1>1. CASE UNCHANGED vectorVars
    <2>1. FoundAll' <=> FoundAll
      BY <1>1 DEF vectorVars, FoundAll
    <2>2. model <= model'
      BY <1>1, Quiet DEF vectorVars
    <2> QED BY <1>1, <2>1, <2>2, Quiet, RowsStay DEF vectorVars
  <1>2. CASE VectorNext
    BY <1>2, ShownKeeps, PruneEmbeddingsKeeps, SwapModelKeeps, ReadBatchKeeps, FillCopyKeeps,
       PutEmbeddingsKeeps, HasEmbeddingKeeps, SearchKeeps
       DEF VectorNext, Backfill
  <1> QED BY <1>1, <1>2

LEMMA VectorFacts ==
  ASSUME VectorInv
  PROVE  /\ Aged = {} => FoundAll
         /\ Aged = {} /\ ~Restamped => VectorTypeOK
  <1>1. ASSUME NEW d \in Document, NEW r \in rowOf[d] PROVE r.vector \in 1 .. model
    <2>1. PICK k \in Nat \ {0} : k = r.vector /\ k <= model
      BY DEF VectorInv, VectorShape, EmbeddingRow
    <2> QED BY <2>1, Quiet
  <1> QED BY <1>1 DEF VectorInv, VectorShape, AnswersHold, CopiesTrue, VectorTypeOK

-----------------------------------------------------------------------------
(***************************************************************************)
(* What a device declines                                                  *)
(***************************************************************************)
Plainly == [step : {"idle", "remove", "forget", "begin"}]
Ahead == [step : {"pull", "delete"}, todo : SUBSET Path]
Walking == [step : {"walk"}, todo : SUBSET Path, seen : SUBSET Path]

SelectiveShape ==
  /\ head \in [Path -> Nat] /\ onDisk \in [Path -> Nat] /\ tracked \in [Path -> Nat]
  /\ setAside \in [Path -> SUBSET Nat]
  /\ fresh \subseteq Path /\ dropped \subseteq Path /\ changes \in Nat
  /\ engine \in Plainly \cup Ahead \cup Walking
  /\ excludes \in BOOLEAN /\ excludes = saved

\* What is under a path, what is tracked for it and what the pass still means to do with it.
FileInv(f) ==
  /\ head[f] # 0 => head[f] \in sent
  /\ tracked[f] # 0 => tracked[f] \in sent
  /\ onDisk[f] # 0 /\ tracked[f] = 0 => Excluded(f)
  /\ onDisk[f] = 0 /\ tracked[f] # 0 => f \in dropped \/ (engine.step = "forget" /\ f \in Within)
  /\ engine.step = "walk" /\ f \notin engine.todo /\ f \notin engine.seen => onDisk[f] = 0 \/ Excluded(f)
  /\ engine.step = "delete" /\ f \in engine.todo => tracked[f] # 0 /\ (onDisk[f] = 0 \/ Excluded(f))
  /\ engine.step = "remove" /\ f \in Within => onDisk[f] \in {0, tracked[f]} /\ setAside[f] = {}

\* A folder that is declined is tracked and clean of what nobody sent, or is not tracked at all.
Declined ==
  \/ \A f \in Within : setAside[f] = {} /\ (onDisk[f] = 0 \/ tracked[f] # 0)
  \/ \A f \in Within : tracked[f] = 0

SelectiveInv ==
  /\ SelectiveShape
  /\ \A f \in Path : FileInv(f)
  /\ engine.step \in {"remove", "forget"} => excludes
  /\ excludes => Declined

LEMMA Excluding == \A f \in Within : f \in Path
  BY SelectiveAssumption

LEMMA SelectiveStart == SelectiveInit => SelectiveInv
  <1> SUFFICES ASSUME SelectiveInit PROVE SelectiveInv
    OBVIOUS
  <1>1. head \in [Path -> Nat] /\ {} \in SUBSET Nat
    BY DEF SelectiveInit
  <1>2. engine \in Plainly /\ engine.step = "idle"
    BY DEF SelectiveInit, Plainly
  <1>3. SelectiveShape
    BY <1>1, <1>2, SelectiveAssumption DEF SelectiveInit, SelectiveShape
  <1>4. ASSUME NEW f \in Path PROVE FileInv(f)
    <2>1. head[f] # 0 => head[f] \in sent
      BY DEF SelectiveInit
    <2> QED BY <1>2, <2>1 DEF SelectiveInit, FileInv, Excluded
  <1> QED BY <1>2, <1>3, <1>4 DEF SelectiveInit, SelectiveInv

LEMMA EditCopyKeeps ==
  ASSUME Mishaps = {}, SelectiveInv, NEW g \in Path, EditCopy(g)
  PROVE  SelectiveInv'
  <1>1. changes \in Nat /\ onDisk \in [Path -> Nat]
    BY DEF SelectiveInv, SelectiveShape
  <1>2. PICK c \in Nat \ {0} : c = Content
    BY <1>1 DEF Content
  <1>3. /\ onDisk' = [onDisk EXCEPT ![g] = c] /\ changes' = changes + 1
        /\ tracked[g] # 0 /\ onDisk[g] # 0 /\ (g \notin Within \/ engine.step # "remove")
        /\ UNCHANGED <<head, sent, fresh, setAside, tracked, excludes, saved, engine, dropped>>
    BY <1>2 DEF EditCopy, May, Changes, server, choice
  <1>4. onDisk' \in [Path -> Nat] /\ onDisk'[g] = c /\ \A f \in Path : f # g => onDisk'[f] = onDisk[f]
    BY <1>1, <1>2, <1>3
  <1>5. SelectiveShape'
    BY <1>1, <1>3, <1>4 DEF SelectiveInv, SelectiveShape
  <1>6. \A f \in Path : FileInv(f)'
    BY <1>2, <1>3, <1>4 DEF SelectiveInv, FileInv, Excluded
  <1>7. excludes => Declined'
    BY <1>2, <1>3, <1>4, Excluding DEF SelectiveInv, Declined
  <1> QED BY <1>3, <1>5, <1>6, <1>7 DEF SelectiveInv

LEMMA RemoveFileKeeps ==
  ASSUME Mishaps = {}, SelectiveInv, NEW g \in Path, RemoveFile(g)
  PROVE  SelectiveInv'
  <1>1. changes \in Nat /\ onDisk \in [Path -> Nat]
    BY DEF SelectiveInv, SelectiveShape
  <1>2. /\ onDisk' = [onDisk EXCEPT ![g] = 0] /\ changes' = changes + 1 /\ dropped' = dropped \cup {g}
        /\ UNCHANGED <<head, sent, fresh, setAside, tracked, excludes, saved, engine>>
    BY DEF RemoveFile, Changes, server, choice
  <1>3. onDisk' \in [Path -> Nat] /\ onDisk'[g] = 0 /\ \A f \in Path : f # g => onDisk'[f] = onDisk[f]
    BY <1>1, <1>2
  <1>4. SelectiveShape'
    BY <1>1, <1>2, <1>3 DEF SelectiveInv, SelectiveShape
  <1>5. \A f \in Path : FileInv(f)'
    BY <1>2, <1>3 DEF SelectiveInv, FileInv, Excluded
  <1>6. excludes => Declined'
    BY <1>2, <1>3, Excluding DEF SelectiveInv, Declined
  <1> QED BY <1>2, <1>4, <1>5, <1>6 DEF SelectiveInv

LEMMA RemoteWriteKeeps ==
  ASSUME SelectiveInv, NEW g \in Path, RemoteWrite(g)
  PROVE  SelectiveInv'
  <1>1. changes \in Nat /\ head \in [Path -> Nat]
    BY DEF SelectiveInv, SelectiveShape
  <1>2. PICK c \in Nat \ {0} : c = Content
    BY <1>1 DEF Content
  <1>3. /\ head' = [head EXCEPT ![g] = c] /\ changes' = changes + 1 /\ sent' = sent \cup {c}
        /\ fresh' = fresh \cup {g}
        /\ UNCHANGED <<onDisk, setAside, tracked, excludes, saved, engine, dropped>>
    BY <1>2 DEF RemoteWrite, Changes, localState, choice
  <1>4. head' \in [Path -> Nat] /\ head'[g] = c /\ \A f \in Path : f # g => head'[f] = head[f]
    BY <1>1, <1>2, <1>3
  <1>5. SelectiveShape'
    BY <1>1, <1>3, <1>4 DEF SelectiveInv, SelectiveShape
  <1>6. \A f \in Path : FileInv(f)'
    BY <1>3, <1>4 DEF SelectiveInv, FileInv, Excluded
  <1>7. excludes => Declined'
    BY <1>3 DEF SelectiveInv, Declined
  <1> QED BY <1>3, <1>5, <1>6, <1>7 DEF SelectiveInv

LEMMA SetExcludesKeeps ==
  ASSUME Mishaps = {}, SelectiveInv, NEW b \in BOOLEAN, SetExcludes(b)
  PROVE  SelectiveInv'
  <1>1. /\ excludes' = b /\ saved' = b
        /\ Untracked = {} /\ (\A f \in Within : setAside[f] = {})
        /\ b \/ engine.step = "idle"
        /\ UNCHANGED <<head, sent, fresh, onDisk, setAside, tracked, engine, dropped, changes>>
    BY DEF SetExcludes, May, server, localState
  <1>2. \A f \in Within : onDisk[f] = 0 \/ tracked[f] # 0
    BY <1>1 DEF Untracked
  <1>3. SelectiveShape'
    BY <1>1 DEF SelectiveInv, SelectiveShape
  <1>4. ASSUME NEW f \in Path PROVE FileInv(f)'
    <2>1. FileInv(f)
      BY DEF SelectiveInv
    <2>2. CASE b
      BY <1>1, <2>1, <2>2 DEF FileInv, Excluded
    <2>3. CASE ~b
      BY <1>1, <1>2, <2>1, <2>3 DEF FileInv, Excluded
    <2> QED BY <2>2, <2>3
  <1>5. Declined'
    BY <1>1, <1>2 DEF Declined
  <1>6. engine'.step \in {"remove", "forget"} => excludes'
    BY <1>1
  <1> QED BY <1>3, <1>4, <1>5, <1>6 DEF SelectiveInv

\* Where the pass goes without a change of anything else.
LEMMA PassGoesOn ==
  ASSUME SelectiveInv,
         UNCHANGED <<head, sent, fresh, onDisk, setAside, tracked, excludes, saved, dropped>>,
         changes' \in Nat, engine.step # "forget", engine' \in Plainly \cup Ahead \cup Walking,
         engine'.step \in {"remove", "forget"} => excludes,
         engine'.step = "walk" => \A f \in Path : f \in engine'.todo,
         engine'.step = "delete" => \A f \in engine'.todo : tracked[f] # 0 /\ (onDisk[f] = 0 \/ Excluded(f)),
         engine'.step = "remove" => \A f \in Within : onDisk[f] \in {0, tracked[f]} /\ setAside[f] = {}
  PROVE  SelectiveInv'
  <1>1. SelectiveShape'
    BY DEF SelectiveInv, SelectiveShape
  <1>2. ASSUME NEW f \in Path PROVE FileInv(f)'
    <2>1. FileInv(f)
      BY DEF SelectiveInv
    <2>2. Excluded(f)' <=> Excluded(f)
      BY DEF Excluded
    <2> QED BY <2>1, <2>2 DEF FileInv
  <1>3. Declined' <=> Declined
    BY DEF Declined
  <1> QED BY <1>1, <1>2, <1>3 DEF SelectiveInv

LEMMA StartEngineKeeps ==
  ASSUME Mishaps = {}, SelectiveInv, StartEngine
  PROVE  SelectiveInv'
  <1>1. engine'.step = "idle" /\ engine' \in Plainly /\ engine.step # "forget"
    BY DEF StartEngine, Plainly, May
  <1>2. changes' \in Nat /\ saved = excludes
    BY DEF StartEngine, Changes, SelectiveInv, SelectiveShape
  <1>3. UNCHANGED <<head, sent, fresh, onDisk, setAside, tracked, excludes, saved, dropped>>
    BY <1>2 DEF StartEngine, SeedExcludes, server, localState
  <1> QED BY <1>1, <1>2, <1>3, PassGoesOn

LEMMA pruneExcludedKeeps ==
  ASSUME SelectiveInv, pruneExcluded
  PROVE  SelectiveInv'
  <1>1. UNCHANGED <<head, sent, fresh, onDisk, setAside, tracked, excludes, saved, dropped>>
        /\ changes' \in Nat /\ engine.step = "idle"
    BY DEF pruneExcluded, server, localState, choice, bounds, SelectiveInv, SelectiveShape
  <1>2. PICK s \in {"begin", "forget", "remove"} :
          /\ engine' = [step |-> s]
          /\ s = "begin" \/ (excludes /\ ~ \A f \in Within : tracked[f] = 0)
          /\ s = "remove" => ~Dirty
    BY DEF pruneExcluded, GoesOn
  <1>3. engine' \in Plainly /\ engine'.step = s
    BY <1>2 DEF Plainly
  <1>4. ASSUME s = "remove", NEW f \in Within
        PROVE  onDisk[f] \in {0, tracked[f]} /\ setAside[f] = {}
    <2>1. Declined /\ ~ \A g \in Within : tracked[g] = 0
      BY <1>2, <1>4 DEF SelectiveInv
    <2>2. setAside[f] = {} /\ (onDisk[f] = 0 \/ tracked[f] # 0)
      BY <2>1 DEF Declined
    <2>3. ~Modified(f)
      BY <1>2, <1>4 DEF Dirty
    <2> QED BY <2>2, <2>3 DEF Modified
  <1> QED BY <1>1, <1>2, <1>3, <1>4, PassGoesOn

LEMMA PassTurns ==
  ASSUME SelectiveInv, BeginPull \/ EndPull \/ EndWalk \/ EndPass
  PROVE  SelectiveInv'
  <1>1. UNCHANGED <<head, sent, fresh, onDisk, setAside, tracked, excludes, saved, dropped>>
        /\ changes' \in Nat
    BY DEF BeginPull, EndPull, EndWalk, EndPass, server, localState, choice, bounds,
           SelectiveInv, SelectiveShape
  <1>2. CASE BeginPull
    <2>1. PICK T \in SUBSET Path : engine' = [step |-> "pull", todo |-> T]
      BY <1>2 DEF BeginPull, GoesOn, SelectiveInv, SelectiveShape
    <2>2. engine' \in Ahead /\ engine'.step = "pull" /\ engine.step = "begin"
      BY <1>2, <2>1 DEF Ahead, BeginPull
    <2> QED BY <1>1, <2>2, PassGoesOn
  <1>3. CASE EndPull
    <2>1. engine' = [step |-> "walk", todo |-> Path, seen |-> {}]
      BY <1>3 DEF EndPull, GoesOn
    <2>2. Path \in SUBSET Path /\ {} \in SUBSET Path
      OBVIOUS
    <2>3. engine' \in Walking /\ engine'.step = "walk" /\ engine'.todo = Path /\ engine.step = "pull"
      BY <1>3, <2>1, <2>2 DEF Walking, EndPull
    <2> QED BY <1>1, <2>3, PassGoesOn
  <1>4. CASE EndWalk
    <2>1. engine.step = "walk" /\ engine.todo = {}
      BY <1>4 DEF EndWalk
    <2>2. PICK T : T = {f \in Path : tracked[f] # 0} \ engine.seen
      OBVIOUS
    <2>3. engine' = [step |-> "delete", todo |-> T] /\ T \in SUBSET Path
      BY <1>4, <2>2 DEF EndWalk, GoesOn
    <2>4. engine' \in Ahead /\ engine'.step = "delete" /\ engine'.todo = T
      BY <2>3 DEF Ahead
    <2>5. \A f \in T : tracked[f] # 0 /\ (onDisk[f] = 0 \/ Excluded(f))
      BY <2>1, <2>2 DEF SelectiveInv, FileInv
    <2> QED BY <1>1, <2>1, <2>4, <2>5, PassGoesOn
  <1>5. CASE EndPass
    <2>1. engine' \in Plainly /\ engine'.step = "idle" /\ engine.step = "delete"
      BY <1>5 DEF EndPass, GoesOn, Plainly
    <2> QED BY <1>1, <2>1, PassGoesOn
  <1> QED BY <1>2, <1>3, <1>4, <1>5

LEMMA RemoveAllKeeps ==
  ASSUME Mishaps = {}, SelectiveInv, RemoveAll
  PROVE  SelectiveInv'
  <1>1. /\ engine.step = "remove" /\ engine' = [step |-> "forget"]
        /\ onDisk' = [f \in Path |-> IF f \in Within THEN 0 ELSE onDisk[f]]
        /\ setAside' = [f \in Path |-> IF f \in Within THEN {} ELSE setAside[f]]
        /\ UNCHANGED <<head, sent, fresh, tracked, excludes, saved, dropped, changes>>
    BY DEF RemoveAll, May, GoesOn, server, choice, bounds
  <1>2. engine' \in Plainly /\ engine'.step = "forget" /\ {} \in SUBSET Nat
    BY <1>1 DEF Plainly
  <1>3. onDisk' \in [Path -> Nat] /\ setAside' \in [Path -> SUBSET Nat]
    BY <1>1, <1>2 DEF SelectiveInv, SelectiveShape
  <1>4. SelectiveShape'
    BY <1>1, <1>2, <1>3 DEF SelectiveInv, SelectiveShape
  <1>5. \A f \in Path : FileInv(f)'
    BY <1>1, <1>2 DEF SelectiveInv, FileInv, Excluded
  <1>6. Declined'
    BY <1>1, Excluding DEF Declined
  <1> QED BY <1>1, <1>4, <1>5, <1>6 DEF SelectiveInv

LEMMA forgetSubtreeKeeps ==
  ASSUME SelectiveInv, forgetSubtree
  PROVE  SelectiveInv'
  <1>1. /\ engine.step = "forget" /\ engine' = [step |-> "begin"]
        /\ tracked' = [f \in Path |-> IF f \in Within THEN 0 ELSE tracked[f]]
        /\ UNCHANGED <<head, sent, fresh, onDisk, setAside, excludes, saved, dropped, changes>>
    BY DEF forgetSubtree, Forgettable, GoesOn, server, choice, bounds
  <1>2. engine' \in Plainly /\ engine'.step = "begin"
    BY <1>1 DEF Plainly
  <1>3. tracked' \in [Path -> Nat]
    BY <1>1 DEF SelectiveInv, SelectiveShape
  <1>4. SelectiveShape'
    BY <1>1, <1>2, <1>3 DEF SelectiveInv, SelectiveShape
  <1>5. \A f \in Path : FileInv(f)'
    BY <1>1, <1>2 DEF SelectiveInv, FileInv, Excluded
  <1>6. Declined'
    BY <1>1, Excluding DEF Declined
  <1> QED BY <1>1, <1>2, <1>4, <1>5, <1>6 DEF SelectiveInv

LEMMA Struck ==
  ASSUME SelectiveShape, NEW g \in Path, engine.step \in {"pull", "delete"},
         engine' = [engine EXCEPT !.todo = @ \ {g}]
  PROVE  engine' \in Ahead /\ engine'.step = engine.step /\ engine'.todo = engine.todo \ {g}
  BY DEF SelectiveShape, Plainly, Ahead, Walking

LEMMA StruckInWalk ==
  ASSUME SelectiveShape, NEW g \in Path, NEW S, engine.step = "walk", S \subseteq {g},
         engine' = [engine EXCEPT !.todo = @ \ {g}, !.seen = @ \cup S]
  PROVE  /\ engine' \in Walking /\ engine'.step = "walk"
         /\ engine'.todo = engine.todo \ {g} /\ engine'.seen = engine.seen \cup S
  BY DEF SelectiveShape, Plainly, Ahead, Walking

LEMMA applyChangeKeeps ==
  ASSUME SelectiveInv, NEW g \in Path, applyChange(g)
  PROVE  SelectiveInv'
  <1>1. /\ engine.step = "pull" /\ engine' = [engine EXCEPT !.todo = @ \ {g}]
        /\ fresh' = fresh \ {g}
        /\ UNCHANGED <<head, sent, excludes, saved, changes>>
    BY DEF applyChange, GoesOn, choice, bounds
  <1>2. engine' \in Ahead /\ engine'.step = "pull"
    BY <1>1, Struck DEF SelectiveInv
  <1>3. CASE UNCHANGED <<localState, dropped>>
    <2>1. UNCHANGED <<onDisk, setAside, tracked, dropped>>
      BY <1>3 DEF localState
    <2>2. SelectiveShape'
      BY <1>1, <1>2, <2>1 DEF SelectiveInv, SelectiveShape
    <2>3. \A f \in Path : FileInv(f)'
      BY <1>1, <1>2, <2>1 DEF SelectiveInv, FileInv, Excluded
    <2>4. Declined' <=> Declined
      BY <2>1 DEF Declined
    <2> QED BY <1>1, <1>2, <2>2, <2>3, <2>4 DEF SelectiveInv
  <1>4. CASE ~Excluded(g) /\ head[g] # 0 /\ PullDown(g)
    <2>1. PICK h \in Nat \ {0} : h = head[g]
      BY <1>4 DEF SelectiveInv, SelectiveShape
    <2>2. PICK A : A = IF Modified(g) THEN setAside[g] \cup {onDisk[g]} ELSE setAside[g]
      OBVIOUS
    <2>3. A \in SUBSET Nat
      <3>1. onDisk[g] \in Nat /\ setAside[g] \in SUBSET Nat
        BY DEF SelectiveInv, SelectiveShape
      <3> QED BY <2>2, <3>1
    <2>4. /\ onDisk' = [onDisk EXCEPT ![g] = h] /\ tracked' = [tracked EXCEPT ![g] = h]
          /\ setAside' = [setAside EXCEPT ![g] = A] /\ dropped' = dropped \ {g}
      BY <1>4, <2>1, <2>2 DEF PullDown
    <2>5. SelectiveShape'
      BY <1>1, <1>2, <2>1, <2>3, <2>4 DEF SelectiveInv, SelectiveShape
    <2>6. /\ onDisk'[g] = h /\ tracked'[g] = h /\ h \in sent
          /\ \A f \in Path : f # g => /\ onDisk'[f] = onDisk[f] /\ tracked'[f] = tracked[f]
                                      /\ setAside'[f] = setAside[f]
      BY <2>1, <2>4 DEF SelectiveInv, SelectiveShape, FileInv
    <2>7. \A f \in Path : FileInv(f)'
      BY <1>1, <1>2, <2>1, <2>4, <2>6 DEF SelectiveInv, FileInv, Excluded
    <2>8. excludes => Declined'
      <3>1. excludes => g \notin Within
        BY <1>4 DEF Excluded
      <3> QED BY <2>6, <3>1, Excluding DEF SelectiveInv, Declined
    <2> QED BY <1>1, <1>2, <2>5, <2>7, <2>8 DEF SelectiveInv
  <1> QED BY <1>3, <1>4 DEF applyChange

LEMMA pushExistingKeeps ==
  ASSUME SelectiveInv, NEW g \in Path, pushExisting(g)
  PROVE  SelectiveInv'
  <1>1. engine.step = "walk" /\ UNCHANGED <<onDisk, excludes, saved, dropped, changes>>
    BY DEF pushExisting, choice, bounds
  <1>2. CASE Excluded(g) /\ UNCHANGED <<server, tracked, setAside>> /\ GoesOn([engine EXCEPT !.todo = @ \ {g}])
    <2>1. engine' = [engine EXCEPT !.todo = @ \ {g}] /\ UNCHANGED <<head, sent, fresh, tracked, setAside>>
      BY <1>2 DEF GoesOn, server
    <2>2. engine' \in Walking /\ engine'.step = "walk" /\ engine'.todo = engine.todo \ {g} /\ engine'.seen = engine.seen
      BY <1>1, <2>1 DEF SelectiveInv, SelectiveShape, Plainly, Ahead, Walking
    <2>3. SelectiveShape'
      BY <1>1, <2>1, <2>2 DEF SelectiveInv, SelectiveShape
    <2>4. \A f \in Path : FileInv(f)'
      BY <1>1, <1>2, <2>1, <2>2 DEF SelectiveInv, FileInv, Excluded
    <2>5. Declined' <=> Declined
      BY <1>1, <2>1 DEF Declined
    <2> QED BY <1>1, <2>2, <2>3, <2>4, <2>5 DEF SelectiveInv
  <1>3. CASE /\ ~Excluded(g) /\ Sends(g)
             /\ GoesOn([engine EXCEPT !.todo = @ \ {g}, !.seen = IF onDisk[g] # 0 THEN @ \cup {g} ELSE @])
    <2>1. PICK S \in SUBSET {g} : S = IF onDisk[g] # 0 THEN {g} ELSE {}
      OBVIOUS
    <2>2. engine' = [engine EXCEPT !.todo = @ \ {g}, !.seen = @ \cup S]
      BY <1>3, <2>1 DEF GoesOn
    <2>3. /\ engine' \in Walking /\ engine'.step = "walk"
          /\ engine'.todo = engine.todo \ {g} /\ engine'.seen = engine.seen \cup S
      BY <1>1, <2>1, <2>2, StruckInWalk DEF SelectiveInv
    <2>4. PICK h, t \in Nat :
            /\ h = IF onDisk[g] # 0 /\ onDisk[g] # tracked[g] THEN onDisk[g] ELSE head[g]
            /\ t = IF onDisk[g] # 0 /\ onDisk[g] # tracked[g] THEN onDisk[g] ELSE tracked[g]
      BY DEF SelectiveInv, SelectiveShape
    <2>5. /\ head' = [head EXCEPT ![g] = h] /\ tracked' = [tracked EXCEPT ![g] = t]
          /\ setAside' = [setAside EXCEPT ![g] = {}]
          /\ fresh' \subseteq fresh \cup {g} /\ sent \subseteq sent'
          /\ onDisk[g] # 0 /\ onDisk[g] # tracked[g] => onDisk[g] \in sent'
      BY <1>3, <2>4 DEF Sends
    <2>6. {} \in SUBSET Nat
      OBVIOUS
    <2>7. SelectiveShape'
      BY <1>1, <2>3, <2>5, <2>6 DEF SelectiveInv, SelectiveShape
    <2>8. /\ head'[g] = h /\ tracked'[g] = t /\ setAside'[g] = {}
          /\ \A f \in Path : f # g => /\ head'[f] = head[f] /\ tracked'[f] = tracked[f]
                                      /\ setAside'[f] = setAside[f]
      BY <2>5 DEF SelectiveInv, SelectiveShape
    <2>9. ASSUME NEW f \in Path PROVE FileInv(f)'
      <3>1. FileInv(f)
        BY DEF SelectiveInv
      <3>2. CASE f # g
        BY <1>1, <2>1, <2>3, <2>5, <2>8, <3>1, <3>2 DEF FileInv, Excluded
      <3>3. CASE f = g
        BY <1>1, <1>3, <2>1, <2>3, <2>4, <2>5, <2>8, <3>1, <3>3 DEF FileInv, Excluded
      <3> QED BY <3>2, <3>3
    <2>10. excludes => Declined'
      <3>1. excludes => g \notin Within
        BY <1>3 DEF Excluded
      <3> QED BY <1>1, <2>8, <3>1, Excluding DEF SelectiveInv, Declined
    <2> QED BY <1>1, <2>3, <2>7, <2>9, <2>10 DEF SelectiveInv
  <1> QED BY <1>2, <1>3 DEF pushExisting

LEMMA pushDeletionsKeeps ==
  ASSUME SelectiveInv, NEW g \in Path, pushDeletions(g)
  PROVE  SelectiveInv'
  <1>1. /\ engine.step = "delete" /\ g \in engine.todo /\ engine' = [engine EXCEPT !.todo = @ \ {g}]
        /\ UNCHANGED <<sent, onDisk, setAside, excludes, saved, changes>>
    BY DEF pushDeletions, GoesOn, choice, bounds
  <1>2. engine' \in Ahead /\ engine'.step = "delete" /\ engine'.todo = engine.todo \ {g}
    BY <1>1, Struck DEF SelectiveInv
  <1>3. CASE UNCHANGED <<head, tracked, fresh, dropped>>
    <2>1. SelectiveShape'
      BY <1>1, <1>2, <1>3 DEF SelectiveInv, SelectiveShape
    <2>2. \A f \in Path : FileInv(f)'
      BY <1>1, <1>2, <1>3 DEF SelectiveInv, FileInv, Excluded
    <2>3. Declined' <=> Declined
      BY <1>1, <1>3 DEF Declined
    <2> QED BY <1>1, <1>2, <2>1, <2>2, <2>3 DEF SelectiveInv
  <1>4. CASE /\ ~Excluded(g) /\ head' = [head EXCEPT ![g] = 0] /\ tracked' = [tracked EXCEPT ![g] = 0]
             /\ fresh' = fresh \ {g} /\ dropped' = dropped \ {g}
    <2>1. SelectiveShape'
      BY <1>1, <1>2, <1>4 DEF SelectiveInv, SelectiveShape
    <2>2. /\ head'[g] = 0 /\ tracked'[g] = 0 /\ onDisk[g] = 0
          /\ \A f \in Path : f # g => head'[f] = head[f] /\ tracked'[f] = tracked[f]
      BY <1>1, <1>4 DEF SelectiveInv, SelectiveShape, FileInv
    <2>3. \A f \in Path : FileInv(f)'
      BY <1>1, <1>2, <1>4, <2>2 DEF SelectiveInv, FileInv, Excluded
    <2>4. excludes => Declined'
      <3>1. excludes => g \notin Within
        BY <1>4 DEF Excluded
      <3> QED BY <1>1, <2>2, <3>1, Excluding DEF SelectiveInv, Declined
    <2> QED BY <1>1, <1>2, <2>1, <2>3, <2>4 DEF SelectiveInv
  <1> QED BY <1>3, <1>4 DEF pushDeletions, Trashable

LEMMA SelectiveStep ==
  ASSUME Mishaps = {}, SelectiveInv, [SelectiveNext]_selectiveVars
  PROVE  SelectiveInv'
  <1>1. CASE UNCHANGED selectiveVars
    BY <1>1 DEF selectiveVars, SelectiveInv, SelectiveShape, FileInv, Excluded, Declined
  <1>2. CASE SelectiveNext
    BY <1>2, EditCopyKeeps, RemoveFileKeeps, RemoteWriteKeeps, SetExcludesKeeps, StartEngineKeeps,
       pruneExcludedKeeps, PassTurns, RemoveAllKeeps, forgetSubtreeKeeps, applyChangeKeeps,
       pushExistingKeeps, pushDeletionsKeeps
       DEF SelectiveNext, SyncPass
  <1> QED BY <1>1, <1>2

LEMMA SelectiveFacts == SelectiveInv => SelectiveTypeOK
  BY DEF SelectiveInv, SelectiveShape, FileInv, SelectiveTypeOK

\* A path loses its file on the server where a deletion is pushed, and the user removed it.
LEMMA RemovalsAreTheUsers ==
  ASSUME Mishaps = {}, SelectiveInv, [SelectiveNext]_selectiveVars,
         NEW f \in Path, head[f] # 0, head'[f] = 0
  PROVE  f \in dropped
  <1>1. changes \in Nat /\ head \in [Path -> Nat] /\ onDisk \in [Path -> Nat]
    BY DEF SelectiveInv, SelectiveShape
  <1>2. CASE \E g \in Path : RemoteWrite(g)
    <2>1. PICK c \in Nat \ {0} : c = Content
      BY <1>1 DEF Content
    <2> QED BY <1>1, <1>2, <2>1 DEF RemoteWrite
  <1>3. CASE \E g \in Path : pushExisting(g)
    BY <1>1, <1>3 DEF pushExisting, Sends, server
  <1>4. CASE \E g \in Path : pushDeletions(g)
    <2>1. PICK g \in Path : pushDeletions(g)
      BY <1>4
    <2>2. f = g /\ ~Excluded(g) /\ engine.step = "delete" /\ g \in engine.todo
      BY <1>1, <2>1 DEF pushDeletions, Trashable
    <2> QED BY <2>2 DEF SelectiveInv, FileInv
  <1>5. CASE ~ \E g \in Path : RemoteWrite(g) \/ pushExisting(g) \/ pushDeletions(g)
    BY <1>5 DEF SelectiveNext, selectiveVars, SyncPass, EditCopy, RemoveFile, SetExcludes, StartEngine,
       pruneExcluded, RemoveAll, forgetSubtree, BeginPull, applyChange, EndPull, EndWalk, EndPass, server
  <1> QED BY <1>2, <1>3, <1>4, <1>5

LEMMA WhatStays ==
  ASSUME NEW disk, NEW set, NEW have, NEW c
  PROVE  c \in Stays(disk, set, have)
           <=> (\E f \in Path : c = disk[f]) \/ (\E f \in Path : c \in set[f]) \/ c \in have
  <1>1. ASSUME NEW f \in Path, c = disk[f] PROVE c \in Stays(disk, set, have)
    BY <1>1, Zenon DEF Stays
  <1>2. ASSUME NEW f \in Path, c \in set[f] PROVE c \in Stays(disk, set, have)
    BY <1>2, Zenon DEF Stays
  <1>3. ASSUME c \in have PROVE c \in Stays(disk, set, have)
    BY <1>3, Zenon DEF Stays
  <1>4. ASSUME c \in Stays(disk, set, have), c \notin have
        PROVE  (\E f \in Path : c = disk[f]) \/ (\E f \in Path : c \in set[f])
    BY <1>4, Zenon DEF Stays
  <1> QED BY <1>1, <1>2, <1>3, <1>4, Zenon

LEMMA StillThere ==
  ASSUME \A f \in Path : onDisk[f] # 0 =>
           (onDisk[f] \in sent' \/ \E g \in Path : onDisk[f] = onDisk'[g] \/ onDisk[f] \in setAside'[g]),
         \A f \in Path : \A c \in setAside[f] : c \in sent' \/ \E g \in Path : c \in setAside'[g],
         sent \subseteq sent'
  PROVE  Stays(onDisk, setAside, sent) \ {0} \subseteq Stays(onDisk', setAside', sent')
  <1> SUFFICES ASSUME NEW c, c \in Stays(onDisk, setAside, sent), c # 0
               PROVE  c \in Stays(onDisk', setAside', sent')
    OBVIOUS
  <1>1. (\E f \in Path : c = onDisk[f]) \/ (\E f \in Path : c \in setAside[f]) \/ c \in sent
    BY WhatStays
  <1>2. (\E f \in Path : c = onDisk'[f]) \/ (\E f \in Path : c \in setAside'[f]) \/ c \in sent'
    BY <1>1
  <1> QED BY <1>2, WhatStays

\* A pass takes from the disk only what is on the server, or sets it aside.
LEMMA NothingUnsentGoes ==
  ASSUME Mishaps = {}, SelectiveInv, SyncPass
  PROVE  Stays(onDisk, setAside, sent) \ {0} \subseteq Stays(onDisk', setAside', sent')
  <1>1. /\ \A f \in Path : FileInv(f)
        /\ onDisk \in [Path -> Nat] /\ setAside \in [Path -> SUBSET Nat] /\ tracked \in [Path -> Nat]
    BY DEF SelectiveInv, SelectiveShape
  <1>2. CASE UNCHANGED <<onDisk, setAside, sent>>
    BY <1>2 DEF Stays
  <1>3. CASE RemoveAll
    <2>1. /\ engine.step = "remove" /\ sent' = sent
          /\ onDisk' = [f \in Path |-> IF f \in Within THEN 0 ELSE onDisk[f]]
          /\ setAside' = [f \in Path |-> IF f \in Within THEN {} ELSE setAside[f]]
      BY <1>3 DEF RemoveAll, May, server
    <2>2. \A f \in Within : (onDisk[f] # 0 => onDisk[f] \in sent) /\ setAside[f] = {}
      BY <1>1, <2>1, Excluding DEF FileInv
    <2>3. \A f \in Path \ Within : onDisk'[f] = onDisk[f] /\ setAside'[f] = setAside[f]
      BY <2>1
    <2> QED BY <2>1, <2>2, <2>3, StillThere
  <1>4. ASSUME NEW g \in Path, applyChange(g), PullDown(g), ~Excluded(g), tracked[g] = head[g] => onDisk[g] = 0
        PROVE  Stays(onDisk, setAside, sent) \ {0} \subseteq Stays(onDisk', setAside', sent')
    <2>1. sent' = sent /\ \A f \in Path : f # g => onDisk'[f] = onDisk[f] /\ setAside'[f] = setAside[f]
      BY <1>1, <1>4 DEF applyChange, PullDown
    <2>2. setAside[g] \subseteq setAside'[g]
      BY <1>1, <1>4 DEF PullDown
    <2>3. onDisk[g] # 0 => onDisk[g] \in setAside'[g] \cup sent
      <3>1. CASE Modified(g)
        BY <1>1, <1>4, <3>1 DEF PullDown
      <3>2. CASE ~Modified(g)
        BY <1>1, <1>4, <3>2 DEF Modified, FileInv
      <3> QED BY <3>1, <3>2
    <2> QED BY <2>1, <2>2, <2>3, StillThere
  <1>5. ASSUME NEW g \in Path, pushExisting(g), Sends(g)
        PROVE  Stays(onDisk, setAside, sent) \ {0} \subseteq Stays(onDisk', setAside', sent')
    <2>1. onDisk' = onDisk /\ sent \cup setAside[g] \subseteq sent'
      BY <1>5 DEF pushExisting, Sends
    <2>2. \A f \in Path : f # g => setAside'[f] = setAside[f]
      BY <1>1, <1>5 DEF Sends
    <2> QED BY <2>1, <2>2, StillThere
  <1>6. CASE pruneExcluded \/ forgetSubtree \/ BeginPull \/ EndPull \/ EndWalk \/ EndPass
    BY <1>2, <1>6 DEF pruneExcluded, forgetSubtree, BeginPull, EndPull, EndWalk, EndPass, server, localState
  <1>7. CASE \E g \in Path : applyChange(g)
    BY <1>2, <1>4, <1>7 DEF applyChange, localState
  <1>8. CASE \E g \in Path : pushExisting(g)
    BY <1>2, <1>5, <1>8 DEF pushExisting, server
  <1>9. CASE \E g \in Path : pushDeletions(g)
    BY <1>2, <1>9 DEF pushDeletions
  <1> QED BY <1>3, <1>6, <1>7, <1>8, <1>9 DEF SyncPass

-----------------------------------------------------------------------------
(***************************************************************************)
(* Variants of pictures                                                    *)
(***************************************************************************)
Rows(S) == UNION {[D -> BlobKey] : D \in SUBSET S}

Idle == [step : {"idle"}]
Stating == [step : {"state"}, node : Picture]
Rendering == [step : {"meta", "render"}, node : Picture, missing : SUBSET Rendition]
Putting == [step : {"put"}, node : Picture, missing : SUBSET Rendition,
            variant : Rendition, key : SUBSET BlobKey]
Upserting == [step : {"upsert"}, node : Picture, missing : SUBSET Rendition,
              variant : Rendition, key : SUBSET BlobKey, old : SUBSET BlobKey]
Removing == [step : {"remove"}, node : Picture, missing : SUBSET Rendition, key : SUBSET BlobKey]

Handling == Idle \cup Stating \cup Rendering \cup Putting \cup Upserting \cup Removing
Listing == [step : {"rows"}, list : Rows(Rendition)]
Taking == [step : {"bytes"}, list : Rows(Rendition), taken : Rendition]

MediaShape ==
  /\ picture \in [Picture -> {"absent", "live", "trashed"}] /\ queued \subseteq Picture
  /\ meta \in BOOLEAN /\ variant \in Rows(Rendition) /\ bytes \subseteq BlobKey
  /\ at \in [MediaWorker -> Handling]
  /\ collector \in Idle \cup Listing \cup Taking
  /\ collector.step = "bytes" => collector.taken \in DOMAIN collector.list

\* Whose job is whose: no two workers have one node's.
JobsApart ==
  /\ \A w \in MediaWorker : at[w] # NotWorking => at[w].node \in queued
  /\ \A w, u \in MediaWorker : w # u /\ at[w] # NotWorking /\ at[u] # NotWorking => at[w].node # at[u].node
  /\ \A w \in MediaWorker : at[w].step \in {"put", "upsert"} =>
       at[w].variant \notin at[w].missing /\ \E k \in BlobKey : at[w].key = {k}

Made(w) == IF at[w].step \in {"put", "upsert"} THEN at[w].key ELSE NoKey
Before(w) == IF at[w].step = "upsert" THEN at[w].old ELSE NoKey
Spent(w) == IF at[w].step = "remove" THEN at[w].key ELSE NoKey
InRow(k) == \E v \in DOMAIN variant : variant[v] = k
OnList(k) == collector.step # "idle" /\ \E v \in DOMAIN collector.list : collector.list[v] = k

\* A key is in one hand: of a row, of the worker that made it, or of whoever removes it.
KeysApart ==
  /\ \A v, u \in DOMAIN variant : v # u => variant[v] # variant[u]
  /\ \A v \in DOMAIN variant : variant[v] \in bytes
  /\ \A w \in MediaWorker : \A k \in Made(w) : k \in bytes /\ ~InRow(k) /\ ~OnList(k)
  /\ \A w, u \in MediaWorker : \A k \in Made(w) :
       k \notin Before(u) /\ k \notin Spent(u) /\ (w # u => k \notin Made(u))
  /\ \A w \in MediaWorker : \A k \in Spent(w) : ~InRow(k)
  /\ \A w \in MediaWorker : \A k \in Before(w) : \A v \in DOMAIN variant : v # at[w].variant => variant[v] # k
  /\ collector.step # "idle" =>
       \A v \in DOMAIN collector.list : \A u \in DOMAIN variant : u # v => variant[u] # collector.list[v]
  /\ collector.step = "bytes" => ~InRow(collector.list[collector.taken])

MediaInv == MediaShape /\ JobsApart /\ (~LostAnswer => KeysApart)

LEMMA RowsOf ==
  ASSUME NEW f
  PROVE  f \in Rows(Rendition) <=> \E D \in SUBSET Rendition : f \in [D -> BlobKey]
  BY Zenon DEF Rows

LEMMA RowsFields ==
  ASSUME NEW f \in Rows(Rendition)
  PROVE  DOMAIN f \in SUBSET Rendition /\ f \in [DOMAIN f -> BlobKey]
  <1>1. PICK D \in SUBSET Rendition : f \in [D -> BlobKey]
    BY RowsOf
  <1> QED BY <1>1

LEMMA Dropped ==
  ASSUME NEW f \in Rows(Rendition), NEW v
  PROVE  /\ Without1(f, v) \in Rows(Rendition) /\ DOMAIN Without1(f, v) = DOMAIN f \ {v}
         /\ \A x \in DOMAIN f \ {v} : Without1(f, v)[x] = f[x]
  <1>1. PICK g : g = Without1(f, v)
    OBVIOUS
  <1>2. PICK D \in SUBSET Rendition : D = DOMAIN f \ {v}
    BY RowsFields
  <1>3. g \in [D -> BlobKey] /\ \A x \in D : g[x] = f[x]
    BY <1>1, <1>2, RowsFields DEF Without1
  <1>4. g \in Rows(Rendition) /\ DOMAIN g = D
    BY <1>3, RowsOf
  <1> QED BY <1>1, <1>2, <1>3, <1>4

LEMMA Entered ==
  ASSUME NEW f \in Rows(Rendition), NEW v \in Rendition, NEW k \in BlobKey
  PROVE  /\ With1(f, v, k) \in Rows(Rendition) /\ DOMAIN With1(f, v, k) = DOMAIN f \cup {v}
         /\ With1(f, v, k)[v] = k
         /\ \A x \in DOMAIN f : x # v => With1(f, v, k)[x] = f[x]
  <1>1. PICK g : g = With1(f, v, k)
    OBVIOUS
  <1>2. PICK D \in SUBSET Rendition : D = DOMAIN f \cup {v}
    BY RowsFields
  <1>3. g \in [D -> BlobKey] /\ g[v] = k /\ \A x \in D : x # v => g[x] = f[x]
    BY <1>1, <1>2, RowsFields DEF With1
  <1>4. g \in Rows(Rendition) /\ DOMAIN g = D
    BY <1>3, RowsOf
  <1> QED BY <1>1, <1>2, <1>3, <1>4

LEMMA JobAtRest == \A s \in Handling : s = NotWorking <=> s.step = "idle"
  BY DEF Handling, Idle, Stating, Rendering, Putting, Upserting, Removing, NotWorking

LEMMA CollectorAtRest ==
  ASSUME MediaShape
  PROVE  /\ collector = NotSweeping <=> collector.step = "idle"
         /\ collector.step \in {"idle", "rows", "bytes"}
         /\ collector.step # "idle" => collector.list \in Rows(Rendition)
  BY DEF MediaShape, Idle, Listing, Taking, NotSweeping

LEMMA NotWorkingFits == NotWorking \in Handling /\ NotWorking.step = "idle"
                        /\ NotSweeping \in Idle /\ NotSweeping.step = "idle"
  BY DEF NotWorking, NotSweeping, Handling, Idle

LEMMA MediaStart == MediaInit => MediaInv
  <1> SUFFICES ASSUME MediaInit PROVE MediaInv
    OBVIOUS
  <1>1. variant \in [{} -> BlobKey] /\ {} \in SUBSET Rendition /\ DOMAIN variant = {}
    BY DEF MediaInit
  <1>2. variant \in Rows(Rendition)
    BY <1>1, RowsOf
  <1>3. \A w \in MediaWorker : at[w] = NotWorking /\ at[w].step = "idle"
    BY NotWorkingFits DEF MediaInit
  <1>4. MediaShape
    BY <1>2, NotWorkingFits DEF MediaInit, MediaShape
  <1>5. JobsApart
    BY <1>3 DEF JobsApart
  <1>6. \A w \in MediaWorker : Made(w) = {} /\ Before(w) = {} /\ Spent(w) = {}
    BY <1>3 DEF Made, Before, Spent, NoKey
  <1>7. collector.step = "idle"
    BY NotWorkingFits DEF MediaInit
  <1>8. KeysApart
    BY <1>1, <1>6, <1>7 DEF KeysApart
  <1> QED BY <1>4, <1>5, <1>8 DEF MediaInv

\* One worker goes on with its job, or is done with it.
LEMMA WorkerTurns ==
  ASSUME MediaShape, JobsApart, NEW w \in MediaWorker, NEW s \in Handling, Goes(w, s),
         at[w] # NotWorking, s # NotWorking => s.node = at[w].node,
         queued' = queued \/ (s = NotWorking /\ queued' = queued \ {at[w].node}),
         s.step \in {"put", "upsert"} => s.variant \notin s.missing /\ \E k \in BlobKey : s.key = {k}
  PROVE  /\ JobsApart' /\ at' \in [MediaWorker -> Handling] /\ queued' \subseteq Picture
         /\ at'[w] = s /\ \A u \in MediaWorker : u # w => at'[u] = at[u]
  <1>1. at' \in [MediaWorker -> Handling] /\ at'[w] = s /\ \A u \in MediaWorker : u # w => at'[u] = at[u]
    BY DEF MediaShape, Goes
  <1>2. \A u \in MediaWorker : at'[u] # NotWorking =>
          at[u] # NotWorking /\ at'[u].node = at[u].node
    BY <1>1
  <1>3. JobsApart'
    BY <1>1, <1>2 DEF JobsApart
  <1> QED BY <1>1, <1>3 DEF MediaShape

\* Nobody gets a key, and no row or bytes that somebody counts on go.
LEMMA FewerKeys ==
  ASSUME KeysApart, variant' = variant,
         \A w \in MediaWorker : /\ Made(w)' \subseteq Made(w) /\ Spent(w)' \subseteq Spent(w)
                                /\ Before(w)' \subseteq Before(w)
                                /\ Before(w)' # {} => at'[w].variant = at[w].variant,
         \A k \in bytes : k \in bytes' \/ (~InRow(k) /\ \A w \in MediaWorker : k \notin Made(w)'),
         collector'.step # "idle" => /\ collector.step # "idle"
                                     /\ DOMAIN collector'.list \subseteq DOMAIN collector.list
                                     /\ \A v \in DOMAIN collector'.list : collector'.list[v] = collector.list[v],
         collector'.step = "bytes" => collector' = collector
  PROVE  KeysApart'
  <1>1. \A k : InRow(k)' <=> InRow(k)
    BY DEF InRow
  <1>2. \A k : OnList(k)' => OnList(k)
    BY DEF OnList
  <1>3. /\ \A v, u \in DOMAIN variant' : v # u => variant'[v] # variant'[u]
        /\ \A v \in DOMAIN variant' : variant'[v] \in bytes'
    BY DEF KeysApart, InRow
  <1>4. \A w \in MediaWorker : \A k \in Made(w)' : k \in bytes' /\ ~InRow(k) /\ ~OnList(k)'
    BY <1>2 DEF KeysApart
  <1>5. \A w, u \in MediaWorker : \A k \in Made(w)' :
          k \notin Before(u)' /\ k \notin Spent(u)' /\ (w # u => k \notin Made(u)')
    BY DEF KeysApart
  <1>6. /\ \A w \in MediaWorker : \A k \in Spent(w)' : ~InRow(k)
        /\ \A w \in MediaWorker : \A k \in Before(w)' : \A v \in DOMAIN variant' :
             v # at'[w].variant => variant'[v] # k
    BY DEF KeysApart
  <1>7. /\ collector'.step # "idle" => \A v \in DOMAIN collector'.list : \A u \in DOMAIN variant' :
             u # v => variant'[u] # collector'.list[v]
        /\ collector'.step = "bytes" => ~InRow(collector'.list[collector'.taken])
    BY DEF KeysApart
  <1> QED BY <1>1, <1>3, <1>4, <1>5, <1>6, <1>7 DEF KeysApart, InRow

\* A worker's step that leaves no key in its hands.
LEMMA TurnKeeps ==
  ASSUME MediaInv, NEW w \in MediaWorker, NEW s \in Handling, Goes(w, s), at[w] # NotWorking,
         s # NotWorking => s.node = at[w].node,
         queued' = queued \/ (s = NotWorking /\ queued' = queued \ {at[w].node}),
         s.step \in {"idle", "state", "meta", "render"},
         picture' = picture, collector' = collector, meta' \in BOOLEAN,
         variant' \in Rows(Rendition), ~LostAnswer => variant' = variant,
         bytes' \subseteq bytes,
         ~LostAnswer => \A k \in bytes \ bytes' :
                          ~InRow(k) /\ \A u \in MediaWorker : u # w => k \notin Made(u)
  PROVE  MediaInv'
  <1>1. MediaShape /\ JobsApart
    BY DEF MediaInv
  <1>2. /\ JobsApart' /\ at' \in [MediaWorker -> Handling] /\ queued' \subseteq Picture
        /\ at'[w] = s /\ \A u \in MediaWorker : u # w => at'[u] = at[u]
    BY <1>1, WorkerTurns
  <1>3. MediaShape'
    BY <1>1, <1>2 DEF MediaShape
  <1>4. ASSUME ~LostAnswer PROVE KeysApart'
    <2>1. Made(w)' = {} /\ Before(w)' = {} /\ Spent(w)' = {}
      BY <1>2 DEF Made, Before, Spent, NoKey
    <2>2. \A u \in MediaWorker : u # w =>
            Made(u)' = Made(u) /\ Before(u)' = Before(u) /\ Spent(u)' = Spent(u) /\ at'[u] = at[u]
      BY <1>2 DEF Made, Before, Spent
    <2>3. KeysApart /\ variant' = variant
      BY <1>4 DEF MediaInv
    <2>4. \A k \in bytes : k \in bytes' \/ (~InRow(k) /\ \A u \in MediaWorker : k \notin Made(u)')
      BY <1>4, <2>1, <2>2
    <2>5. \A u \in MediaWorker : /\ Made(u)' \subseteq Made(u) /\ Spent(u)' \subseteq Spent(u)
                                 /\ Before(u)' \subseteq Before(u)
                                 /\ Before(u)' # {} => at'[u].variant = at[u].variant
      BY <2>1, <2>2
    <2> QED BY <2>3, <2>4, <2>5, FewerKeys
  <1> QED BY <1>2, <1>3, <1>4 DEF MediaInv

\* Neither the workers nor the keys have a part in it.
LEMMA ElsewhereKeeps ==
  ASSUME MediaInv, picture' \in [Picture -> {"absent", "live", "trashed"}],
         queued \subseteq queued', queued' \subseteq Picture, meta' \in BOOLEAN,
         UNCHANGED <<variant, bytes, at, collector>>
  PROVE  MediaInv'
  <1>1. MediaShape' /\ JobsApart'
    BY DEF MediaInv, MediaShape, JobsApart
  <1>2. KeysApart' <=> KeysApart
    BY DEF KeysApart, Made, Before, Spent, InRow, OnList
  <1> QED BY <1>1, <1>2 DEF MediaInv

LEMMA UsersKeep ==
  ASSUME MediaInv,
         \/ \E n \in Picture : Upload(n) \/ TrashPicture(n) \/ RestorePicture(n) \/ PurgePicture(n)
         \/ EnqueueForAllMediaFiles
  PROVE  MediaInv'
  <1>1. /\ picture \in [Picture -> {"absent", "live", "trashed"}] /\ queued \subseteq Picture /\ meta \in BOOLEAN
    BY DEF MediaInv, MediaShape
  <1>2. /\ picture' \in [Picture -> {"absent", "live", "trashed"}]
        /\ queued \subseteq queued' /\ queued' \subseteq Picture
        /\ UNCHANGED <<meta, variant, bytes, at, collector>>
    BY <1>1 DEF Upload, TrashPicture, RestorePicture, PurgePicture, Becomes, EnqueueForAllMediaFiles, derived
  <1> QED BY <1>1, <1>2, ElsewhereKeeps

LEMMA OpenForMediaKeeps ==
  ASSUME MediaInv, NEW w \in MediaWorker, NEW n \in Picture, OpenForMedia(w, n)
  PROVE  MediaInv'
  <1>1. MediaShape /\ JobsApart
    BY DEF MediaInv
  <1>2. /\ at[w] = NotWorking /\ n \in queued
        /\ \A x \in MediaWorker : at[x] # NotWorking => at[x].node # n
        /\ UNCHANGED <<picture, meta, variant, bytes, collector>>
    BY DEF OpenForMedia, derived
  <1>3. CASE Goes(w, [step |-> "state", node |-> n]) /\ queued' = queued
    <2>1. PICK s : s = [step |-> "state", node |-> n]
      OBVIOUS
    <2>2. s \in Handling /\ s.step = "state" /\ s.node = n
      BY <2>1 DEF Handling, Stating
    <2>3. /\ at' \in [MediaWorker -> Handling] /\ at'[w] = s
          /\ \A u \in MediaWorker : u # w => at'[u] = at[u]
      BY <1>1, <1>3, <2>1, <2>2 DEF Goes, MediaShape
    <2>4. MediaShape'
      BY <1>1, <1>2, <1>3, <2>3 DEF MediaShape
    <2>5. JobsApart'
      BY <1>1, <1>2, <1>3, <2>2, <2>3 DEF JobsApart
    <2>6. \A u \in MediaWorker : /\ Made(u)' \subseteq Made(u) /\ Spent(u)' \subseteq Spent(u)
                                 /\ Before(u)' \subseteq Before(u)
                                 /\ Before(u)' # {} => at'[u].variant = at[u].variant
      BY <2>2, <2>3 DEF Made, Before, Spent, NoKey
    <2>7. ~LostAnswer => KeysApart'
      BY <1>2, <2>6, FewerKeys DEF MediaInv
    <2> QED BY <2>4, <2>5, <2>7 DEF MediaInv
  <1>4. CASE queued' = queued \ {n} /\ at' = at
    <2>1. MediaShape' /\ JobsApart'
      BY <1>1, <1>2, <1>4 DEF MediaShape, JobsApart
    <2>2. KeysApart' <=> KeysApart
      BY <1>2, <1>4 DEF KeysApart, Made, Before, Spent, InRow, OnList
    <2> QED BY <2>1, <2>2 DEF MediaInv
  <1> QED BY <1>3, <1>4 DEF OpenForMedia

LEMMA Working ==
  ASSUME MediaInv, NEW w \in MediaWorker, at[w].step # "idle"
  PROVE  /\ at[w] \in Handling /\ at[w] # NotWorking /\ at[w].node \in Picture
         /\ at[w].step \in {"meta", "render", "put", "upsert", "remove"} => at[w].missing \in SUBSET Rendition
         /\ at[w].step \in {"put", "upsert"} =>
              /\ at[w].variant \in Rendition /\ at[w].variant \notin at[w].missing
              /\ \E k \in BlobKey : at[w].key = {k}
         /\ at[w].step = "upsert" => at[w].old \in SUBSET BlobKey
         /\ at[w].step = "remove" => at[w].key \in SUBSET BlobKey
         /\ bytes \subseteq BlobKey /\ meta \in BOOLEAN /\ variant \in Rows(Rendition)
  <1>1. at[w] \in Handling
    BY DEF MediaInv, MediaShape
  <1>2. at[w] # NotWorking
    BY <1>1, JobAtRest
  <1>3. /\ at[w].node \in Picture
        /\ at[w].step \in {"meta", "render", "put", "upsert", "remove"} => at[w].missing \in SUBSET Rendition
    BY <1>1 DEF Handling, Idle, Stating, Rendering, Putting, Upserting, Removing
  <1>4. /\ at[w].step \in {"put", "upsert"} => at[w].variant \in Rendition
        /\ at[w].step = "upsert" => at[w].old \in SUBSET BlobKey
        /\ at[w].step = "remove" => at[w].key \in SUBSET BlobKey
    BY <1>1 DEF Handling, Idle, Stating, Rendering, Putting, Upserting, Removing
  <1> QED BY <1>1, <1>2, <1>3, <1>4 DEF MediaInv, JobsApart, MediaShape

\* The job is completed.
LEMMA CompletedKeeps ==
  ASSUME MediaInv, NEW w \in MediaWorker, NEW undone, Completed(w, undone), at[w].step # "idle",
         picture' = picture, collector' = collector, meta' = meta,
         variant' \in Rows(Rendition), ~LostAnswer => variant' = variant,
         bytes' \subseteq bytes,
         ~LostAnswer => \A k \in bytes \ bytes' :
                          ~InRow(k) /\ \A u \in MediaWorker : u # w => k \notin Made(u)
  PROVE  MediaInv'
  <1>1. Goes(w, NotWorking) /\ queued' = queued \ {at[w].node}
    BY DEF Completed
  <1>2. at[w] # NotWorking /\ meta' \in BOOLEAN
    BY Working
  <1>3. PICK s : s = NotWorking
    OBVIOUS
  <1>4. s \in Handling /\ s.step = "idle" /\ Goes(w, s)
    BY <1>1, <1>3, NotWorkingFits
  <1>5. queued' = queued \/ (s = NotWorking /\ queued' = queued \ {at[w].node})
    BY <1>1, <1>3
  <1> QED BY <1>2, <1>3, <1>4, <1>5, TurnKeeps

LEMMA MediaStateKeeps ==
  ASSUME MediaInv, NEW w \in MediaWorker, MediaState(w)
  PROVE  MediaInv'
  <1>1. at[w].step = "state" /\ UNCHANGED <<picture, meta, variant, bytes, collector>>
    BY DEF MediaState, derived
  <1>2. at[w] # NotWorking /\ at[w].node \in Picture /\ meta \in BOOLEAN /\ variant \in Rows(Rendition)
    BY <1>1, Working
  <1>3. CASE Completed(w, FALSE)
    BY <1>1, <1>2, <1>3, CompletedKeeps
  <1>4. CASE /\ Goes(w, [step |-> IF meta THEN "render" ELSE "meta", node |-> at[w].node,
                        missing |-> missingVariants])
             /\ queued' = queued
    <2>1. PICK s : s = [step |-> IF meta THEN "render" ELSE "meta", node |-> at[w].node,
                        missing |-> missingVariants]
      OBVIOUS
    <2>2. missingVariants \in SUBSET Rendition
      BY DEF missingVariants
    <2>3. s \in Handling /\ s.node = at[w].node /\ s.step \in {"meta", "render"}
      BY <1>2, <2>1, <2>2 DEF Handling, Rendering
    <2>4. Goes(w, s)
      BY <1>4, <2>1
    <2> QED BY <1>1, <1>2, <1>4, <2>3, <2>4, TurnKeeps
  <1> QED BY <1>3, <1>4 DEF MediaState

LEMMA PutMediaMetaKeeps ==
  ASSUME MediaInv, NEW w \in MediaWorker, PutMediaMeta(w)
  PROVE  MediaInv'
  <1>1. /\ at[w].step = "meta" /\ meta' = TRUE
        /\ UNCHANGED <<picture, queued, variant, bytes, collector>>
    BY DEF PutMediaMeta
  <1>2. at[w] # NotWorking /\ at[w] \in Handling /\ variant \in Rows(Rendition)
    BY <1>1, Working
  <1>3. PICK s : s = [at[w] EXCEPT !.step = "render"]
    OBVIOUS
  <1>4. at[w] \in Rendering
    BY <1>1, <1>2 DEF Handling, Idle, Stating, Rendering, Putting, Upserting, Removing
  <1>5. s \in Rendering /\ s.node = at[w].node /\ s.step = "render"
    BY <1>3, <1>4 DEF Rendering
  <1>6. s \in Handling /\ Goes(w, s)
    BY <1>3, <1>5 DEF PutMediaMeta, Handling
  <1> QED BY <1>1, <1>2, <1>5, <1>6, TurnKeeps

LEMMA RemoveSupersededKeeps ==
  ASSUME MediaInv, NEW w \in MediaWorker, RemoveSuperseded(w)
  PROVE  MediaInv'
  <1>1. /\ at[w].step = "remove" /\ UNCHANGED <<picture, queued, meta, variant, collector>>
        /\ bytes' = bytes \ at[w].key \/ bytes' = bytes
    BY DEF RemoveSuperseded
  <1>2. /\ at[w] # NotWorking /\ at[w].node \in Picture /\ at[w].missing \in SUBSET Rendition
        /\ meta \in BOOLEAN /\ variant \in Rows(Rendition)
    BY <1>1, Working
  <1>3. PICK s : s = [step |-> "render", node |-> at[w].node, missing |-> at[w].missing]
    OBVIOUS
  <1>4. s \in Handling /\ s.node = at[w].node /\ s.step = "render" /\ Goes(w, s)
    BY <1>2, <1>3 DEF Handling, Rendering, RemoveSuperseded
  <1>5. ASSUME ~LostAnswer, NEW k \in bytes \ bytes'
        PROVE  ~InRow(k) /\ \A u \in MediaWorker : u # w => k \notin Made(u)
    <2>1. k \in Spent(w) /\ KeysApart
      BY <1>1, <1>5 DEF Spent, MediaInv
    <2> QED BY <2>1 DEF KeysApart
  <1> QED BY <1>1, <1>2, <1>4, <1>5, TurnKeeps

LEMMA PutVariantFailsKeeps ==
  ASSUME MediaInv, NEW w \in MediaWorker, PutVariantFails(w)
  PROVE  MediaInv'
  <1>1. at[w].step = "upsert" /\ UNCHANGED <<picture, meta, collector>> /\ Completed(w, TRUE)
        /\ bytes' = bytes \ at[w].key
    BY DEF PutVariantFails
  <1>2. PICK k \in BlobKey : at[w].key = {k} /\ k = CHOOSE x \in at[w].key : TRUE
    BY <1>1, Working
  <1>3. at[w].variant \in Rendition /\ variant \in Rows(Rendition)
    BY <1>1, Working
  <1>4. PICK committed \in {FALSE, LostAnswer} :
          variant' = IF committed THEN With1(variant, at[w].variant, k) ELSE variant
    BY <1>2 DEF PutVariantFails
  <1>5. variant' \in Rows(Rendition)
    BY <1>3, <1>4, Entered
  <1>6. ASSUME ~LostAnswer, NEW x \in bytes \ bytes'
        PROVE  ~InRow(x) /\ \A u \in MediaWorker : u # w => x \notin Made(u)
    <2>1. x \in Made(w) /\ KeysApart
      BY <1>1, <1>6 DEF Made, MediaInv
    <2> QED BY <2>1 DEF KeysApart
  <1>7. ASSUME ~LostAnswer PROVE variant' = variant
    <2>1. committed = FALSE
      BY <1>7, MediaAssumption
    <2> QED BY <1>4, <2>1
  <1> QED BY <1>1, <1>5, <1>6, <1>7, CompletedKeeps

LEMMA JobEndsKeeps ==
  ASSUME MediaInv, NEW w \in MediaWorker, RenderFails(w) \/ Handled(w) \/ WorkerDies(w)
  PROVE  MediaInv'
  <1>1. UNCHANGED <<picture, meta, variant, bytes, collector>> /\ at[w] # NotWorking
    <2>1. at[w] \in Handling
      BY DEF MediaInv, MediaShape
    <2>2. RenderFails(w) \/ Handled(w) => at[w].step = "render"
      BY DEF RenderFails, Handled
    <2> QED BY <2>1, <2>2, JobAtRest DEF RenderFails, Handled, WorkerDies, derived
  <1>2. at[w].step # "idle" /\ meta \in BOOLEAN /\ variant \in Rows(Rendition)
    <2>1. at[w].step # "idle"
      BY <1>1, JobAtRest DEF MediaInv, MediaShape
    <2> QED BY <2>1, Working
  <1>3. CASE RenderFails(w) \/ Handled(w)
    <2>1. PICK undone : Completed(w, undone)
      BY <1>3 DEF RenderFails, Handled
    <2> QED BY <1>1, <1>2, <2>1, CompletedKeeps
  <1>4. CASE WorkerDies(w)
    <2>1. Goes(w, NotWorking) /\ queued' = queued
      BY <1>4 DEF WorkerDies
    <2>2. PICK s : s = NotWorking
      OBVIOUS
    <2>3. s \in Handling /\ s.step = "idle" /\ Goes(w, s)
      BY <2>1, <2>2, NotWorkingFits
    <2> QED BY <1>1, <1>2, <2>1, <2>2, <2>3, TurnKeeps
  <1> QED BY <1>3, <1>4

LEMMA Fresh ==
  ASSUME FreshKeys # {}
  PROVE  /\ FreshKey \in BlobKey /\ FreshKey \notin bytes /\ ~InRow(FreshKey)
         /\ \A w \in MediaWorker : FreshKey \notin Mentioned(w)
         /\ collector # NotSweeping => \A v \in DOMAIN collector.list : collector.list[v] # FreshKey
  <1>1. PICK k : k = FreshKey
    OBVIOUS
  <1>2. k \in FreshKeys
    BY <1>1 DEF FreshKey
  <1>3. /\ k \in BlobKey /\ k \notin bytes /\ (\A v \in DOMAIN variant : variant[v] # k)
        /\ \A w \in MediaWorker : k \notin Mentioned(w)
        /\ collector # NotSweeping => \A v \in DOMAIN collector.list : collector.list[v] # k
    BY <1>2 DEF FreshKeys
  <1> QED BY <1>1, <1>3 DEF InRow

LEMMA NobodysKey ==
  ASSUME NEW k, NEW w \in MediaWorker, k \notin Mentioned(w)
  PROVE  k \notin Made(w) /\ k \notin Before(w) /\ k \notin Spent(w)
  BY DEF Mentioned, Made, Before, Spent, NoKey

LEMMA PutBytesKeeps ==
  ASSUME MediaInv, NEW w \in MediaWorker, NEW v \in Rendition, PutBytes(w, v)
  PROVE  MediaInv'
  <1>1. MediaShape /\ JobsApart
    BY DEF MediaInv
  <1>2. /\ at[w].step = "render" /\ v \in at[w].missing /\ FreshKeys # {}
        /\ UNCHANGED <<picture, queued, meta, variant, collector>>
    BY DEF PutBytes
  <1>3. PICK k \in BlobKey : k = FreshKey /\ bytes' = bytes \cup {k}
    BY <1>2, Fresh DEF PutBytes
  <1>4. /\ k \notin bytes /\ ~InRow(k) /\ ~OnList(k)
        /\ \A u \in MediaWorker : k \notin Made(u) /\ k \notin Before(u) /\ k \notin Spent(u)
    BY <1>1, <1>2, <1>3, Fresh, NobodysKey, CollectorAtRest DEF OnList
  <1>5. PICK s : s = [step |-> "put", node |-> at[w].node, missing |-> StillMissing(w, v),
                      variant |-> v, key |-> {k}]
    OBVIOUS
  <1>6. at[w] # NotWorking /\ at[w].node \in Picture /\ at[w].missing \in SUBSET Rendition
    BY <1>2, Working
  <1>7. StillMissing(w, v) \in SUBSET Rendition /\ v \notin StillMissing(w, v) /\ {k} \in SUBSET BlobKey
    BY <1>6 DEF StillMissing
  <1>8. /\ s \in Handling /\ s.node = at[w].node /\ s.step = "put" /\ s.key = {k}
        /\ s.variant \notin s.missing /\ s # NotWorking
    BY <1>5, <1>6, <1>7, JobAtRest DEF Handling, Putting
  <1>9. Goes(w, s)
    BY <1>3, <1>5 DEF PutBytes
  <1>10. /\ JobsApart' /\ at' \in [MediaWorker -> Handling] /\ queued' \subseteq Picture
         /\ at'[w] = s /\ \A u \in MediaWorker : u # w => at'[u] = at[u]
    BY <1>1, <1>2, <1>6, <1>8, <1>9, WorkerTurns
  <1>11. MediaShape'
    BY <1>1, <1>2, <1>3, <1>10 DEF MediaShape
  <1>12. ASSUME ~LostAnswer PROVE KeysApart'
    <2>1. KeysApart
      BY <1>12 DEF MediaInv
    <2>2. Made(w)' = {k} /\ Before(w)' = {} /\ Spent(w)' = {}
      BY <1>8, <1>10 DEF Made, Before, Spent, NoKey
    <2>3. \A u \in MediaWorker : u # w =>
            Made(u)' = Made(u) /\ Before(u)' = Before(u) /\ Spent(u)' = Spent(u) /\ at'[u] = at[u]
      BY <1>10 DEF Made, Before, Spent
    <2>4. \A x : (InRow(x)' <=> InRow(x)) /\ (OnList(x)' <=> OnList(x))
      BY <1>2 DEF InRow, OnList
    <2>5. /\ \A a, b \in DOMAIN variant' : a # b => variant'[a] # variant'[b]
          /\ \A a \in DOMAIN variant' : variant'[a] \in bytes'
      BY <1>2, <1>3, <2>1 DEF KeysApart
    <2>6. \A u \in MediaWorker : \A x \in Made(u)' : x \in bytes' /\ ~InRow(x)' /\ ~OnList(x)'
      BY <1>3, <1>4, <2>1, <2>2, <2>3, <2>4 DEF KeysApart
    <2>7. \A u, z \in MediaWorker : \A x \in Made(u)' :
            x \notin Before(z)' /\ x \notin Spent(z)' /\ (u # z => x \notin Made(z)')
      BY <1>4, <2>1, <2>2, <2>3 DEF KeysApart
    <2>8. /\ \A u \in MediaWorker : \A x \in Spent(u)' : ~InRow(x)'
          /\ \A u \in MediaWorker : \A x \in Before(u)' : \A a \in DOMAIN variant' :
               a # at'[u].variant => variant'[a] # x
      BY <1>2, <2>1, <2>2, <2>3, <2>4 DEF KeysApart
    <2>9. /\ collector'.step # "idle" => \A a \in DOMAIN collector'.list : \A b \in DOMAIN variant' :
               b # a => variant'[b] # collector'.list[a]
          /\ (collector.step = "bytes" => ~InRow(collector.list[collector.taken]))'
      BY <1>2, <2>1 DEF KeysApart, InRow
    <2> QED BY <2>5, <2>6, <2>7, <2>8, <2>9 DEF KeysApart
  <1> QED BY <1>10, <1>11, <1>12 DEF MediaInv

LEMMA ReadOldKeeps ==
  ASSUME MediaInv, NEW w \in MediaWorker, ReadOld(w)
  PROVE  MediaInv'
  <1>1. MediaShape /\ JobsApart
    BY DEF MediaInv
  <1>2. at[w].step = "put" /\ UNCHANGED <<picture, queued, meta, variant, bytes, collector>>
    BY DEF ReadOld, derived
  <1>3. PICK k \in BlobKey : at[w].key = {k}
    BY <1>2, Working
  <1>4. /\ at[w] # NotWorking /\ at[w].node \in Picture /\ at[w].missing \in SUBSET Rendition
        /\ at[w].variant \in Rendition /\ at[w].variant \notin at[w].missing /\ variant \in Rows(Rendition)
    BY <1>2, Working
  <1>5. PICK s : s = [step |-> "upsert", node |-> at[w].node, missing |-> at[w].missing,
                      variant |-> at[w].variant, key |-> at[w].key, old |-> Now(at[w].variant)]
    OBVIOUS
  <1>6. Now(at[w].variant) \in SUBSET BlobKey /\ {k} \in SUBSET BlobKey
    <2>1. at[w].variant \in DOMAIN variant => variant[at[w].variant] \in BlobKey
      BY <1>4, RowsFields
    <2> QED BY <2>1 DEF Now, NoKey
  <1>7. /\ s \in Handling /\ s.node = at[w].node /\ s.step = "upsert" /\ s.key = {k}
        /\ s.variant = at[w].variant /\ s.missing = at[w].missing /\ s.old = Now(at[w].variant)
    BY <1>3, <1>4, <1>5, <1>6 DEF Handling, Upserting
  <1>8. Goes(w, s)
    BY <1>5 DEF ReadOld
  <1>9. /\ JobsApart' /\ at' \in [MediaWorker -> Handling] /\ queued' \subseteq Picture
        /\ at'[w] = s /\ \A u \in MediaWorker : u # w => at'[u] = at[u]
    BY <1>1, <1>2, <1>4, <1>7, <1>8, WorkerTurns
  <1>10. MediaShape'
    BY <1>1, <1>2, <1>9 DEF MediaShape
  <1>11. ASSUME ~LostAnswer PROVE KeysApart'
    <2>1. KeysApart
      BY <1>11 DEF MediaInv
    <2>2. Made(w)' = Made(w) /\ Before(w)' = Now(at[w].variant) /\ Spent(w)' = {}
      BY <1>2, <1>3, <1>7, <1>9 DEF Made, Before, Spent, NoKey
    <2>3. \A u \in MediaWorker : u # w =>
            Made(u)' = Made(u) /\ Before(u)' = Before(u) /\ Spent(u)' = Spent(u) /\ at'[u] = at[u]
      BY <1>9 DEF Made, Before, Spent
    <2>4. \A x : (InRow(x)' <=> InRow(x)) /\ (OnList(x)' <=> OnList(x))
      BY <1>2 DEF InRow, OnList
    <2>5. \A x \in Now(at[w].variant) : InRow(x) /\ \A a \in DOMAIN variant : a # at[w].variant => variant[a] # x
      BY <2>1 DEF Now, NoKey, InRow, KeysApart
    <2>6. \A u \in MediaWorker : \A x \in Made(u)' : x \in bytes' /\ ~InRow(x)' /\ ~OnList(x)'
      BY <1>2, <2>1, <2>2, <2>3, <2>4 DEF KeysApart
    <2>7. \A u, z \in MediaWorker : \A x \in Made(u)' :
            x \notin Before(z)' /\ x \notin Spent(z)' /\ (u # z => x \notin Made(z)')
      BY <2>1, <2>2, <2>3, <2>5 DEF KeysApart
    <2>8. /\ \A u \in MediaWorker : \A x \in Spent(u)' : ~InRow(x)'
          /\ \A u \in MediaWorker : \A x \in Before(u)' : \A a \in DOMAIN variant' :
               a # at'[u].variant => variant'[a] # x
      BY <1>2, <1>7, <1>9, <2>1, <2>2, <2>3, <2>4, <2>5 DEF KeysApart
    <2>9. /\ \A a, b \in DOMAIN variant' : a # b => variant'[a] # variant'[b]
          /\ \A a \in DOMAIN variant' : variant'[a] \in bytes'
          /\ collector'.step # "idle" => \A a \in DOMAIN collector'.list : \A b \in DOMAIN variant' :
               b # a => variant'[b] # collector'.list[a]
          /\ (collector.step = "bytes" => ~InRow(collector.list[collector.taken]))'
      BY <1>2, <2>1 DEF KeysApart, InRow
    <2> QED BY <2>6, <2>7, <2>8, <2>9 DEF KeysApart
  <1> QED BY <1>9, <1>10, <1>11 DEF MediaInv

\* The row gets the key that the worker made, and the worker what its snapshot had there.
LEMMA PutMediaVariantKeeps ==
  ASSUME MediaInv, NEW w \in MediaWorker, PutMediaVariant(w)
  PROVE  MediaInv'
  <1>1. MediaShape /\ JobsApart
    BY DEF MediaInv
  <1>2. at[w].step = "upsert" /\ UNCHANGED <<picture, queued, meta, bytes, collector>>
    BY DEF PutMediaVariant
  <1>3. PICK k \in BlobKey : at[w].key = {k} /\ k = CHOOSE x \in at[w].key : TRUE
    BY <1>2, Working
  <1>4. /\ at[w] # NotWorking /\ at[w].node \in Picture /\ at[w].missing \in SUBSET Rendition
        /\ at[w].variant \in Rendition /\ variant \in Rows(Rendition) /\ at[w].old \in SUBSET BlobKey
    BY <1>2, Working
  <1>5. PICK v \in Rendition : v = at[w].variant
    BY <1>4
  <1>6. variant' = With1(variant, v, k)
    BY <1>3, <1>5 DEF PutMediaVariant
  <1>7. /\ variant' \in Rows(Rendition) /\ DOMAIN variant' = DOMAIN variant \cup {v} /\ variant'[v] = k
        /\ \A x \in DOMAIN variant : x # v => variant'[x] = variant[x]
    BY <1>4, <1>6, Entered
  <1>8. PICK s : s = [step |-> "remove", node |-> at[w].node, missing |-> at[w].missing, key |-> Displaced(w)]
    OBVIOUS
  <1>9. Displaced(w) \in SUBSET BlobKey /\ Displaced(w) = at[w].old \ {k}
    BY <1>3, <1>4 DEF Displaced
  <1>10. s \in Handling /\ s.node = at[w].node /\ s.step = "remove" /\ s.key = at[w].old \ {k}
    BY <1>4, <1>8, <1>9 DEF Handling, Removing
  <1>11. Goes(w, s)
    BY <1>8 DEF PutMediaVariant
  <1>12. /\ JobsApart' /\ at' \in [MediaWorker -> Handling] /\ queued' \subseteq Picture
         /\ at'[w] = s /\ \A u \in MediaWorker : u # w => at'[u] = at[u]
    BY <1>1, <1>2, <1>4, <1>10, <1>11, WorkerTurns
  <1>13. MediaShape'
    BY <1>1, <1>2, <1>7, <1>12 DEF MediaShape
  <1>14. ASSUME ~LostAnswer PROVE KeysApart'
    <2>1. KeysApart
      BY <1>14 DEF MediaInv
    <2>2. Made(w)' = {} /\ Before(w)' = {} /\ Spent(w)' = at[w].old \ {k}
      BY <1>10, <1>12 DEF Made, Before, Spent, NoKey
    <2>3. \A u \in MediaWorker : u # w =>
            Made(u)' = Made(u) /\ Before(u)' = Before(u) /\ Spent(u)' = Spent(u) /\ at'[u] = at[u]
      BY <1>12 DEF Made, Before, Spent
    <2>4. Made(w) = {k} /\ Before(w) = at[w].old
      BY <1>2, <1>3 DEF Made, Before
    <2>5. /\ k \in bytes /\ ~InRow(k) /\ ~OnList(k)
          /\ \A u \in MediaWorker : k \notin Before(u) /\ k \notin Spent(u) /\ (u # w => k \notin Made(u))
      BY <2>1, <2>4 DEF KeysApart
    <2>6. \A x : InRow(x)' => InRow(x) \/ x = k
      BY <1>7 DEF InRow
    <2>7. /\ \A a, b \in DOMAIN variant' : a # b => variant'[a] # variant'[b]
          /\ \A a \in DOMAIN variant' : variant'[a] \in bytes'
      BY <1>2, <1>7, <2>1, <2>5 DEF KeysApart, InRow
    <2>8. \A u \in MediaWorker : \A x \in Made(u)' : x \in bytes' /\ ~InRow(x)' /\ ~OnList(x)'
      <3>1. \A x : OnList(x)' <=> OnList(x)
        BY <1>2 DEF OnList
      <3> QED BY <1>2, <2>1, <2>2, <2>3, <2>5, <2>6, <3>1 DEF KeysApart
    <2>9. \A u, z \in MediaWorker : \A x \in Made(u)' :
            x \notin Before(z)' /\ x \notin Spent(z)' /\ (u # z => x \notin Made(z)')
      <3>1. \A u \in MediaWorker : u # w => \A x \in Made(u) : x \notin at[w].old
        BY <2>1, <2>4 DEF KeysApart
      <3> QED BY <2>1, <2>2, <2>3, <3>1 DEF KeysApart
    <2>10. ASSUME NEW u \in MediaWorker, NEW x \in Spent(u)' PROVE ~InRow(x)'
      <3>1. CASE u = w
        <4>1. x \in Before(w) /\ x # k
          BY <2>2, <2>4, <2>10, <3>1
        <4>2. \A a \in DOMAIN variant : a # v => variant[a] # x
          BY <1>5, <2>1, <4>1 DEF KeysApart
        <4> QED BY <1>7, <4>1, <4>2 DEF InRow
      <3>2. CASE u # w
        BY <2>1, <2>3, <2>5, <2>6, <2>10, <3>2 DEF KeysApart
      <3> QED BY <3>1, <3>2
    <2>11. ASSUME NEW u \in MediaWorker, NEW x \in Before(u)', NEW a \in DOMAIN variant', a # at'[u].variant
           PROVE  variant'[a] # x
      <3>1. u # w /\ x \in Before(u) /\ at'[u] = at[u]
        BY <2>2, <2>3, <2>11
      <3>2. CASE a = v
        BY <1>7, <2>5, <3>1, <3>2
      <3>3. CASE a # v
        BY <1>7, <2>1, <2>11, <3>1, <3>3 DEF KeysApart
      <3> QED BY <3>2, <3>3
    <2>12. ASSUME collector'.step # "idle", NEW a \in DOMAIN collector'.list, NEW b \in DOMAIN variant', b # a
           PROVE  variant'[b] # collector'.list[a]
      <3>1. CASE b = v
        BY <1>2, <1>7, <2>5, <2>12, <3>1 DEF OnList
      <3>2. CASE b # v
        BY <1>2, <1>7, <2>1, <2>12, <3>2 DEF KeysApart
      <3> QED BY <3>1, <3>2
    <2>13. (collector.step = "bytes" => ~InRow(collector.list[collector.taken]))'
      <3>1. collector.step = "bytes" => collector.taken \in DOMAIN collector.list
        BY <1>1 DEF MediaShape
      <3>2. collector.step = "bytes" => collector.list[collector.taken] # k
        BY <2>5, <3>1 DEF OnList
      <3>3. collector.step = "bytes" => ~InRow(collector.list[collector.taken])
        BY <2>1 DEF KeysApart
      <3> QED BY <1>2, <1>7, <3>2, <3>3 DEF InRow
    <2> QED BY <2>7, <2>8, <2>9, <2>10, <2>11, <2>12, <2>13 DEF KeysApart
  <1> QED BY <1>12, <1>13, <1>14 DEF MediaInv

\* A step of the collector, or of an operator with the workers stopped.
LEMMA SweepKeeps ==
  ASSUME MediaInv, UNCHANGED <<picture, queued, at>>, meta' \in BOOLEAN,
         variant' \in Rows(Rendition), bytes' \subseteq BlobKey,
         collector' \in Idle \cup Listing \cup Taking,
         collector'.step = "bytes" => collector'.taken \in DOMAIN collector'.list,
         ~LostAnswer => KeysApart'
  PROVE  MediaInv'
  <1>1. MediaShape' /\ JobsApart'
    BY DEF MediaInv, MediaShape, JobsApart
  <1> QED BY <1>1 DEF MediaInv

LEMMA SameHands ==
  ASSUME at' = at
  PROVE  \A u \in MediaWorker : Made(u)' = Made(u) /\ Before(u)' = Before(u) /\ Spent(u)' = Spent(u)
  BY DEF Made, Before, Spent

LEMMA UnreferencedKeeps ==
  ASSUME MediaInv, UnreferencedMediaVariants
  PROVE  MediaInv'
  <1>1. MediaShape
    BY DEF MediaInv
  <1>2. /\ collector = NotSweeping /\ collector' = [step |-> "rows", list |-> variant]
        /\ UNCHANGED <<picture, queued, meta, variant, bytes, at>>
    BY DEF UnreferencedMediaVariants, derived
  <1>3. variant \in Rows(Rendition) /\ meta \in BOOLEAN /\ bytes \subseteq BlobKey
    BY <1>1 DEF MediaShape
  <1>4. collector' \in Listing /\ collector'.step = "rows" /\ collector'.list = variant
    BY <1>2, <1>3 DEF Listing
  <1>5. ASSUME ~LostAnswer PROVE KeysApart'
    <2>1. KeysApart
      BY <1>5 DEF MediaInv
    <2>2. \A x : InRow(x)' <=> InRow(x)
      BY <1>2 DEF InRow
    <2>3. \A x : OnList(x)' => InRow(x)
      BY <1>4 DEF OnList, InRow
    <2>4. \A u \in MediaWorker : Made(u)' = Made(u) /\ Before(u)' = Before(u) /\ Spent(u)' = Spent(u)
      BY <1>2, SameHands
    <2> QED BY <1>2, <1>4, <2>1, <2>2, <2>3, <2>4 DEF KeysApart
  <1> QED BY <1>2, <1>3, <1>4, <1>5, SweepKeeps

LEMMA DeleteRowKeeps ==
  ASSUME MediaInv, NEW v \in Rendition, DeleteMediaVariantRow(v)
  PROVE  MediaInv'
  <1>1. MediaShape
    BY DEF MediaInv
  <1>2. /\ collector.step = "rows" /\ v \in DOMAIN collector.list
        /\ UNCHANGED <<picture, queued, meta, bytes, at>>
    BY DEF DeleteMediaVariantRow
  <1>3. /\ variant \in Rows(Rendition) /\ meta \in BOOLEAN /\ bytes \subseteq BlobKey
        /\ collector.list \in Rows(Rendition) /\ collector \in Listing
    BY <1>1, <1>2, CollectorAtRest DEF MediaShape, Idle, Listing, Taking
  <1>4. CASE /\ v \in DOMAIN variant /\ variant' = Without1(variant, v)
             /\ collector' = [step |-> "bytes", list |-> collector.list, taken |-> v]
    <2>1. /\ variant' \in Rows(Rendition) /\ DOMAIN variant' = DOMAIN variant \ {v}
          /\ \A x \in DOMAIN variant \ {v} : variant'[x] = variant[x]
      BY <1>3, <1>4, Dropped
    <2>2. /\ collector' \in Taking /\ collector'.step = "bytes" /\ collector'.list = collector.list
          /\ collector'.taken = v
      BY <1>3, <1>4 DEF Taking
    <2>3. ASSUME ~LostAnswer PROVE KeysApart'
      <3>1. KeysApart
        BY <2>3 DEF MediaInv
      <3>2. \A x : InRow(x)' => InRow(x)
        BY <2>1 DEF InRow
      <3>3. \A x : OnList(x)' => OnList(x)
        BY <1>2, <2>2 DEF OnList
      <3>4. \A u \in MediaWorker : Made(u)' = Made(u) /\ Before(u)' = Before(u) /\ Spent(u)' = Spent(u)
        BY <1>2, SameHands
      <3>5. (collector.step = "bytes" => ~InRow(collector.list[collector.taken]))'
        <4>1. \A b \in DOMAIN variant : b # v => variant[b] # collector.list[v]
          BY <1>2, <3>1 DEF KeysApart
        <4> QED BY <2>1, <2>2, <4>1 DEF InRow
      <3>6. \A a \in DOMAIN collector'.list : \A b \in DOMAIN variant' :
              b # a => variant'[b] # collector'.list[a]
        BY <1>2, <2>1, <2>2, <3>1 DEF KeysApart
      <3>7. \A u \in MediaWorker : \A x \in Before(u)' : \A a \in DOMAIN variant' :
              a # at'[u].variant => variant'[a] # x
        BY <1>2, <2>1, <3>1, <3>4 DEF KeysApart
      <3>8. /\ \A a, b \in DOMAIN variant' : a # b => variant'[a] # variant'[b]
            /\ \A a \in DOMAIN variant' : variant'[a] \in bytes'
        BY <1>2, <2>1, <3>1 DEF KeysApart
      <3>9. /\ \A u \in MediaWorker : \A x \in Made(u)' : x \in bytes' /\ ~InRow(x)' /\ ~OnList(x)'
            /\ \A u \in MediaWorker : \A x \in Spent(u)' : ~InRow(x)'
        BY <1>2, <3>1, <3>2, <3>3, <3>4 DEF KeysApart
      <3>10. \A u, z \in MediaWorker : \A x \in Made(u)' :
               x \notin Before(z)' /\ x \notin Spent(z)' /\ (u # z => x \notin Made(z)')
        BY <3>1, <3>4 DEF KeysApart
      <3> QED BY <3>5, <3>6, <3>7, <3>8, <3>9, <3>10 DEF KeysApart
    <2> QED BY <1>2, <1>3, <2>1, <2>2, <2>3, SweepKeeps
  <1>5. CASE variant' = variant /\ collector' = [collector EXCEPT !.list = Without1(collector.list, v)]
    <2>0. PICK was, l : was = collector.list /\ l = Without1(was, v)
      OBVIOUS
    <2>1. /\ l = Without1(collector.list, v) /\ l \in Rows(Rendition)
          /\ DOMAIN l \subseteq DOMAIN collector.list
          /\ \A x \in DOMAIN l : l[x] = collector.list[x]
      <3>1. /\ Without1(was, v) \in Rows(Rendition) /\ DOMAIN Without1(was, v) = DOMAIN was \ {v}
            /\ \A x \in DOMAIN was \ {v} : Without1(was, v)[x] = was[x]
        BY <1>3, <2>0, Dropped
      <3> QED BY <2>0, <3>1
    <2>2. collector' \in Listing /\ collector'.step = "rows" /\ collector'.list = l
      BY <1>3, <1>5, <2>1 DEF Listing
    <2>3. \A u \in MediaWorker : Made(u)' = Made(u) /\ Before(u)' = Before(u) /\ Spent(u)' = Spent(u)
      BY <1>2, SameHands
    <2>4. ~LostAnswer => KeysApart'
      BY <1>2, <1>5, <2>1, <2>2, <2>3, FewerKeys DEF MediaInv
    <2> QED BY <1>2, <1>3, <1>5, <2>2, <2>4, SweepKeeps
  <1> QED BY <1>4, <1>5 DEF DeleteMediaVariantRow, Deletable

LEMMA CollectBytesKeeps ==
  ASSUME MediaInv, CollectBytes
  PROVE  MediaInv'
  <1>1. MediaShape
    BY DEF MediaInv
  <1>2. /\ collector.step = "bytes" /\ UNCHANGED <<picture, queued, meta, variant, at>>
        /\ bytes' = bytes \ {collector.list[collector.taken]} \/ bytes' = bytes
        /\ collector' = [step |-> "rows", list |-> Without1(collector.list, collector.taken)]
    BY DEF CollectBytes
  <1>3. /\ variant \in Rows(Rendition) /\ meta \in BOOLEAN /\ bytes \subseteq BlobKey
        /\ collector.list \in Rows(Rendition) /\ collector.taken \in DOMAIN collector.list
    BY <1>1, <1>2, CollectorAtRest DEF MediaShape
  <1>4. PICK was, t : was = collector.list /\ t = collector.taken
    OBVIOUS
  <1>5. PICK l : l = Without1(was, t)
    OBVIOUS
  <1>6. l \in Rows(Rendition) /\ DOMAIN l = DOMAIN was \ {t} /\ \A x \in DOMAIN was \ {t} : l[x] = was[x]
    <2>1. was \in Rows(Rendition)
      BY <1>3, <1>4
    <2>2. /\ Without1(was, t) \in Rows(Rendition) /\ DOMAIN Without1(was, t) = DOMAIN was \ {t}
          /\ \A x \in DOMAIN was \ {t} : Without1(was, t)[x] = was[x]
      BY <2>1, Dropped
    <2> QED BY <1>5, <2>2
  <1>7. collector' \in Listing /\ collector'.step = "rows" /\ collector'.list = l
    BY <1>2, <1>4, <1>5, <1>6 DEF Listing
  <1>8. ASSUME ~LostAnswer PROVE KeysApart'
    <2>1. KeysApart
      BY <1>8 DEF MediaInv
    <2>2. \A u \in MediaWorker : Made(u)' = Made(u) /\ Before(u)' = Before(u) /\ Spent(u)' = Spent(u)
      BY <1>2, SameHands
    <2>3. ASSUME NEW k \in bytes \ bytes'
          PROVE  ~InRow(k) /\ \A u \in MediaWorker : k \notin Made(u)
      <3>1. k = collector.list[collector.taken]
        BY <1>2, <2>3
      <3>2. OnList(k) /\ ~InRow(k)
        BY <1>2, <1>3, <2>1, <3>1 DEF OnList, KeysApart
      <3> QED BY <2>1, <3>2 DEF KeysApart
    <2>4. \A k \in bytes : k \in bytes' \/ (~InRow(k) /\ \A w \in MediaWorker : k \notin Made(w)')
      BY <2>2, <2>3
    <2>5. /\ DOMAIN collector'.list \subseteq DOMAIN collector.list
          /\ \A x \in DOMAIN collector'.list : collector'.list[x] = collector.list[x]
      BY <1>4, <1>6, <1>7
    <2> QED BY <1>2, <1>7, <2>1, <2>2, <2>4, <2>5, FewerKeys
  <1> QED BY <1>2, <1>3, <1>7, <1>8, SweepKeeps

LEMMA SweepEndsKeeps ==
  ASSUME MediaInv, PruneMediaMeta \/ CollectorDies
  PROVE  MediaInv'
  <1>1. MediaShape
    BY DEF MediaInv
  <1>2. /\ collector' = NotSweeping /\ UNCHANGED <<picture, queued, variant, bytes, at>>
        /\ meta' = meta \/ meta' = (meta /\ ~Prunable)
    BY DEF PruneMediaMeta, CollectorDies, derived
  <1>3. meta' \in BOOLEAN /\ variant \in Rows(Rendition) /\ bytes \subseteq BlobKey
    <2>1. meta \in BOOLEAN /\ variant \in Rows(Rendition) /\ bytes \subseteq BlobKey
      BY <1>1 DEF MediaShape
    <2> QED BY <1>2, <2>1
  <1>4. collector' \in Idle /\ collector'.step = "idle"
    BY <1>2, NotWorkingFits
  <1>5. \A u \in MediaWorker : Made(u)' = Made(u) /\ Before(u)' = Before(u) /\ Spent(u)' = Spent(u)
    BY <1>2, SameHands
  <1>6. ~LostAnswer => KeysApart'
    BY <1>2, <1>4, <1>5, FewerKeys DEF MediaInv
  <1> QED BY <1>2, <1>3, <1>4, <1>6, SweepKeeps

LEMMA FsckKeeps ==
  ASSUME MediaInv, Fsck
  PROVE  MediaInv'
  <1>1. MediaShape
    BY DEF MediaInv
  <1>2. /\ collector = NotSweeping /\ \A w \in MediaWorker : at[w] = NotWorking
        /\ bytes' = bytes \cap {variant[v] : v \in DOMAIN variant}
        /\ UNCHANGED <<picture, queued, meta, variant, at, collector>>
    BY DEF Fsck
  <1>3. /\ meta \in BOOLEAN /\ variant \in Rows(Rendition) /\ bytes' \subseteq BlobKey
        /\ collector' \in Idle /\ collector'.step = "idle"
    BY <1>1, <1>2, NotWorkingFits DEF MediaShape
  <1>4. \A w \in MediaWorker : Made(w)' = {} /\ Before(w)' = {} /\ Spent(w)' = {}
    BY <1>2, NotWorkingFits DEF Made, Before, Spent, NoKey
  <1>5. \A k \in bytes : InRow(k) => k \in bytes'
    BY <1>2 DEF InRow
  <1>6. ~LostAnswer => KeysApart'
    BY <1>2, <1>3, <1>4, <1>5, FewerKeys DEF MediaInv
  <1> QED BY <1>2, <1>3, <1>6, SweepKeeps

LEMMA MediaStep ==
  ASSUME MediaInv, [MediaNext]_mediaVars
  PROVE  MediaInv'
  <1>1. CASE UNCHANGED mediaVars
    <2>1. UNCHANGED <<picture, queued, meta, variant, bytes, at, collector>>
      BY <1>1 DEF mediaVars
    <2>2. picture \in [Picture -> {"absent", "live", "trashed"}] /\ queued \subseteq Picture /\ meta \in BOOLEAN
      BY DEF MediaInv, MediaShape
    <2> QED BY <2>1, <2>2, ElsewhereKeeps
  <1>2. CASE MediaNext
    BY <1>2, UsersKeep, OpenForMediaKeeps, MediaStateKeeps, PutMediaMetaKeeps, PutBytesKeeps, ReadOldKeeps,
       PutMediaVariantKeeps, RemoveSupersededKeeps, PutVariantFailsKeeps, JobEndsKeeps,
       UnreferencedKeeps, DeleteRowKeeps, CollectBytesKeeps, SweepEndsKeeps, FsckKeeps
       DEF MediaNext, HandleMedia, collectMediaVariants
  <1> QED BY <1>1, <1>2

LEMMA MediaFacts ==
  ASSUME MediaInv, ~LostAnswer
  PROVE  MediaTypeOK /\ VariantsKept
  <1>1. DOMAIN variant \subseteq Rendition
    BY RowsFields DEF MediaInv, MediaShape
  <1> QED BY <1>1 DEF MediaInv, MediaShape, JobsApart, KeysApart, MediaTypeOK, VariantsKept

\* Only the sweep takes rows, and looks whether the content is referred to as it does so.
LEMMA DerivedRemains ==
  ASSUME MediaInv, [MediaNext]_mediaVars, Referenced, Referenced'
  PROVE  (meta => meta') /\ DOMAIN variant \subseteq DOMAIN variant'
  <1>1. MediaShape /\ variant \in Rows(Rendition)
    BY DEF MediaInv, MediaShape
  <1>2. CASE UNCHANGED <<meta, variant>>
    BY <1>2
  <1>3. CASE \E w \in MediaWorker : PutMediaVariant(w) \/ PutVariantFails(w)
    <2>1. PICK w \in MediaWorker : PutMediaVariant(w) \/ PutVariantFails(w)
      BY <1>3
    <2>2. PICK k : k = CHOOSE x \in at[w].key : TRUE
      OBVIOUS
    <2>3. meta' = meta /\ (variant' = variant \/ variant' = With1(variant, at[w].variant, k))
      BY <2>1, <2>2 DEF PutMediaVariant, PutVariantFails
    <2>4. DOMAIN variant \subseteq DOMAIN With1(variant, at[w].variant, k)
      BY DEF With1
    <2> QED BY <2>3, <2>4
  <1>4. CASE \E w \in MediaWorker : PutMediaMeta(w)
    BY <1>4 DEF PutMediaMeta
  <1>5. CASE \E v \in Rendition : DeleteMediaVariantRow(v)
    BY <1>5 DEF DeleteMediaVariantRow, Deletable
  <1>6. CASE PruneMediaMeta
    BY <1>6 DEF PruneMediaMeta, Prunable
  <1>7. CASE MediaNext /\ ~(\/ \E w \in MediaWorker : PutMediaVariant(w) \/ PutVariantFails(w) \/ PutMediaMeta(w)
                            \/ \E v \in Rendition : DeleteMediaVariantRow(v)
                            \/ PruneMediaMeta)
    <2>1. UNCHANGED <<meta, variant>>
      BY <1>7 DEF MediaNext, HandleMedia, collectMediaVariants, derived, Upload, TrashPicture, RestorePicture,
         PurgePicture, Becomes, EnqueueForAllMediaFiles, OpenForMedia, MediaState, PutBytes, ReadOld,
         RemoveSuperseded, Handled, RenderFails, WorkerDies, UnreferencedMediaVariants, CollectBytes,
         CollectorDies, Fsck
    <2> QED BY <2>1
  <1>8. CASE UNCHANGED mediaVars
    BY <1>2, <1>8 DEF mediaVars
  <1> QED BY <1>3, <1>4, <1>5, <1>6, <1>7, <1>8

-----------------------------------------------------------------------------
(***************************************************************************)
(* Texts, and the chunks of versions                                       *)
(***************************************************************************)
Version == [text : Seq(Chunk), chunked : BOOLEAN]
Takes(v) == IF v.chunked THEN Contents(v.text) ELSE {}
Fetching == {NotFetching} \cup [at : {"chunks", "content"}, order : Seq(Chunk), got : Seq(Chunk)]

SendShape ==
  /\ local \in [Uploader -> Text] /\ recorded \in [Uploader -> Seq(Chunk)]
  /\ token \in [Uploader \cup Downloader -> {"none", "valid", "dead"}]
  /\ sending \in [Uploader -> SendType]
  /\ \A u \in Uploader : sending[u].at = "send" => sending[u].need \subseteq Contents(sending[u].order)

\* A version that is stored whole is not empty.
NodeShape ==
  /\ live \in Seq(Version) /\ trash \in Seq(Version)
  /\ \A i \in 1 .. Len(live) : live[i].chunked \/ live[i].text # <<>>
  /\ \A i \in 1 .. Len(trash) : trash[i].chunked \/ trash[i].text # <<>>

StoreInv ==
  /\ NodeShape /\ rotten \cup old \subseteq kept /\ kept \cup foreign \subseteq Chunk
  /\ CommitsStored

\* What a download has and what it still asks for make up a text that was current.
FetchInv ==
  /\ fetching \in [Downloader -> Fetching]
  /\ \A d \in Downloader :
       /\ fetching[d].at = "chunks" => fetching[d].got \o fetching[d].order \in been[d]
       /\ fetching[d].at = "content" => fetching[d].order # <<>> \/ fetching[d].got \in been[d]

DeltaInv == SendShape /\ StoreInv /\ FetchInv

LEMMA TextIs == \A t \in Text : t \in Seq(Chunk) /\ t # <<>>
  BY DeltaAssumption

LEMMA TextOfChunks == \A t \in Seq(Chunk) : Contents(t) \subseteq Chunk
  BY DEF Contents

LEMMA InVersions ==
  ASSUME NEW vs, NEW c
  PROVE  c \in ChunksOf(vs) <=> \E i \in 1 .. Len(vs) : c \in Takes(vs[i])
  <1>1. ASSUME NEW i \in 1 .. Len(vs), vs[i].chunked, c \in Contents(vs[i].text) PROVE c \in ChunksOf(vs)
    BY <1>1, Zenon DEF ChunksOf
  <1>2. ASSUME c \in ChunksOf(vs) PROVE \E i \in 1 .. Len(vs) : vs[i].chunked /\ c \in Contents(vs[i].text)
    BY <1>2, Zenon DEF ChunksOf
  <1> QED BY <1>1, <1>2 DEF Takes

LEMMA OneMoreVersion ==
  ASSUME NEW vs \in Seq(Version), NEW v \in Version
  PROVE  /\ Append(vs, v) \in Seq(Version)
         /\ \A c : c \in ChunksOf(Append(vs, v)) <=> c \in ChunksOf(vs) \/ c \in Takes(v)
         /\ \A i \in 1 .. Len(Append(vs, v)) : Append(vs, v)[i] = v \/ \E j \in 1 .. Len(vs) : Append(vs, v)[i] = vs[j]
  <1>1. PICK ws : ws = Append(vs, v)
    OBVIOUS
  <1>2. ws \in Seq(Version) /\ Len(ws) = Len(vs) + 1 /\ Len(vs) \in Nat
    BY <1>1
  <1>3. \A i \in 1 .. Len(vs) : ws[i] = vs[i] /\ i \in 1 .. Len(ws)
    BY <1>1, <1>2
  <1>4. ws[Len(vs) + 1] = v /\ Len(vs) + 1 \in 1 .. Len(ws)
    BY <1>1, <1>2
  <1>5. \A i \in 1 .. Len(ws) : i \in 1 .. Len(vs) \/ i = Len(vs) + 1
    BY <1>2
  <1>6. ASSUME NEW c PROVE c \in ChunksOf(ws) <=> c \in ChunksOf(vs) \/ c \in Takes(v)
    <2>1. (\E i \in 1 .. Len(ws) : c \in Takes(ws[i])) <=> (\E i \in 1 .. Len(vs) : c \in Takes(vs[i])) \/ c \in Takes(v)
      BY <1>3, <1>4, <1>5
    <2> QED BY <2>1, InVersions
  <1> QED BY <1>1, <1>2, <1>3, <1>4, <1>5, <1>6

\* A chunk goes from the head of what is asked for to the end of what is there.
LEMMA ChunkPasses ==
  ASSUME NEW g \in Seq(Chunk), NEW o \in Seq(Chunk), o # <<>>
  PROVE  /\ Append(g, Head(o)) \in Seq(Chunk) /\ Tail(o) \in Seq(Chunk)
         /\ Append(g, Head(o)) \o Tail(o) = g \o o
  <1>1. PICK h, t : h = Append(g, Head(o)) /\ t = Tail(o)
    OBVIOUS
  <1>2. /\ t \in Seq(Chunk) /\ Len(t) = Len(o) - 1 /\ Len(o) \in Nat /\ Len(o) > 0
        /\ Head(o) = o[1] /\ Head(o) \in Chunk /\ \A i \in 1 .. Len(t) : t[i] = o[i + 1]
    BY <1>1, HeadTailProperties
  <1>3. /\ h \in Seq(Chunk) /\ Len(h) = Len(g) + 1 /\ Len(g) \in Nat
        /\ h[Len(g) + 1] = o[1] /\ \A i \in 1 .. Len(g) : h[i] = g[i]
    BY <1>1, <1>2
  <1>4. PICK a, b : a = h \o t /\ b = g \o o
    OBVIOUS
  <1>5. /\ a \in Seq(Chunk) /\ Len(a) = Len(h) + Len(t)
        /\ \A i \in 1 .. Len(h) + Len(t) : a[i] = IF i <= Len(h) THEN h[i] ELSE t[i - Len(h)]
    BY <1>2, <1>3, <1>4, ConcatProperties
  <1>6. /\ b \in Seq(Chunk) /\ Len(b) = Len(g) + Len(o)
        /\ \A i \in 1 .. Len(g) + Len(o) : b[i] = IF i <= Len(g) THEN g[i] ELSE o[i - Len(g)]
    BY <1>2, <1>3, <1>4, ConcatProperties
  <1>7. Len(a) = Len(b)
    BY <1>2, <1>3, <1>5, <1>6
  <1>8. ASSUME NEW i \in 1 .. Len(a) PROVE a[i] = b[i]
    <2>1. PICK m, n \in Nat : m = Len(g) /\ n = Len(o)
      BY <1>2, <1>3
    <2>2. i \in 1 .. m + n /\ n > 0 /\ Len(h) = m + 1 /\ Len(t) = n - 1
      BY <1>2, <1>3, <1>6, <1>7, <2>1
    <2>3. CASE i <= m
      BY <1>3, <1>5, <1>6, <2>1, <2>2, <2>3
    <2>4. CASE i = m + 1
      BY <1>3, <1>5, <1>6, <2>1, <2>2, <2>4
    <2>5. CASE i > m + 1
      <3>0. PICK k \in Nat : k = i /\ k > m + 1 /\ k <= m + n /\ k \in 1 .. m + n
        BY <2>2, <2>5
      <3>1. a[i] = t[i - (m + 1)] /\ b[i] = o[i - m] /\ i - (m + 1) \in 1 .. n - 1
        <4>1. i \in 1 .. Len(h) + Len(t) /\ ~(i <= Len(h)) /\ i - Len(h) = i - (m + 1)
          BY <2>2, <3>0
        <4>2. i \in 1 .. Len(g) + Len(o) /\ ~(i <= Len(g)) /\ i - Len(g) = i - m
          BY <2>1, <2>2, <3>0
        <4>3. i - (m + 1) \in 1 .. n - 1
          BY <3>0
        <4>4. a[i] = t[i - Len(h)]
          BY <1>5, <4>1
        <4>5. b[i] = o[i - Len(g)]
          BY <1>6, <4>2
        <4> QED BY <4>1, <4>2, <4>3, <4>4, <4>5
      <3>2. t[i - (m + 1)] = o[i - (m + 1) + 1] /\ i - (m + 1) + 1 = i - m
        <4>1. PICK j \in 1 .. Len(t) : j = i - (m + 1)
          BY <2>2, <3>1
        <4>2. t[j] = o[j + 1]
          BY <1>2, <4>1
        <4> QED BY <3>0, <4>1, <4>2
      <3> QED BY <3>1, <3>2
    <2> QED BY <2>2, <2>3, <2>4, <2>5
  <1>9. a = b
    BY <1>5, <1>6, <1>7, <1>8, SeqEqual
  <1> QED BY <1>1, <1>2, <1>3, <1>4, <1>9

LEMMA FetchAtRest ==
  /\ NotSending \in SendType /\ NotSending.at = "idle"
  /\ NotFetching \in Fetching /\ NotFetching.at = "idle"
  BY DEF NotSending, SendType, NotFetching, Fetching

LEMMA NoVersions == <<>> \in Seq(Version) /\ ChunksOf(<<>>) = {} /\ \A i \in 1 .. Len(<<>>) : FALSE
  <1>1. <<>> \in Seq(Version) /\ \A i \in 1 .. Len(<<>>) : FALSE
    OBVIOUS
  <1> QED BY <1>1, InVersions

LEMMA DeltaStart == DeltaInit => DeltaInv
  <1> SUFFICES ASSUME DeltaInit PROVE DeltaInv
    OBVIOUS
  <1>1. <<>> \in Seq(Chunk)
    OBVIOUS
  <1>2. \A u \in Uploader : sending[u] = NotSending
    BY DEF DeltaInit
  <1>3. SendShape
    BY <1>1, <1>2, FetchAtRest DEF DeltaInit, SendShape
  <1>4. StoreInv
    BY NoVersions, DeltaAssumption DEF DeltaInit, StoreInv, NodeShape, CommitsStored
  <1>5. \A d \in Downloader : fetching[d] = NotFetching
    BY DEF DeltaInit
  <1>6. FetchInv
    BY <1>5, FetchAtRest DEF DeltaInit, FetchInv
  <1> QED BY <1>3, <1>4, <1>6 DEF DeltaInv

(***************************************************************************)
(* The devices                                                             *)
(***************************************************************************)
LEMMA TokenStays ==
  ASSUME SendShape, NEW x, NEW replayable \in BOOLEAN, Requests(x, replayable)
  PROVE  token' \in [Uploader \cup Downloader -> {"none", "valid", "dead"}]
  <1>1. do(x, replayable) \in {"valid", "dead"}
    BY DEF do
  <1> QED BY <1>1 DEF SendShape, Requests

\* One upload goes on, or ends.
LEMMA SendTurns ==
  ASSUME SendShape, NEW u \in Uploader, NEW s \in SendType, sending' = [sending EXCEPT ![u] = s],
         s.at = "send" => s.need \subseteq Contents(s.order),
         local' = local, recorded' \in [Uploader -> Seq(Chunk)],
         token' \in [Uploader \cup Downloader -> {"none", "valid", "dead"}]
  PROVE  SendShape'
  BY DEF SendShape

LEMMA SendFields ==
  ASSUME SendShape, NEW u \in Uploader
  PROVE  /\ local[u] \in Seq(Chunk) /\ local[u] \in Text /\ sending[u] \in SendType
         /\ sending[u].at = "hash" => /\ sending[u].order \in Seq(Chunk)
                                      /\ sending[u] \in [at : {"hash"}, order : Seq(Chunk)]
         /\ sending[u].at = "send" =>
              /\ sending[u].order \in Seq(Chunk) /\ sending[u].need \in SUBSET Chunk
              /\ sending[u].next \in Nat \ {0} /\ sending[u].need \subseteq Contents(sending[u].order)
              /\ sending[u] \in [at : {"send"}, order : Seq(Chunk), need : SUBSET Chunk, next : Nat \ {0}]
  <1>1. local[u] \in Text /\ sending[u] \in SendType
    BY DEF SendShape
  <1>2. sending[u].at = "hash" => sending[u] \in [at : {"hash"}, order : Seq(Chunk)]
    BY <1>1 DEF SendType, NotSending
  <1>3. sending[u].at = "send" =>
          sending[u] \in [at : {"send"}, order : Seq(Chunk), need : SUBSET Chunk, next : Nat \ {0}]
    BY <1>1 DEF SendType, NotSending
  <1> QED BY <1>1, <1>2, <1>3, TextIs DEF SendShape

LEMMA EditFileTyped ==
  ASSUME SendShape, NEW u \in Uploader, NEW t \in Text, EditFile(u, t)
  PROVE  SendShape'
  BY DEF SendShape, EditFile

LEMMA PollTyped ==
  ASSUME SendShape, NEW u \in Uploader, Poll(u)
  PROVE  SendShape'
  BY TokenStays DEF SendShape, Poll, sendVars

LEMMA uploadFileTyped ==
  ASSUME SendShape, NEW u \in Uploader, uploadFile(u)
  PROVE  SendShape'
  <1>1. <<>> \in Seq(Chunk)
    OBVIOUS
  <1>2. PICK s : s = IF local[u] \in Small THEN [at |-> "whole"] ELSE [at |-> "hash", order |-> <<>>]
    OBVIOUS
  <1>3. s \in SendType /\ s.at # "send"
    BY <1>1, <1>2 DEF SendType
  <1> QED BY <1>2, <1>3, SendTurns DEF uploadFile, SendShape

LEMMA uploadWholeTyped ==
  ASSUME SendShape, NEW u \in Uploader, uploadWhole(u)
  PROVE  SendShape'
  <1>1. sending' = [sending EXCEPT ![u] = NotSending]
    BY DEF uploadWhole, Abandoned
  <1>2. token' \in [Uploader \cup Downloader -> {"none", "valid", "dead"}]
    BY TokenStays DEF uploadWhole
  <1>3. recorded' \in [Uploader -> Seq(Chunk)]
    BY SendFields DEF uploadWhole, SendShape
  <1>4. local' = local
    BY DEF uploadWhole
  <1> QED BY <1>1, <1>2, <1>3, <1>4, FetchAtRest, SendTurns

LEMMA hashChunksTyped ==
  ASSUME SendShape, NEW u \in Uploader, hashChunks(u)
  PROVE  SendShape'
  <1>1. PICK o \in Seq(Chunk) : o = sending[u].order
    BY SendFields DEF hashChunks
  <1>2. PICK c : c = local[u][Len(o) + 1]
    OBVIOUS
  <1>3. c \in Chunk
    <2>1. Len(o) < Len(local[u]) /\ local[u] \in Seq(Chunk) /\ Len(o) \in Nat /\ Len(local[u]) \in Nat
      BY <1>1, SendFields DEF hashChunks
    <2>2. Len(o) + 1 \in 1 .. Len(local[u])
      BY <2>1
    <2> QED BY <1>2, <2>1, <2>2, ElementOfSeq
  <1>4. PICK s : s = [sending[u] EXCEPT !.order = Append(o, c)]
    OBVIOUS
  <1>5. Append(o, c) \in Seq(Chunk)
    BY <1>3
  <1>6. s \in SendType /\ s.at = "hash"
    BY <1>4, <1>5, SendFields DEF hashChunks, SendType
  <1>7. sending' = [sending EXCEPT ![u] = s]
    BY <1>1, <1>2, <1>4 DEF hashChunks, SendShape
  <1>8. /\ local' = local /\ recorded' \in [Uploader -> Seq(Chunk)]
        /\ token' \in [Uploader \cup Downloader -> {"none", "valid", "dead"}]
    BY DEF hashChunks, SendShape
  <1> QED BY <1>6, <1>7, <1>8, SendTurns

LEMMA HaveChunksTyped ==
  ASSUME SendShape, NEW u \in Uploader, HaveChunks(u)
  PROVE  SendShape'
  <1>1. PICK o \in Seq(Chunk) : o = sending[u].order
    BY SendFields DEF HaveChunks
  <1>2. PICK n : n = handleHaveChunks(Contents(o))
    OBVIOUS
  <1>3. n \subseteq Contents(o) /\ n \in SUBSET Chunk
    BY <1>1, <1>2, TextOfChunks DEF handleHaveChunks
  <1>4. PICK s : s = IF Accepted(u, FALSE) THEN [at |-> "send", order |-> o, next |-> 1, need |-> n] ELSE NotSending
    OBVIOUS
  <1>5. s \in SendType /\ (s.at = "send" => s.need \subseteq Contents(s.order))
    <2>1. CASE Accepted(u, FALSE)
      <3>1. s = [at |-> "send", order |-> o, next |-> 1, need |-> n]
        BY <1>4, <2>1
      <3>2. s \in [at : {"send"}, order : Seq(Chunk), need : SUBSET Chunk, next : Nat \ {0}]
        BY <1>3, <3>1
      <3>3. s.need = n /\ s.order = o
        BY <3>1
      <3> QED BY <1>3, <3>2, <3>3 DEF SendType
    <2>2. CASE ~Accepted(u, FALSE)
      BY <1>4, <2>2, FetchAtRest
    <2> QED BY <2>1, <2>2
  <1>6. sending' = [sending EXCEPT ![u] = s]
    BY <1>1, <1>2, <1>4 DEF HaveChunks, SendShape
  <1>7. token' \in [Uploader \cup Downloader -> {"none", "valid", "dead"}]
    BY TokenStays DEF HaveChunks
  <1>8. local' = local /\ recorded' \in [Uploader -> Seq(Chunk)]
    BY DEF HaveChunks, SendShape
  <1> QED BY <1>5, <1>6, <1>7, <1>8, SendTurns

LEMMA PutChunkTyped ==
  ASSUME SendShape, NEW u \in Uploader, PutChunk(u)
  PROVE  SendShape'
  <1>1. sending[u].at = "send" /\ local' = local /\ recorded' = recorded
    BY DEF PutChunk
  <1>2. recorded' \in [Uploader -> Seq(Chunk)]
    BY <1>1 DEF SendShape
  <1>3. PICK c : c = local[u][sending[u].next]
    OBVIOUS
  <1>4. token' \in [Uploader \cup Downloader -> {"none", "valid", "dead"}]
    BY TokenStays DEF PutChunk, SendShape
  <1>5. PICK n \in Nat \ {0} : n = sending[u].next + 1
    BY <1>1, SendFields
  <1>6. CASE sending' = [sending EXCEPT ![u].next = @ + 1]
    <2>1. PICK s : s = [sending[u] EXCEPT !.next = n]
      OBVIOUS
    <2>2. s \in SendType /\ s.need = sending[u].need /\ s.order = sending[u].order /\ s.at = "send"
      BY <1>1, <2>1, SendFields DEF SendType
    <2>3. sending' = [sending EXCEPT ![u] = s]
      BY <1>5, <1>6, <2>1 DEF SendShape
    <2>4. s.need \subseteq Contents(s.order)
      BY <1>1, <2>2, SendFields
    <2> QED BY <1>1, <1>2, <1>4, <2>2, <2>3, <2>4, SendTurns
  <1>7. CASE sending' = [sending EXCEPT ![u].next = @ + 1, ![u].need = @ \ {c}]
    <2>1. PICK s : s = [sending[u] EXCEPT !.next = n, !.need = @ \ {c}]
      OBVIOUS
    <2>2. s \in SendType /\ s.need \subseteq sending[u].need /\ s.order = sending[u].order /\ s.at = "send"
      BY <1>1, <2>1, SendFields DEF SendType
    <2>3. sending' = [sending EXCEPT ![u] = s]
      BY <1>5, <1>7, <2>1 DEF SendShape
    <2>4. s.need \subseteq Contents(s.order)
      BY <1>1, <2>2, SendFields
    <2> QED BY <1>1, <1>2, <1>4, <2>2, <2>3, <2>4, SendTurns
  <1>8. CASE Abandoned(u)
    BY <1>1, <1>2, <1>4, <1>8, FetchAtRest, SendTurns DEF Abandoned
  <1> QED BY <1>3, <1>6, <1>7, <1>8 DEF PutChunk

LEMMA handleCommitManifestTyped ==
  ASSUME SendShape, NEW u \in Uploader, handleCommitManifest(u)
  PROVE  SendShape'
  <1>1. sending' = [sending EXCEPT ![u] = NotSending] /\ local' = local /\ sending[u].at = "send"
    BY DEF handleCommitManifest, Abandoned
  <1>2. token' \in [Uploader \cup Downloader -> {"none", "valid", "dead"}]
    BY TokenStays DEF handleCommitManifest
  <1>3. PICK o \in Seq(Chunk) : o = sending[u].order
    BY <1>1, SendFields
  <1>4. recorded' = recorded \/ recorded' = [recorded EXCEPT ![u] = o]
    BY <1>3 DEF handleCommitManifest
  <1>5. recorded' \in [Uploader -> Seq(Chunk)]
    BY <1>4 DEF SendShape
  <1> QED BY <1>1, <1>2, <1>5, FetchAtRest, SendTurns

LEMMA SendCut ==
  ASSUME SendShape, UNCHANGED <<local, recorded, token>>,
         sending' = sending \/ \E u \in Uploader : sending' = [sending EXCEPT ![u] = NotSending]
  PROVE  SendShape'
  <1>1. CASE sending' = sending
    BY <1>1 DEF SendShape
  <1>2. ASSUME NEW u \in Uploader, sending' = [sending EXCEPT ![u] = NotSending] PROVE SendShape'
    <2>1. recorded' \in [Uploader -> Seq(Chunk)] /\ token' \in [Uploader \cup Downloader -> {"none", "valid", "dead"}]
      BY DEF SendShape
    <2> QED BY <1>2, <2>1, FetchAtRest, SendTurns
  <1> QED BY <1>1, <1>2

LEMMA PullsTyped ==
  ASSUME SendShape, NEW d \in Downloader, Pulls(d)
  PROVE  SendShape'
  <1>1. UNCHANGED <<local, recorded, sending>>
    BY DEF Pulls, handleFileManifest, GetChunk, GetContent, downloadFile, sendVars
  <1>2. Requests(d, TRUE) \/ token' = token
    BY DEF Pulls, handleFileManifest, GetChunk, GetContent, downloadFile
  <1>3. token' \in [Uploader \cup Downloader -> {"none", "valid", "dead"}]
    BY <1>2, TokenStays DEF SendShape
  <1> QED BY <1>1, <1>3 DEF SendShape

LEMMA LoseTokenTyped ==
  ASSUME SendShape, NEW x, LoseToken(x)
  PROVE  SendShape'
  BY DEF SendShape, LoseToken, sendVars

LEMMA SendStep ==
  ASSUME SendShape, DeltaStep
  PROVE  SendShape'
  <1>1. ASSUME NEW u \in Uploader, AnswerLost(u) PROVE SendShape'
    BY <1>1, SendCut DEF AnswerLost, Abandoned
  <1>2. ASSUME NEW x \in Uploader \cup Downloader, CutOff(x) PROVE SendShape'
    BY <1>2, SendCut DEF CutOff
  <1>3. ASSUME \/ \E c \in Chunk : Age(c) \/ CollectGarbage(c) \/ Rot(c)
               \/ Trash \/ Restore \/ Purge \/ PruneVersions \/ OtherDeletes
        PROVE  SendShape'
    <2>1. UNCHANGED <<local, recorded, sending, token>>
      BY <1>3 DEF Age, CollectGarbage, Rot, Trash, Restore, Purge, PruneVersions, OtherDeletes, ChangeNode, sendVars
    <2> QED BY <2>1, SendCut
  <1> QED BY <1>1, <1>2, <1>3, EditFileTyped, PollTyped, uploadFileTyped, uploadWholeTyped, hashChunksTyped,
             HaveChunksTyped, PutChunkTyped, handleCommitManifestTyped, PullsTyped, LoseTokenTyped
          DEF DeltaStep, Pushes

(***************************************************************************)
(* The node and the store                                                  *)
(***************************************************************************)
LEMMA SameStore ==
  ASSUME StoreInv, UNCHANGED <<nodeVars, storeVars>>
  PROVE  StoreInv'
  <1>1. UNCHANGED <<live, trash, foreign, kept, rotten, old>>
    BY DEF nodeVars, storeVars
  <1>2. NodeShape' <=> NodeShape
    BY <1>1 DEF NodeShape
  <1>3. CommitsStored' <=> CommitsStored
    BY <1>1 DEF CommitsStored, ChunksOf
  <1> QED BY <1>1, <1>2, <1>3 DEF StoreInv

\* A version is added, whose chunks are in the store then.
LEMMA VersionAdded ==
  ASSUME StoreInv, NEW v \in Version, v.chunked \/ v.text # <<>>, PutFile(v), UNCHANGED <<trash, foreign>>,
         kept \subseteq kept', Takes(v) \subseteq kept', kept' \subseteq Chunk, rotten' = rotten, old' \subseteq old
  PROVE  StoreInv'
  <1>1. live' = Append(live, v) /\ live \in Seq(Version) /\ trash \in Seq(Version)
    BY DEF PutFile, StoreInv, NodeShape
  <1>2. /\ live' \in Seq(Version)
        /\ \A c : c \in ChunksOf(live') => c \in ChunksOf(live) \/ c \in Takes(v)
        /\ \A i \in 1 .. Len(live') : live'[i] = v \/ \E j \in 1 .. Len(live) : live'[i] = live[j]
    BY <1>1, OneMoreVersion
  <1>3. NodeShape'
    BY <1>1, <1>2 DEF StoreInv, NodeShape
  <1>4. ChunksOf(live) \cup ChunksOf(trash) \subseteq kept
    BY DEF StoreInv, CommitsStored
  <1>5. ChunksOf(live') \cup ChunksOf(trash') \subseteq kept'
    BY <1>2, <1>4
  <1>6. rotten' \cup old' \subseteq kept' /\ kept' \cup foreign' \subseteq Chunk
    BY DEF StoreInv
  <1> QED BY <1>3, <1>5, <1>6 DEF StoreInv, CommitsStored

\* Versions go, or are moved to the trash and back.
LEMMA VersionsMove ==
  ASSUME StoreInv, live' \in Seq(Version), trash' \in Seq(Version),
         \A i \in 1 .. Len(live') : \/ \E j \in 1 .. Len(live) : live'[i] = live[j]
                                    \/ \E j \in 1 .. Len(trash) : live'[i] = trash[j],
         \A i \in 1 .. Len(trash') : \/ \E j \in 1 .. Len(live) : trash'[i] = live[j]
                                     \/ \E j \in 1 .. Len(trash) : trash'[i] = trash[j],
         UNCHANGED <<foreign, storeVars>>
  PROVE  StoreInv'
  <1>1. UNCHANGED <<foreign, kept, rotten, old>>
    BY DEF storeVars
  <1>2. NodeShape'
    BY DEF StoreInv, NodeShape
  <1>3. \A c : c \in ChunksOf(live) \/ c \in ChunksOf(trash) => c \in kept
    BY DEF StoreInv, CommitsStored
  <1>4. \A c : (\E i \in 1 .. Len(live) : c \in Takes(live[i])) \/ (\E i \in 1 .. Len(trash) : c \in Takes(trash[i]))
                 => c \in kept
    BY <1>3, InVersions
  <1>5. ASSUME NEW c, c \in ChunksOf(live') \/ c \in ChunksOf(trash') PROVE c \in kept'
    <2>1. \/ \E i \in 1 .. Len(live') : c \in Takes(live'[i])
          \/ \E i \in 1 .. Len(trash') : c \in Takes(trash'[i])
      BY <1>5, InVersions
    <2>2. \/ \E i \in 1 .. Len(live) : c \in Takes(live[i])
          \/ \E i \in 1 .. Len(trash) : c \in Takes(trash[i])
      BY <2>1
    <2> QED BY <1>1, <1>4, <2>2
  <1>6. CommitsStored'
    BY <1>5 DEF CommitsStored
  <1> QED BY <1>1, <1>2, <1>6 DEF StoreInv

LEMMA uploadWholeStored ==
  ASSUME SendShape, StoreInv, NEW u \in Uploader, uploadWhole(u)
  PROVE  StoreInv'
  <1>1. PICK t \in Text : t = local[u] /\ t \in Seq(Chunk) /\ t # <<>>
    BY SendFields, TextIs
  <1>2. CASE ~Accepted(u, FALSE)
    <2>1. UNCHANGED <<live, trash, foreign, kept, rotten, old>>
      BY <1>2 DEF uploadWhole
    <2> QED BY <2>1, SameStore DEF nodeVars, storeVars
  <1>3. CASE Accepted(u, FALSE)
    <2>1. PICK v : v = IF t \in Small THEN Whole(t) ELSE Chunked(t)
      OBVIOUS
    <2>2. v \in Version /\ v.text = t /\ (v.chunked <=> t \notin Small)
      BY <1>1, <2>1 DEF Version, Whole, Chunked
    <2>3. Takes(v) \subseteq Contents(t) /\ (t \in Small => Takes(v) = {})
      BY <2>2 DEF Takes
    <2>4. /\ PutFile(v) /\ UNCHANGED <<trash, foreign, rotten>>
          /\ kept' = kept \cup (IF t \in Small THEN {} ELSE Contents(t))
          /\ old' = old \ (kept' \ kept)
      BY <1>1, <1>3, <2>1 DEF uploadWhole
    <2>5. kept' \subseteq Chunk /\ kept \subseteq kept' /\ Takes(v) \subseteq kept' /\ old' \subseteq old
      BY <1>1, <2>3, <2>4, TextOfChunks DEF StoreInv
    <2> QED BY <1>1, <2>2, <2>4, <2>5, VersionAdded
  <1> QED BY <1>2, <1>3

\* A manifest is committed when all its chunks are there, whatever the client believed.
LEMMA CommitStored ==
  ASSUME StoreInv, NEW t \in Seq(Chunk), CommitManifest(t), PutFile(Chunked(t)),
         UNCHANGED <<trash, foreign, storeVars>>
  PROVE  StoreInv'
  <1>1. PICK v : v = Chunked(t)
    OBVIOUS
  <1>2. v \in Version /\ v.chunked /\ Takes(v) = Contents(t)
    BY <1>1 DEF Version, Chunked, Takes
  <1>3. Contents(t) \subseteq kept
    BY DEF CommitManifest, Readable
  <1>4. kept \subseteq kept' /\ Takes(v) \subseteq kept' /\ kept' \subseteq Chunk /\ rotten' = rotten /\ old' \subseteq old
    BY <1>2, <1>3 DEF storeVars, StoreInv
  <1> QED BY <1>1, <1>2, <1>4, VersionAdded

LEMMA StoredElse ==
  ASSUME StoreInv, NEW c \in Chunk,
         \/ handlePutChunk(c) /\ UNCHANGED nodeVars
         \/ Age(c) \/ CollectGarbage(c) \/ Rot(c)
         \/ OtherDeletes
  PROVE  StoreInv'
  <1>1. UNCHANGED <<live, trash>>
    BY DEF nodeVars, Age, CollectGarbage, Rot, OtherDeletes
  <1>2. NodeShape'
    BY <1>1 DEF StoreInv, NodeShape
  <1>3. rotten' \cup old' \subseteq kept' /\ kept' \cup foreign' \subseteq Chunk
    BY DEF StoreInv, handlePutChunk, nodeVars, Age, CollectGarbage, Rot, OtherDeletes, storeVars
  <1>4. ChunksOf(live) \cup ChunksOf(trash) \subseteq kept
    BY DEF StoreInv, CommitsStored
  <1>5. \A x \in kept : x \in kept' \/ x \notin ChunksOf(live) \cup ChunksOf(trash)
    BY DEF handlePutChunk, Age, CollectGarbage, Rot, OtherDeletes, storeVars
  <1>6. ChunksOf(live)' = ChunksOf(live) /\ ChunksOf(trash)' = ChunksOf(trash)
    BY <1>1
  <1>7. CommitsStored'
    BY <1>4, <1>5, <1>6 DEF CommitsStored
  <1> QED BY <1>2, <1>3, <1>7 DEF StoreInv

LEMMA NodeChanges ==
  ASSUME StoreInv, Trash \/ Restore \/ Purge \/ PruneVersions
  PROVE  StoreInv'
  <1>1. live \in Seq(Version) /\ trash \in Seq(Version)
    BY DEF StoreInv, NodeShape
  <1>2. UNCHANGED <<foreign, storeVars>>
    BY DEF Trash, Restore, Purge, PruneVersions, ChangeNode
  <1>3. CASE Trash \/ Restore \/ Purge
    <2>1. (live' = <<>> /\ trash' = live) \/ (live' = trash /\ trash' = <<>>) \/ (live' = live /\ trash' = <<>>)
      BY <1>3 DEF Trash, Restore, Purge, ChangeNode
    <2> QED BY <1>1, <1>2, <2>1, NoVersions, VersionsMove
  <1>4. CASE PruneVersions
    <2>1. live' = <<live[Len(live)]>> /\ trash' = trash /\ Len(live) > 1 /\ Len(live) \in Nat
      BY <1>1, <1>4 DEF PruneVersions, ChangeNode
    <2>2. Len(live) \in 1 .. Len(live)
      BY <2>1
    <2>3. PICK v \in Version : v = live[Len(live)]
      BY <1>1, <2>2, ElementOfSeq
    <2>4. live' \in Seq(Version) /\ \A i \in 1 .. Len(live') : live'[i] = v
      BY <2>1, <2>3
    <2> QED BY <1>1, <1>2, <2>1, <2>2, <2>3, <2>4, VersionsMove
  <1> QED BY <1>3, <1>4

LEMMA StoreStep ==
  ASSUME SendShape, StoreInv, DeltaStep
  PROVE  StoreInv'
  <1>1. ASSUME NEW u \in Uploader, PutChunk(u) PROVE StoreInv'
    <2>1. PICK c : c = local[u][sending[u].next]
      OBVIOUS
    <2>2. c \in Chunk
      <3>1. sending[u].next \in Nat \ {0} /\ sending[u].next <= Len(local[u]) /\ local[u] \in Seq(Chunk)
        BY <1>1, SendFields DEF PutChunk
      <3>2. sending[u].next \in 1 .. Len(local[u])
        BY <3>1
      <3> QED BY <2>1, <3>1, <3>2, ElementOfSeq
    <2>3. UNCHANGED nodeVars /\ (UNCHANGED storeVars \/ handlePutChunk(c))
      BY <1>1, <2>1 DEF PutChunk
    <2> QED BY <2>2, <2>3, SameStore, StoredElse
  <1>2. ASSUME NEW u \in Uploader, handleCommitManifest(u) \/ AnswerLost(u) PROVE StoreInv'
    <2>1. PICK t \in Seq(Chunk) : t = sending[u].order
      BY <1>2, SendFields DEF handleCommitManifest, AnswerLost
    <2>2. UNCHANGED <<trash, foreign, storeVars>>
      BY <1>2 DEF handleCommitManifest, AnswerLost
    <2>3. live' = live \/ (CommitManifest(t) /\ PutFile(Chunked(t)))
      BY <1>2, <2>1 DEF handleCommitManifest, AnswerLost
    <2> QED BY <2>2, <2>3, CommitStored, SameStore DEF nodeVars
  <1>3. ASSUME NEW u \in Uploader, uploadFile(u) \/ hashChunks(u) \/ HaveChunks(u) \/ Poll(u) \/ \E t \in Text : EditFile(u, t)
        PROVE  StoreInv'
    BY <1>3, SameStore DEF uploadFile, hashChunks, HaveChunks, Poll, EditFile
  <1>4. ASSUME NEW d \in Downloader, Pulls(d) PROVE StoreInv'
    BY <1>4, SameStore DEF Pulls, handleFileManifest, GetChunk, GetContent, downloadFile
  <1>5. ASSUME NEW x, LoseToken(x) \/ CutOff(x) PROVE StoreInv'
    BY <1>5, SameStore DEF LoseToken, CutOff
  <1>6. ASSUME OtherDeletes PROVE StoreInv'
    <2>1. foreign' = {} /\ UNCHANGED <<live, trash, kept, rotten, old>>
      BY <1>6 DEF OtherDeletes, storeVars
    <2>2. NodeShape' /\ CommitsStored'
      BY <2>1 DEF StoreInv, NodeShape, CommitsStored, ChunksOf
    <2> QED BY <2>1, <2>2 DEF StoreInv
  <1> QED BY <1>1, <1>2, <1>3, <1>4, <1>5, <1>6, uploadWholeStored, StoredElse, NodeChanges DEF DeltaStep, Pushes

(***************************************************************************)
(* Downloads                                                               *)
(***************************************************************************)
Texts == {v.text : v \in Current}

LEMMA BeenGrows ==
  ASSUME Remembered, NEW d \in Downloader, fetching'[d] # NotFetching
  PROVE  been[d] \cup Texts \subseteq been'[d]
  BY DEF Remembered, Texts

LEMMA CurrentVersion ==
  ASSUME StoreInv, NEW v \in Current
  PROVE  v \in Version /\ (v.chunked \/ v.text # <<>>) /\ v.text \in Texts /\ v.text \in Seq(Chunk)
  <1>1. v = live[Len(live)] /\ live # <<>> /\ live \in Seq(Version)
    BY DEF Current, StoreInv, NodeShape
  <1>2. Len(live) \in 1 .. Len(live)
    BY <1>1
  <1>3. v \in Version
    BY <1>1, <1>2, ElementOfSeq
  <1> QED BY <1>1, <1>2, <1>3 DEF StoreInv, NodeShape, Texts, Version

\* One download goes on, or ends.
LEMMA FetchTurns ==
  ASSUME FetchInv, Remembered, NEW d \in Downloader, NEW f \in Fetching, fetching' = [fetching EXCEPT ![d] = f],
         f.at = "chunks" => f.got \o f.order \in been[d] \cup Texts,
         f.at = "content" => f.order # <<>> \/ f.got \in been[d] \cup Texts
  PROVE  FetchInv'
  <1>1. fetching' \in [Downloader -> Fetching] /\ fetching'[d] = f
        /\ \A e \in Downloader : e # d => fetching'[e] = fetching[e]
    BY DEF FetchInv
  <1>2. ASSUME NEW e \in Downloader
        PROVE  /\ fetching'[e].at = "chunks" => fetching'[e].got \o fetching'[e].order \in been'[e]
               /\ fetching'[e].at = "content" => fetching'[e].order # <<>> \/ fetching'[e].got \in been'[e]
    <2>1. fetching'[e].at \in {"chunks", "content"} => been[e] \cup Texts \subseteq been'[e]
      BY BeenGrows, FetchAtRest
    <2>2. CASE e = d
      BY <1>1, <2>1, <2>2
    <2>3. CASE e # d
      BY <1>1, <2>1, <2>3 DEF FetchInv
    <2> QED BY <2>2, <2>3
  <1> QED BY <1>1, <1>2 DEF FetchInv

LEMMA FetchStays ==
  ASSUME FetchInv, Remembered, fetching' = fetching
  PROVE  FetchInv'
  <1>1. ASSUME NEW e \in Downloader
        PROVE  /\ fetching'[e].at = "chunks" => fetching'[e].got \o fetching'[e].order \in been'[e]
               /\ fetching'[e].at = "content" => fetching'[e].order # <<>> \/ fetching'[e].got \in been'[e]
    <2>1. fetching'[e].at \in {"chunks", "content"} => been[e] \subseteq been'[e]
      BY BeenGrows, FetchAtRest
    <2> QED BY <2>1 DEF FetchInv
  <1> QED BY <1>1 DEF FetchInv

LEMMA FetchStops ==
  ASSUME FetchInv, Remembered, NEW d \in Downloader, Stopped(d)
  PROVE  FetchInv'
  BY FetchAtRest, FetchTurns DEF Stopped

LEMMA FetchFields ==
  ASSUME FetchInv, NEW d \in Downloader, fetching[d].at \in {"chunks", "content"}
  PROVE  fetching[d].order \in Seq(Chunk) /\ fetching[d].got \in Seq(Chunk)
  <1>1. fetching[d] \in Fetching
    BY DEF FetchInv
  <1> QED BY <1>1, FetchAtRest DEF Fetching

LEMMA handleFileManifestTrue ==
  ASSUME StoreInv, FetchInv, Remembered, NEW d \in Downloader, handleFileManifest(d)
  PROVE  FetchInv'
  <1>1. PICK v \in Current :
          fetching' = [fetching EXCEPT ![d] =
            [at |-> IF v.chunked THEN "chunks" ELSE "content", order |-> v.text, got |-> <<>>]]
    BY DEF handleFileManifest
  <1>2. PICK t \in Seq(Chunk) : t = v.text /\ t \in Texts /\ (v.chunked \/ t # <<>>)
    BY CurrentVersion
  <1>3. PICK f : f = [at |-> IF v.chunked THEN "chunks" ELSE "content", order |-> t, got |-> <<>>]
    OBVIOUS
  <1>4. <<>> \in Seq(Chunk) /\ <<>> \o t = t
    OBVIOUS
  <1>5. f \in Fetching /\ f.got = <<>> /\ f.order = t /\ (f.at = "content" => ~v.chunked)
    BY <1>3, <1>4 DEF Fetching
  <1>6. fetching' = [fetching EXCEPT ![d] = f]
    BY <1>1, <1>2, <1>3
  <1> QED BY <1>2, <1>4, <1>5, <1>6, FetchTurns

LEMMA GetChunkTrue ==
  ASSUME FetchInv, Remembered, NEW d \in Downloader, GetChunk(d)
  PROVE  FetchInv'
  <1>1. fetching[d].at = "chunks" /\ fetching[d].order # <<>>
    BY DEF GetChunk
  <1>2. PICK g \in Seq(Chunk), o \in Seq(Chunk) : g = fetching[d].got /\ o = fetching[d].order /\ o # <<>>
    BY <1>1, FetchFields
  <1>3. CASE fetching' = [fetching EXCEPT ![d] = [at |-> "chunks", order |-> Tail(@.order), got |-> Append(@.got, Head(o))]]
    <2>1. PICK f : f = [at |-> "chunks", order |-> Tail(o), got |-> Append(g, Head(o))]
      OBVIOUS
    <2>2. f \in Fetching /\ f.at = "chunks" /\ f.got \o f.order = g \o o
      BY <1>2, <2>1, ChunkPasses DEF Fetching
    <2>3. fetching' = [fetching EXCEPT ![d] = f]
      BY <1>2, <1>3, <2>1 DEF FetchInv
    <2>4. g \o o \in been[d]
      BY <1>1, <1>2 DEF FetchInv
    <2> QED BY <2>2, <2>3, <2>4, FetchTurns
  <1> QED BY <1>2, <1>3, FetchStops DEF GetChunk

LEMMA GetContentTrue ==
  ASSUME StoreInv, FetchInv, Remembered, NEW d \in Downloader, GetContent(d)
  PROVE  FetchInv'
  <1>1. ASSUME NEW v \in Current, fetching' = [fetching EXCEPT ![d] = [at |-> "content", order |-> <<>>, got |-> v.text]]
        PROVE  FetchInv'
    <2>1. PICK t \in Seq(Chunk) : t = v.text /\ t \in Texts
      BY CurrentVersion
    <2>2. PICK f : f = [at |-> "content", order |-> <<>>, got |-> t]
      OBVIOUS
    <2>3. <<>> \in Seq(Chunk)
      OBVIOUS
    <2>4. f \in Fetching /\ f.at = "content" /\ f.got = t
      BY <2>2, <2>3 DEF Fetching
    <2> QED BY <1>1, <2>1, <2>2, <2>4, FetchTurns
  <1> QED BY <1>1, FetchStops DEF GetContent

LEMMA FetchStep ==
  ASSUME StoreInv, FetchInv, DeltaStep, Remembered
  PROVE  FetchInv'
  <1>1. ASSUME NEW d \in Downloader, Pulls(d) PROVE FetchInv'
    BY <1>1, handleFileManifestTrue, GetChunkTrue, GetContentTrue, FetchStops DEF Pulls, downloadFile
  <1>2. ASSUME NEW x \in Uploader \cup Downloader, CutOff(x) PROVE FetchInv'
    BY <1>2, FetchStays, FetchStops DEF CutOff, Stopped
  <1>3. ASSUME ~ \E d \in Downloader : Pulls(d), ~ \E x \in Uploader \cup Downloader : CutOff(x) PROVE FetchInv'
    <2>1. fetching' = fetching
      BY <1>3 DEF DeltaStep, Pushes, uploadFile, uploadWhole, hashChunks, HaveChunks, PutChunk, handleCommitManifest,
         Poll, AnswerLost, EditFile, LoseToken, Age, CollectGarbage, Rot, Trash, Restore, Purge, PruneVersions,
         ChangeNode, OtherDeletes, fetchVars
    <2> QED BY <2>1, FetchStays
  <1> QED BY <1>1, <1>2, <1>3

LEMMA DeltaNextKeeps ==
  ASSUME DeltaInv, [DeltaNext]_deltaVars
  PROVE  DeltaInv'
  <1>1. CASE UNCHANGED deltaVars
    <2>1. UNCHANGED <<local, recorded, sending, token, live, trash, foreign, kept, rotten, old, fetching, been>>
      BY <1>1 DEF deltaVars
    <2>2. SendShape'
      BY <2>1, SendCut DEF DeltaInv
    <2>3. StoreInv'
      BY <2>1, SameStore DEF DeltaInv, nodeVars, storeVars
    <2>4. FetchInv'
      BY <2>1 DEF DeltaInv, FetchInv
    <2> QED BY <2>2, <2>3, <2>4 DEF DeltaInv
  <1>2. CASE DeltaNext
    BY <1>2, SendStep, StoreStep, FetchStep DEF DeltaInv, DeltaNext
  <1> QED BY <1>1, <1>2

LEMMA DeltaFacts ==
  ASSUME DeltaInv
  PROVE  DeltaTypeOK /\ CommitsStored /\ PlacedWasCurrent
  <1>1. ASSUME NEW d \in Downloader PROVE fetching[d] \in Fetching /\ fetching[d].at \in {"idle", "chunks", "content"}
    BY FetchAtRest DEF DeltaInv, FetchInv, Fetching
  <1>2. ASSUME NEW d \in Downloader, fetching[d] # NotFetching, fetching[d].order = <<>>
        PROVE  fetching[d].got \in been[d]
    <2>1. fetching[d].at \in {"chunks", "content"}
      BY <1>1, <1>2 DEF Fetching
    <2>2. PICK g \in Seq(Chunk) : g = fetching[d].got
      BY <2>1, FetchFields DEF DeltaInv
    <2>3. g \o <<>> = g
      BY <2>2
    <2> QED BY <1>2, <2>1, <2>2, <2>3 DEF DeltaInv, FetchInv
  <1> QED BY <1>1, <1>2 DEF DeltaInv, SendShape, StoreInv, DeltaTypeOK, PlacedWasCurrent

-----------------------------------------------------------------------------
(***************************************************************************)
(* The whole                                                               *)
(***************************************************************************)

\* A behaviour of the whole is, for each of its parts, a behaviour of that part.
LEMMA DutyStarts ==
  DutyInit => /\ Init /\ PushInit /\ BillInit /\ MediaInit /\ VectorInit /\ DeltaInit
              /\ UpdateInit /\ SelectiveInit
  BY DEF DutyInit

LEMMA DutySteps ==
  [DutyNext]_allVars => /\ [Next]_vars /\ [PushNext]_pushVars /\ [BillNext]_billVars
                        /\ [MediaNext]_mediaVars /\ [VectorNext]_vectorVars
                        /\ [DeltaNext]_deltaVars /\ [UpdateNext]_updateVars
                        /\ [SelectiveNext]_selectiveVars
  BY DEF DutyNext, NotTier, NotPush, NotBilling, NotMedia, NotVectors, NotDelta, NotUpdate,
         NotChoice, allVars, serverVars, clientVars

\* The invariants of the parts, all of which hold together.
LEMMA DutyInvariants ==
  DutySpec => /\ []BillInv /\ []PushInv /\ []VectorInv /\ []MediaInv /\ []DeltaInv /\ []UpdateInv
  <1>1. DutySpec => []BillInv
    BY DutyStarts, DutySteps, BillStart, BillStep, PTL DEF DutySpec
  <1>2. DutySpec => []PushInv
    BY DutyStarts, DutySteps, PushStart, PushStep, PTL DEF DutySpec
  <1>3. VectorInv /\ [VectorNext]_vectorVars => VectorInv'
    BY VectorStep
  <1>4. DutySpec => []VectorInv
    BY <1>3, DutyStarts, DutySteps, VectorStart, PTL DEF DutySpec
  <1>5. MediaInv /\ [MediaNext]_mediaVars => MediaInv'
    BY MediaStep
  <1>6. DutySpec => []MediaInv
    BY <1>5, DutyStarts, DutySteps, MediaStart, PTL DEF DutySpec
  <1>7. DeltaInv /\ [DeltaNext]_deltaVars => DeltaInv'
    BY DeltaNextKeeps
  <1>8. DutySpec => []DeltaInv
    BY <1>7, DutyStarts, DutySteps, DeltaStart, PTL DEF DutySpec
  <1>9. DutySpec => []UpdateInv
    BY DutyStarts, DutySteps, UpdateStart, UpdateStep, PTL DEF DutySpec
  <1> QED BY <1>1, <1>2, <1>4, <1>6, <1>8, <1>9

LEMMA SelectiveInvariant == Mishaps = {} => (DutySpec => []SelectiveInv)
  <1> SUFFICES ASSUME Mishaps = {} PROVE DutySpec => []SelectiveInv
    OBVIOUS
  <1>1. SelectiveInv /\ [SelectiveNext]_selectiveVars => SelectiveInv'
    BY SelectiveStep
  <1> QED BY <1>1, DutyStarts, DutySteps, SelectiveStart, PTL DEF DutySpec

\* The state of every part has its shape, as long as no answer to a commit is lost, the column
\* of vectors is there before its workers, no row is pruned and made again while a copy is
\* filled in, and the choice of folders meets none of Selective's Mishaps (media/store.go,
\* vector/store.go, engine/selective.go).
THEOREM ShapesHold ==
  ~LostAnswer /\ Aged = {} /\ ~Restamped /\ Mishaps = {} => (DutySpec => []DutyTypeOK)
  <1> SUFFICES ASSUME ~LostAnswer, Aged = {}, ~Restamped, Mishaps = {}
               PROVE  DutySpec => []DutyTypeOK
    OBVIOUS
  <1>1. /\ BillInv /\ PushInv /\ VectorInv /\ MediaInv /\ DeltaInv /\ UpdateInv /\ SelectiveInv
        => DutyTypeOK
    BY BillFacts, PushFacts, VectorFacts, MediaFacts, DeltaFacts, UpdateFacts, SelectiveFacts
       DEF DutyTypeOK
  <1> QED BY <1>1, DutyInvariants, SelectiveInvariant, PTL

\* However sends, sweeps, restarts and failures come together, a device hears of a cursor at
\* most once from one notifier, a limit that stays passed is announced once, and a closed
\* period stays as it was announced, as long as one process meters (push/notifier.go,
\* jobs/billing/meter.go).
THEOREM AnnouncementsStand ==
  (\A v, w \in Meter : v = w) => (DutySpec => []AnnouncementsHold)
  <1> SUFFICES ASSUME \A v, w \in Meter : v = w PROVE DutySpec => []AnnouncementsHold
    OBVIOUS
  <1>1. BillInv /\ PushInv => AnnouncementsHold
    BY BillFacts, PushFacts DEF AnnouncementsHold
  <1> QED BY <1>1, DutyInvariants, PTL

\* No move between tiers, no rendering, sweep or removal, and no commit of a manifest, in any
\* order and with any crash between, leaves a row without its bytes, as long as no chunk is
\* uploaded again once it was collected and no answer to a commit is lost (tiered.go,
\* media/store.go, files/manifest.go).
THEOREM BytesStand ==
  Rewrite = "never" /\ ~LostAnswer => (DutySpec => []BytesBehindRows)
  <1> SUFFICES ASSUME Rewrite = "never", ~LostAnswer PROVE DutySpec => []BytesBehindRows
    OBVIOUS
  <1>1. TypeOK /\ Kept /\ [Next]_vars => Kept'
    BY KeptStep
  <1>2. DutySpec => []TypeOK
    BY DutyStarts, DutySteps, TypeInit, TypeStep, PTL DEF DutySpec
  <1>3. DutySpec => []Kept
    BY <1>1, <1>2, DutyStarts, DutySteps, KeptInit, PTL DEF DutySpec
  <1>4. Kept => Durable
    BY DEF Kept
  <1>5. Kept /\ MediaInv /\ DeltaInv => BytesBehindRows
    BY <1>4, MediaFacts, DeltaFacts DEF BytesBehindRows
  <1> QED BY <1>3, <1>5, DutyInvariants, PTL

\* What a device places was a current version while it was fetching, whatever is committed,
\* trashed or collected meanwhile, and a search returns every document that was indexed
\* throughout, if no worker has looked for the column of vectors before it was there
\* (delta/download.go, vector/store.go).
THEOREM AnswersStand == Aged = {} => (DutySpec => []AnswersTrue)
  <1> SUFFICES ASSUME Aged = {} PROVE DutySpec => []AnswersTrue
    OBVIOUS
  <1>1. DeltaInv /\ VectorInv => AnswersTrue
    BY DeltaFacts, VectorFacts DEF AnswersTrue
  <1> QED BY <1>1, DutyInvariants, PTL

\* Whoever updates, and whatever dies between any two renames, an administrator finds a
\* whole binary at the path or beside it, as long as no two processes update at the same
\* time (replace.go, replaceBinary).
THEOREM BinaryStaysAtHand == ~Together => (DutySpec => []BinaryAtHand)
  <1> SUFFICES ASSUME ~Together PROVE DutySpec => []BinaryAtHand
    OBVIOUS
  <1>1. UpdateInv => BinaryAtHand
    BY UpdateFacts
  <1> QED BY <1>1, DutyInvariants, PTL

\* No pass of the engine removes from the device a content that the server has not been
\* given, but for the Mishaps of a choice: a file that was never tracked or comes while its
\* folder is removed, a pass cut short, a folder taken back meanwhile (engine/selective.go,
\* engine/pull.go).
THEOREM UnsentStays == Mishaps = {} => (DutySpec => UnsentKept)
  <1> SUFFICES ASSUME Mishaps = {} PROVE DutySpec => UnsentKept
    OBVIOUS
  <1>1. SelectiveInv /\ [DutyNext]_allVars
        => [SyncPass => Stays(onDisk, setAside, sent) \ {0}
                          \subseteq Stays(onDisk', setAside', sent')]_selectiveVars
    BY NothingUnsentGoes
  <1> QED BY <1>1, SelectiveInvariant, PTL DEF DutySpec, UnsentKept

\* A file leaves the server only when its user has removed it from the device: no folder that
\* is declined, and none half walked, is taken for removed, but for the same Mishaps
\* (engine/push.go, pushDeletions).
THEOREM OnlyUsersRemove == Mishaps = {} => (DutySpec => OnlyTheUsersRemovals)
  <1> SUFFICES ASSUME Mishaps = {} PROVE DutySpec => OnlyTheUsersRemovals
    OBVIOUS
  <1>1. SelectiveInv /\ [DutyNext]_allVars
        => [\A f \in Path : head[f] # 0 /\ head'[f] = 0 => f \in dropped]_selectiveVars
    BY DutySteps, RemovalsAreTheUsers
  <1> QED BY <1>1, SelectiveInvariant, PTL DEF DutySpec, OnlyTheUsersRemovals

\* As long as a content is referred to, no sweep takes a variant or its description from it,
\* whatever it collected before (media/store.go, DeleteMediaVariantRow).
THEOREM DerivedRemain == DutySpec => DerivedStays
  <1>1. MediaInv /\ [DutyNext]_allVars
        => [Referenced /\ Referenced'
             => (meta => meta') /\ DOMAIN variant \subseteq DOMAIN variant']_mediaVars
    BY DutySteps, DerivedRemains
  <1> QED BY <1>1, DutyInvariants, PTL DEF DutySpec, DerivedStays
=============================================================================
