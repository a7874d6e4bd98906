----------------------------- MODULE TieredStore -----------------------------
(***************************************************************************)
(* The two storage tiers: the local pool (hot), the bucket (cold), the     *)
(* tier column of the rows that own the bytes, the sweeps that demote, the *)
(* reads that promote, the operator's restore and the garbage collector.   *)
(*                                                                         *)
(* A key is a whole-file blob (random key) or a chunk (its content hash).  *)
(* A copy is "good" (what was uploaded) or "bad" (a truncated PUT).  Age,  *)
(* idleness and size, the three tests of the policy, are one flag, idle.   *)
(* No process calls SetRecorder, so reads write neither the tier column    *)
(* nor last_access_at.  A batch is large enough for every candidate.       *)
(***************************************************************************)
EXTENDS Naturals

CONSTANTS
  Key,       \* storage keys
  Blob,      \* the keys of whole-file blobs; the others are chunks
  Reader,    \* download requests of the API process
  Sweeper,   \* processes that run the tiering policy
  Rewrite,   \* are chunks uploaded again: "never", "quiet" or at "any" time
  MaxFault   \* bound: crashes, network errors and truncated PUTs

ASSUME TierAssumption == /\ Blob \subseteq Key /\ Key # {}
                         /\ Rewrite \in {"never", "quiet", "any"} /\ MaxFault \in Nat

VARIABLES
  hot,       \* hot[k]: the local copy
  cold,      \* cold[k]: the object in the bucket
  row,       \* row[k]: the row of table blobs or chunks
  inflight,  \* inflight[k]: the API's promotion of k
  rd,        \* rd[r]: where download r stands
  sweep,     \* sweep[s]: where sweep s stands
  restore,   \* the operator's restore of one key
  gc,        \* the collection of one row
  put,       \* the upload of one chunk
  faults     \* faults so far

vars == <<hot, cold, row, inflight, rd, sweep, restore, gc, put, faults>>

-----------------------------------------------------------------------------
Copy == {"none", "good", "bad"}
Row == [there : BOOLEAN, refs : BOOLEAN, tier : {"hot", "cold"}, idle : BOOLEAN]
NewRow == [there |-> TRUE, refs |-> TRUE, tier |-> "hot", idle |-> FALSE]

\* A stored file: one blob, or the chunks of a manifest.
File == {{b} : b \in Blob} \cup (SUBSET (Key \ Blob) \ {{}})
IsBlob(f) == f \subseteq Blob

\* said: the last answer of the request.  "broken" is a connection cut after the
\* 200, "lost" the report that content is missing from storage.
Again == {"restoring", "broken", "failed"}
Answer == Again \cup {"nothing", "served", "gone", "lost", "corrupt"}
Download == [pc : {"idle", "warm", "wait", "stream", "late", "reopen"},
             file : SUBSET Key, warm : SUBSET Key, todo : SUBSET Key, key : Key,
             slow : BOOLEAN, said : Answer]
\* The status of an answer: writeFilesError knows nothing of ErrRestoring.
Status(what) == IF what \in {"served", "broken"} THEN 200
                ELSE IF what = "gone" THEN 404 ELSE 500
AnyKey == CHOOSE k \in Key : TRUE
NoDownload == [pc |-> "idle", file |-> {}, warm |-> {}, todo |-> {},
               key |-> AnyKey, slow |-> FALSE, said |-> "nothing"]

SweepRun == [pc : {"idle", "next", "put", "check", "delete", "mark"},
             todo : SUBSET Key, key : Key, want : Copy]
NoSweep == [pc |-> "idle", todo |-> {}, key |-> AnyKey, want |-> "none"]

\* What the three short sequential jobs remember: their next step and key.
Task(steps) == [pc : {"idle"} \cup steps, key : Key]
NoTask == [pc |-> "idle", key |-> AnyKey]

TypeOK ==
  /\ hot \in [Key -> Copy]
  /\ cold \in [Key -> Copy]
  /\ row \in [Key -> Row]
  /\ inflight \in [Key -> {"none", "begun", "copying"}]
  /\ rd \in [Reader -> Download]
  /\ sweep \in [Sweeper -> SweepRun]
  /\ restore \in Task({"mark"})
  /\ gc \in Task({"hot", "cold"})
  /\ put \in Task({"write", "row"})
  /\ faults \in 0..MaxFault

Init ==
  /\ hot = [k \in Key |-> "good"]
  /\ cold = [k \in Key |-> "none"]
  /\ row = [k \in Key |-> NewRow]
  /\ inflight = [k \in Key |-> "none"]
  /\ rd = [r \in Reader |-> NoDownload]
  /\ sweep = [s \in Sweeper |-> NoSweep]
  /\ restore = NoTask
  /\ gc = NoTask
  /\ put = NoTask
  /\ faults = 0

Fault == faults < MaxFault /\ faults' = faults + 1

-----------------------------------------------------------------------------
(* The demotion sweep                                                      *)

\* The WHERE clause of the two queries of Candidates.
Candidate(k) == /\ row[k].there /\ row[k].refs /\ row[k].idle
                /\ row[k].tier = "hot"

Candidates(s) ==
  /\ sweep[s].pc = "idle"
  /\ \E k \in Key : Candidate(k)
  /\ sweep' = [sweep EXCEPT ![s].pc = "next", ![s].todo = {k \in Key : Candidate(k)}]
  /\ UNCHANGED <<hot, cold, row, inflight, rd, restore, gc, put, faults>>

\* Failed++ and on to the next candidate; the local copy is left alone.
GivesUp(s) == sweep' = [sweep EXCEPT ![s].pc = "next"]

\* Demote, first step: digestLocal.
DigestLocal(s, k) ==
  /\ sweep[s].pc = "next" /\ k \in sweep[s].todo
  /\ sweep' = [sweep EXCEPT ![s].todo = @ \ {k}, ![s].key = k,
                            ![s].want = hot[k],
                            ![s].pc = IF hot[k] = "none" THEN "next" ELSE "put"]
  /\ UNCHANGED <<hot, cold, row, inflight, rd, restore, gc, put, faults>>

\* S3Store.PutKeyed skips an object that is there.  With a fault the PUT is cut
\* short, unnoticed.
PutCold(s) ==
  LET k == sweep[s].key
  IN /\ sweep[s].pc = "put"
     /\ \/ hot[k] = "none" /\ GivesUp(s) /\ UNCHANGED <<cold, faults>>
        \/ /\ hot[k] # "none"
           /\ sweep' = [sweep EXCEPT ![s].pc = "check"]
           /\ \/ /\ cold' = [cold EXCEPT ![k] = IF @ = "none" THEN hot[k] ELSE @]
                 /\ UNCHANGED faults
              \/ cold[k] = "none" /\ Fault /\ cold' = [cold EXCEPT ![k] = "bad"]
     /\ UNCHANGED <<hot, row, inflight, rd, restore, gc, put>>

\* Wrong: it is enough that an object can be read back.
Matches_Present(s) == cold[sweep[s].key] # "none"

\* The digest of the object is the digest of the local bytes.
Matches(s) == cold[sweep[s].key] = sweep[s].want

\* Wrong: the row is marked before the copy is known to be good.
ReadBack_MarksFirst(s) ==
  /\ sweep[s].pc = "check"
  /\ sweep' = [sweep EXCEPT ![s].pc = IF Matches(s) THEN "delete" ELSE "next"]
  /\ row' = [row EXCEPT ![sweep[s].key].tier = "cold"]
  /\ UNCHANGED <<hot, cold, inflight, rd, restore, gc, put, faults>>

ReadBack(s) ==
  /\ sweep[s].pc = "check"
  /\ sweep' = [sweep EXCEPT ![s].pc = IF Matches(s) THEN "delete" ELSE "next"]
  /\ UNCHANGED <<hot, cold, row, inflight, rd, restore, gc, put, faults>>

DeleteHot(s) ==
  /\ sweep[s].pc = "delete"
  /\ hot' = [hot EXCEPT ![sweep[s].key] = "none"]
  /\ sweep' = [sweep EXCEPT ![s].pc = "mark"]
  /\ UNCHANGED <<cold, row, inflight, rd, restore, gc, put, faults>>

\* UPDATE ... SET tier = 'cold' WHERE storage_key = $1: a row that is gone by now
\* is not missed.
MarkCold(s) ==
  LET k == sweep[s].key
  IN /\ sweep[s].pc = "mark"
     /\ row' = IF row[k].there THEN [row EXCEPT ![k].tier = "cold"] ELSE row
     /\ GivesUp(s)
     /\ UNCHANGED <<hot, cold, inflight, rd, restore, gc, put, faults>>

SweepEnds(s) ==
  /\ sweep[s].pc = "next" /\ sweep[s].todo = {}
  /\ sweep' = [sweep EXCEPT ![s] = NoSweep]
  /\ UNCHANGED <<hot, cold, row, inflight, rd, restore, gc, put, faults>>

\* An error from the bucket, the pool or the database at any step of a demotion.
SweepFails(s) ==
  /\ sweep[s].pc \in {"put", "check", "delete", "mark"} /\ Fault /\ GivesUp(s)
  /\ UNCHANGED <<hot, cold, row, inflight, rd, restore, gc, put>>

\* The worker is stopped or dies.
SweepDies(s) ==
  /\ sweep[s].pc # "idle" /\ Fault
  /\ sweep' = [sweep EXCEPT ![s] = NoSweep]
  /\ UNCHANGED <<hot, cold, row, inflight, rd, restore, gc, put>>

-----------------------------------------------------------------------------
(* Reads and promotions                                                    *)

\* begin, for each key of ks that hot.Stat does not find.
Begun(ks) == [k \in Key |-> IF k \in ks /\ hot[k] = "none" /\ inflight[k] = "none"
                              THEN "begun" ELSE inflight[k]]

\* A client whose download did not go through asks for the same file again.
MayAsk(r, f) == /\ rd[r].pc = "idle"
                /\ rd[r].said \in Again => f = rd[r].file
Live(f) == \A k \in f : row[k].there /\ row[k].refs

\* Download d is answered.
Ends(d, what) == [NoDownload EXCEPT !.said = what, !.file = d.file]
Says(r, what) == rd' = [rd EXCEPT ![r] = Ends(@, what)]

OpenGone(r) ==
  /\ rd[r].pc = "idle" /\ rd[r].said \in Again /\ ~Live(rd[r].file)
  /\ Says(r, "gone")
  /\ UNCHANGED <<hot, cold, row, inflight, sweep, restore, gc, put, faults>>

OpenBlob(r, f) ==
  /\ MayAsk(r, f) /\ Live(f) /\ IsBlob(f)
  /\ rd' = [rd EXCEPT ![r] = [NoDownload EXCEPT !.pc = "stream", !.file = f, !.todo = f]]
  /\ UNCHANGED <<hot, cold, row, inflight, sweep, restore, gc, put, faults>>

\* The query of WarmManifest, and StartRestore for each key that it returns.
WarmManifest(r, f) ==
  LET coldKeys == {k \in f : row[k].tier # "hot"}
  IN /\ MayAsk(r, f) /\ Live(f) /\ ~IsBlob(f)
     /\ inflight' = Begun(coldKeys)
     /\ rd' = [rd EXCEPT ![r] = [NoDownload EXCEPT !.pc = "warm", !.file = f,
                                                   !.todo = f, !.warm = coldKeys]]
     /\ UNCHANGED <<hot, cold, row, sweep, restore, gc, put, faults>>

\* The loop of Warm calls of WarmManifest.
Warm(r, k) ==
  /\ rd[r].pc = "warm" /\ k \in rd[r].warm
  /\ inflight' = Begun({k})
  /\ rd' = [rd EXCEPT ![r].warm = @ \ {k}, ![r].key = k,
                      ![r].pc = IF hot[k] = "none" THEN "wait" ELSE "warm"]
  /\ UNCHANGED <<hot, cold, row, sweep, restore, gc, put, faults>>

WarmEnds(r) ==
  /\ rd[r].pc = "warm" /\ rd[r].warm = {}
  /\ IF rd[r].slow THEN Says(r, "restoring") ELSE rd' = [rd EXCEPT ![r].pc = "stream"]
  /\ UNCHANGED <<hot, cold, row, inflight, sweep, restore, gc, put, faults>>

\* What the reader does with the copy of its key in the pool.
Taken(d, k) == IF hot[k] = "bad" THEN Ends(d, "corrupt")
               ELSE [d EXCEPT !.pc = "stream", !.todo = @ \ {k}]

\* TieredStore.Open up to the wait in Warm.
Open(r, k) ==
  /\ rd[r].pc = "stream" /\ k \in rd[r].todo
  /\ inflight' = Begun({k})
  /\ rd' = [rd EXCEPT ![r] = IF hot[k] # "none" THEN Taken(@, k)
                             ELSE [@ EXCEPT !.pc = "late", !.key = k]]
  /\ UNCHANGED <<hot, cold, row, sweep, restore, gc, put, faults>>

\* The second hot.Open of TieredStore.Open, after a promotion.
Reopen(r) ==
  LET k == rd[r].key
  IN /\ rd[r].pc = "reopen"
     /\ rd' = [rd EXCEPT ![r] = IF hot[k] # "none" THEN Taken(@, k) ELSE Ends(@, "lost")]
     /\ UNCHANGED <<hot, cold, row, inflight, sweep, restore, gc, put, faults>>

Served(r) ==
  /\ rd[r].pc = "stream" /\ rd[r].todo = {}
  /\ Says(r, "served")
  /\ UNCHANGED <<hot, cold, row, inflight, sweep, restore, gc, put, faults>>

\* ErrRestoring: WarmManifest waits for the other keys first; a blob is not open
\* yet; a manifest has sent its 200.
TimedOut(d) ==
  CASE d.pc = "wait" -> [d EXCEPT !.pc = "warm", !.slow = TRUE]
    [] d.pc # "wait" /\ IsBlob(d.file) -> Ends(d, "restoring")
    [] OTHER -> Ends(d, "broken")

\* Wrong: the copy ends with the request that asked for it.
RestoreWait_Abandons(r) ==
  /\ rd[r].pc \in {"wait", "late"}
  /\ rd' = [rd EXCEPT ![r] = TimedOut(@)]
  /\ inflight' = [inflight EXCEPT ![rd[r].key] = "none"]
  /\ UNCHANGED <<hot, cold, row, sweep, restore, gc, put, faults>>

\* RestoreWait passes; the promotion goes on.
RestoreWait(r) ==
  /\ rd[r].pc \in {"wait", "late"}
  /\ rd' = [rd EXCEPT ![r] = TimedOut(@)]
  /\ UNCHANGED <<hot, cold, row, inflight, sweep, restore, gc, put, faults>>

\* close(r.done): everyone who waits for k has the outcome of its promotion.
Woken(d, outcome) ==
  IF outcome # "ok" THEN Ends(d, outcome)
  ELSE [d EXCEPT !.pc = IF @ = "wait" THEN "warm" ELSE "reopen"]
Wake(k, outcome) ==
  /\ inflight' = [inflight EXCEPT ![k] = "none"]
  /\ rd' = [r \in Reader |-> IF rd[r].pc \in {"wait", "late"} /\ rd[r].key = k
                               THEN Woken(rd[r], outcome) ELSE rd[r]]

\* promote: cold.Open is a HEAD.
PromoteOpen(k) ==
  /\ inflight[k] = "begun"
  /\ IF cold[k] = "none" THEN Wake(k, "lost")
     ELSE inflight' = [inflight EXCEPT ![k] = "copying"] /\ UNCHANGED rd
  /\ UNCHANGED <<hot, cold, row, sweep, restore, gc, put, faults>>

\* Wrong: a promotion is a move.
PromoteCopy_Moves(k) ==
  /\ inflight[k] = "copying"
  /\ hot' = [hot EXCEPT ![k] = IF @ = "none" THEN cold[k] ELSE @]
  /\ cold' = [cold EXCEPT ![k] = "none"]
  /\ Wake(k, IF hot'[k] = "none" THEN "lost" ELSE "ok")
  /\ UNCHANGED <<row, sweep, restore, gc, put, faults>>

\* promote: hot.PutKeyed, which reads the object unless the key is there.  There
\* is no recorder, so the row keeps its tier.
PromoteCopy(k) ==
  /\ inflight[k] = "copying"
  /\ hot' = [hot EXCEPT ![k] = IF @ = "none" THEN cold[k] ELSE @]
  /\ Wake(k, IF hot'[k] = "none" THEN "lost" ELSE "ok")
  /\ UNCHANGED <<cold, row, sweep, restore, gc, put, faults>>

PromoteFails(k) ==
  /\ inflight[k] # "none" /\ Fault /\ Wake(k, "failed")
  /\ UNCHANGED <<hot, cold, row, sweep, restore, gc, put>>

\* The API process is restarted.
Restart ==
  /\ Fault
  /\ inflight' = [k \in Key |-> "none"]
  /\ rd' = [r \in Reader |-> NoDownload]
  /\ UNCHANGED <<hot, cold, row, sweep, restore, gc, put>>

-----------------------------------------------------------------------------
(* Restore by an operator, garbage collection, fsck, uploads               *)

\* Handler.Restore of a key of ColdKeys: Warm, in a process of its own, until the
\* bytes are local ...
RestoreWarm(k) ==
  /\ restore.pc = "idle" /\ row[k].there /\ row[k].tier = "cold"
  /\ hot[k] # "none" \/ cold[k] # "none"
  /\ hot' = [hot EXCEPT ![k] = IF @ = "none" THEN cold[k] ELSE @]
  /\ restore' = [pc |-> "mark", key |-> k]
  /\ UNCHANGED <<cold, row, inflight, rd, sweep, gc, put, faults>>

\* tier = 'hot', last_access_at = now()
MadeHot(r) == [r EXCEPT !.tier = "hot", !.idle = FALSE]

\* ... then MarkHot.
MarkHot ==
  LET k == restore.key
  IN /\ restore.pc = "mark"
     /\ row' = IF row[k].there /\ row[k].tier # "hot"
                 THEN [row EXCEPT ![k] = MadeHot(@)] ELSE row
     /\ restore' = NoTask
     /\ UNCHANGED <<hot, cold, inflight, rd, sweep, gc, put, faults>>

\* The last reference goes (a purge or a pruned version).
Unreferenced(k) ==
  /\ row[k].there /\ row[k].refs
  /\ row' = [row EXCEPT ![k].refs = FALSE]
  /\ UNCHANGED <<hot, cold, inflight, rd, sweep, restore, gc, put, faults>>

\* DeleteChunkRow / DeleteBlobRow, which check the refcount again.  A collection
\* and an upload that overlap are the subject of CasStore, not of this module.
DeleteRow(k) ==
  /\ gc.pc = "idle" /\ put.pc = "idle"
  /\ row[k].there /\ ~row[k].refs
  /\ row' = [row EXCEPT ![k].there = FALSE]
  /\ gc' = [pc |-> "hot", key |-> k]
  /\ UNCHANGED <<hot, cold, inflight, rd, sweep, restore, put, faults>>

\* TieredStore.Delete: the pool, then the bucket.
GcHot ==
  /\ gc.pc = "hot"
  /\ hot' = [hot EXCEPT ![gc.key] = "none"]
  /\ gc' = [gc EXCEPT !.pc = "cold"]
  /\ UNCHANGED <<cold, row, inflight, rd, sweep, restore, put, faults>>

GcCold ==
  /\ gc.pc = "cold"
  /\ cold' = [cold EXCEPT ![gc.key] = "none"]
  /\ gc' = NoTask
  /\ UNCHANGED <<hot, row, inflight, rd, sweep, restore, put, faults>>

\* An error, logged, or the end of the process.
GcFails ==
  /\ gc.pc # "idle" /\ Fault
  /\ gc' = NoTask
  /\ UNCHANGED <<hot, cold, row, inflight, rd, sweep, restore, put>>

\* fsck --repair deletes local files without a row, and nothing else.
FsckRepair(k) ==
  /\ ~row[k].there /\ hot[k] # "none" /\ gc.pc = "idle" /\ put.pc = "idle"
  /\ hot' = [hot EXCEPT ![k] = "none"]
  /\ UNCHANGED <<cold, row, inflight, rd, sweep, restore, gc, put, faults>>

\* A sweep is between the digest of k and the update of its row.
Moving(k) == \E s \in Sweeper : sweep[s].pc \notin {"idle", "next"} /\ sweep[s].key = k

\* TieredStore.PutKeyed of a chunk: the two Stats ...
PutStat(k) ==
  /\ Rewrite # "never" /\ (Rewrite = "quiet" => ~Moving(k)) /\ k \notin Blob
  /\ put.pc = "idle" /\ gc.pc = "idle"
  /\ put' = [pc |-> IF hot[k] = "none" /\ cold[k] # "none" THEN "row" ELSE "write", key |-> k]
  /\ UNCHANGED <<hot, cold, row, inflight, rd, sweep, restore, gc, faults>>

\* ... hot.PutKeyed ...
PutWrite ==
  /\ put.pc = "write"
  /\ hot' = [hot EXCEPT ![put.key] = IF @ = "none" THEN "good" ELSE @]
  /\ put' = [put EXCEPT !.pc = "row"]
  /\ UNCHANGED <<cold, row, inflight, rd, sweep, restore, gc, faults>>

\* ... and the caller's insert of the row, or its claim of the one that is there.
PutRow ==
  LET k == put.key
  IN /\ put.pc = "row"
     /\ row' = [row EXCEPT ![k] = IF @.there THEN [@ EXCEPT !.refs = TRUE] ELSE NewRow]
     /\ put' = NoTask
     /\ UNCHANGED <<hot, cold, inflight, rd, sweep, restore, gc, faults>>

\* MinAge and MinIdle pass: months, in which no request is open and no client
\* that means to ask again in seconds has yet to do so.
Ages(k) ==
  /\ row[k].there /\ ~row[k].idle
  /\ \A r \in Reader : rd[r].pc = "idle" /\ rd[r].said \notin Again
  /\ row' = [row EXCEPT ![k].idle = TRUE]
  /\ UNCHANGED <<hot, cold, inflight, rd, sweep, restore, gc, put, faults>>

-----------------------------------------------------------------------------
SweepStep(s) == \/ Candidates(s) \/ PutCold(s) \/ ReadBack(s) \/ DeleteHot(s)
                \/ MarkCold(s) \/ SweepEnds(s)
                \/ \E k \in Key : DigestLocal(s, k)

\* Steps of a request that is under way, or that a client repeats as told.
ReadStep(r) == \/ WarmEnds(r) \/ Reopen(r) \/ Served(r) \/ OpenGone(r)
               \/ \E k \in Key : Warm(r, k) \/ Open(r, k)
Ask(r) == \E f \in File : OpenBlob(r, f) \/ WarmManifest(r, f)
Promote(k) == PromoteOpen(k) \/ PromoteCopy(k)

Next ==
  \/ \E s \in Sweeper : SweepStep(s) \/ SweepFails(s) \/ SweepDies(s)
  \/ \E r \in Reader : Ask(r) \/ ReadStep(r) \/ RestoreWait(r)
  \/ \E k \in Key : \/ Promote(k) \/ PromoteFails(k) \/ RestoreWarm(k)
                    \/ Unreferenced(k) \/ DeleteRow(k) \/ FsckRepair(k)
                    \/ PutStat(k) \/ Ages(k)
  \/ Restart \/ MarkHot \/ GcHot \/ GcCold \/ GcFails \/ PutWrite \/ PutRow

Spec == Init /\ [][Next]_vars

\* Requests and promotions are goroutines and go on; a client does ask again; the
\* tier job and fsck --repair run from time to time.
FairSpec ==
  /\ Spec
  /\ \A r \in Reader : WF_vars(ReadStep(r)) /\ WF_vars(rd[r].said \in Again /\ Ask(r))
  /\ \A k \in Key : WF_vars(Promote(k)) /\ WF_vars(FsckRepair(k))
  /\ \A s \in Sweeper : WF_vars(SweepStep(s))
  /\ WF_vars(GcHot) /\ WF_vars(GcCold) /\ WF_vars(MarkHot)

-----------------------------------------------------------------------------
(* Properties                                                              *)

\* Stored content is in one of the tiers, whatever sweep, crash, truncated PUT,
\* promotion or collection is half done: nothing local is deleted until the cold
\* copy has been read back and matched (Demote).
Durable == \A k \in Key : row[k].there => "good" \in {hot[k], cold[k]}

\* A row that says 'cold' tells the truth: its bytes are in the bucket (the order
\* of Demote and MarkCold in Sweep).
ColdIsInBucket == \A k \in Key : row[k].there /\ row[k].tier = "cold" => cold[k] = "good"

\* No download reports content as missing from storage while its row is there
\* (TieredStore.Open against a sweep).
NoFalseLoss ==
  [][\A r \in Reader :
       rd[r].said # "lost" /\ rd'[r].said = "lost" => ~row[rd[r].key].there]_vars

\* A client that asks again while a restore is running gets the file in the end,
\* unless the file goes: every request may time out, but the promotion it started does
\* not end with it (begin, Warm).
ComeBack == \A r \in Reader :
  rd[r].said = "restoring" ~> rd[r].said = "served" \/ ~Live(rd[r].file)

\* A download is answered 500 only when content of the file is gone from both
\* tiers (ErrRestoring, writeFilesError).
OnlyLossIs500 ==
  \A r \in Reader : rd[r].said # "nothing" /\ Status(rd[r].said) = 500 =>
    \E k \in rd[r].file : "good" \notin {hot[k], cold[k]}

\* No download of a manifest meets a cold chunk after its 200 (WarmManifest).
NoneBroken == \A r \in Reader : rd[r].said # "broken"

\* With nothing in motion, a row says 'cold' only when its bytes are not local
\* (the tier column).
AtRest == /\ \A s \in Sweeper : sweep[s].pc = "idle"
          /\ \A k \in Key : inflight[k] = "none"
          /\ restore.pc = "idle" /\ gc.pc = "idle"
ColdIsNotLocal ==
  AtRest => \A k \in Key : row[k].there /\ row[k].tier = "cold" => hot[k] = "none"

\* A row that a demotion left saying 'hot' is put right by a later sweep, unless
\* the content comes back or goes (Sweep).
HalfDemoted(k) == Candidate(k) /\ hot[k] = "none"
SweepsHeal == \A k \in Key : HalfDemoted(k) ~> ~HalfDemoted(k)

\* Bytes whose row is gone are swept in the end (collectChunks).
NothingLeft == \A k \in Key : ~row[k].there ~> {hot[k], cold[k]} = {"none"}
=============================================================================
