------------------------------ MODULE Uploads ------------------------------
(***************************************************************************)
(* Staged uploads: resumable (tus) sessions, WebDAV PUTs, and the sweep of *)
(* the staging area that CollectGarbage runs.                              *)
(*                                                                         *)
(* A staging file is written through descriptors that stay open while its  *)
(* name is removed or renamed into the blob layout, so body[k] is the      *)
(* inode and place[k] where its name is.  Every unit that a client sends   *)
(* at position p is the right one for p (a resuming client reads the same  *)
(* file); what can go wrong is a hole of zeros, a wrong length or a digest *)
(* of something else.  The lock of a session is a deadline, so locked is   *)
(* "the deadline is in the future", and LockLapses is its passing.         *)
(***************************************************************************)
EXTENDS Integers, FiniteSets

CONSTANTS
  StagingKey,        \* staging keys; one for each upload that is ever begun
  Connection, \* concurrent requests
  Sizes,      \* lengths of the files that clients upload
  Threshold,  \* cas.WholeFileThreshold
  LateSizes   \* the same where locks may lapse and an fsync may fail

ASSUME SizesAssumption == Sizes \cup LateSizes \subseteq Nat \ {0} /\ Threshold \in Nat
ASSUME KeyAssumption == StagingKey # {}
VARIABLES
  place,   \* place[k]: "none", "staging", "blob" (renamed) or "gone"
  body,    \* body[k]: length and zero-filled positions of the inode
  row,     \* row[k]: the row of upload_sessions whose staging_key is k
  nodes,   \* the files that PutFile recorded
  work,    \* work[r]: where request r stands
  sweep,   \* where collectExpiredUploads stands
  timely   \* TRUE of a behaviour in which every lock is refreshed in time and every
           \* fsync succeeds

uploadVars == <<place, body, row, nodes, work, sweep, timely>>

-----------------------------------------------------------------------------
Body == [len : Nat, zeros : SUBSET Nat]
EmptyBody == [len |-> 0, zeros |-> {}]

\* hashed is the digest of positions 1..hashed, or Spoiled.
Spoiled == -1
Hash == Nat \cup {Spoiled}
UploadRow == [there : BOOLEAN, size : Nat, offset : Nat, hashed : Hash,
        locked : BOOLEAN, expired : BOOLEAN]
NoSession == [there |-> FALSE, size |-> 0, offset |-> 0, hashed |-> 0,
          locked |-> FALSE, expired |-> FALSE]

FileRow == [key : StagingKey, kind : {"tus", "dav"}, want : Nat, chunked : BOOLEAN,
         body : Body, sha : Hash]

AppendPc == {"append", "copy", "commit", "unlock"}
FinishPc == {"stat", "store", "putfile", "remove", "delete"}
WorkPc == {"idle", "create", "finish", "cancel", "dav"} \cup AppendPc \cup FinishPc

\* A request carries what it read: the offset it resumes at, the position that
\* it writes next, the size, the running digest and, once the content is stored,
\* the body that a chunked finish read.
Work == [pc : WorkPc, kind : {"tus", "dav"}, key : StagingKey, size : Nat,
        offset : Nat, pos : Nat, hashed : Hash, body : Body]
IdleReq == [pc |-> "idle", kind |-> "tus", key |-> CHOOSE k \in StagingKey : TRUE,
            size |-> 0, offset |-> 0, pos |-> 1, hashed |-> 0,
            body |-> EmptyBody]

SweepRun == [pc : {"idle", "expired", "walk", "remove"}, keys : SUBSET StagingKey]
IdleSweep == [pc |-> "idle", keys |-> {}]

UploadTypeOK ==
  /\ place \in [StagingKey -> {"none", "staging", "blob", "gone"}]
  /\ body \in [StagingKey -> Body]
  /\ row \in [StagingKey -> UploadRow]
  /\ \A k \in StagingKey : row[k].offset <= row[k].size
  /\ nodes \subseteq FileRow
  /\ work \in [Connection -> Work]
  /\ sweep \in SweepRun
  /\ timely \in BOOLEAN

UploadInit ==
  /\ place = [k \in StagingKey |-> "none"]
  /\ body = [k \in StagingKey |-> EmptyBody]
  /\ row = [k \in StagingKey |-> NoSession]
  /\ nodes = {}
  /\ work = [r \in Connection |-> IdleReq]
  /\ sweep = IdleSweep
  /\ timely \in BOOLEAN

-----------------------------------------------------------------------------
(* Staging files                                                           *)

\* f.Truncate(n): cuts, or extends with zeros.
Truncated(b, n) ==
  [len |-> n, zeros |-> {z \in b.zeros : z <= n} \cup ((b.len + 1)..n)]

\* A unit written at position p; a gap before it reads as zeros.
WrittenAt(b, p) ==
  [len |-> IF p > b.len THEN p ELSE b.len,
   zeros |-> (b.zeros \ {p}) \cup ((b.len + 1)..(p - 1))]

\* The digest after it has consumed the unit of position p.
HashedWith(h, p) == IF h = p - 1 THEN p ELSE Spoiled

\* CreatePartial.
CreatePartial(k) ==
  /\ place[k] = "none"
  /\ place' = [place EXCEPT ![k] = "staging"]

\* Wrong: removes the bytes wherever they are by now.
Removed_Anywhere(k) == [place EXCEPT ![k] = "gone"]

\* RemovePartial: the name, if it is still in the staging area.
Removed(k) == [place EXCEPT ![k] = IF @ = "staging" THEN "gone" ELSE @]

-----------------------------------------------------------------------------
(* CreateUpload, CancelUpload                                              *)

CreateFile(r, k, n) ==
  /\ work[r].pc = "idle"
  /\ CreatePartial(k)
  /\ work' = [work EXCEPT ![r] = [IdleReq EXCEPT !.pc = "create", !.key = k,
                                               !.size = n]]
  /\ UNCHANGED <<body, row, nodes, sweep, timely>>

CreateRow(r) ==
  LET k == work[r].key IN
  /\ work[r].pc = "create"
  /\ row' = [row EXCEPT ![k] = [NoSession EXCEPT !.there = TRUE,
                                             !.size = work[r].size]]
  /\ work' = [work EXCEPT ![r] = IdleReq]
  /\ UNCHANGED <<place, body, nodes, sweep, timely>>

\* The parent is gone or not writable: the file is removed again.
CreateRefused(r) ==
  /\ work[r].pc = "create"
  /\ place' = Removed(work[r].key)
  /\ work' = [work EXCEPT ![r] = IdleReq]
  /\ UNCHANGED <<body, row, nodes, sweep, timely>>

\* GetUpload and DeleteUpload, then the bytes.
CancelRow(r, k) ==
  /\ work[r].pc = "idle" /\ row[k].there /\ ~row[k].expired
  /\ row' = [row EXCEPT ![k] = NoSession]
  /\ work' = [work EXCEPT ![r] = [IdleReq EXCEPT !.pc = "cancel", !.key = k]]
  /\ UNCHANGED <<place, body, nodes, sweep, timely>>

CancelFile(r) ==
  /\ work[r].pc = "cancel"
  /\ place' = Removed(work[r].key)
  /\ work' = [work EXCEPT ![r] = IdleReq]
  /\ UNCHANGED <<body, row, nodes, sweep, timely>>

-----------------------------------------------------------------------------
(* AppendChunk                                                             *)

\* Wrong: the deadline of another request is not looked at.
Lockable_Always(k) == row[k].there /\ ~row[k].expired

\* The condition of LockUpload.
Lockable(k) == row[k].there /\ ~row[k].expired /\ ~row[k].locked

\* LockUpload; a client at another offset is turned away.
AppendLock(r, k, claimed) ==
  /\ work[r].pc = "idle" /\ Lockable(k)
  /\ row' = [row EXCEPT ![k].locked = TRUE]
  /\ work' = [work EXCEPT ![r] =
               [IdleReq EXCEPT !.key = k, !.size = row[k].size,
                  !.pc = IF claimed = row[k].offset THEN "append" ELSE "unlock",
                  !.offset = row[k].offset, !.pos = row[k].offset + 1,
                  !.hashed = row[k].hashed]]
  /\ UNCHANGED <<place, body, nodes, sweep, timely>>

\* AppendPartial opens and truncates.  Without a file nothing is written and
\* the unchanged progress is committed.
AppendOpen(r) ==
  LET k == work[r].key IN
  /\ work[r].pc = "append"
  /\ IF place[k] = "staging"
     THEN /\ body' = [body EXCEPT ![k] = Truncated(@, work[r].offset)]
          /\ work' = [work EXCEPT ![r].pc = "copy"]
     ELSE /\ work' = [work EXCEPT ![r].pc = "commit"]
          /\ UNCHANGED body
  /\ UNCHANGED <<place, row, nodes, sweep, timely>>

\* A unit arrives; the reader stops one unit after the declared size.
AppendCopy(r) ==
  LET k == work[r].key
      p == work[r].pos IN
  /\ work[r].pc = "copy" /\ p <= work[r].size + 1
  /\ body' = [body EXCEPT ![k] = WrittenAt(@, p)]
  /\ work' = [work EXCEPT ![r].pos = @ + 1, ![r].hashed = HashedWith(@, p)]
  /\ UNCHANGED <<place, row, nodes, sweep, timely>>

\* The body ends, by EOF or by an error, and the file is synced.
AppendSync(r) ==
  /\ work[r].pc = "copy"
  /\ work' = [work EXCEPT ![r].pc = IF work[r].pos > work[r].size + 1
                                  THEN "unlock" ELSE "commit",
                        ![r].offset = work[r].pos - 1]
  /\ UNCHANGED <<place, body, row, nodes, sweep, timely>>

\* fsync fails: AppendPartial reports that nothing was written, and the digest
\* that has consumed the units is committed with the old offset.
AppendSyncFails(r) ==
  /\ ~timely
  /\ work[r].pc = "copy"
  /\ work' = [work EXCEPT ![r].pc = "commit"]
  /\ UNCHANGED <<place, body, row, nodes, sweep, timely>>

\* Wrong: the digest is written in a statement of its own, and the request dies
\* before it.
Progressed_OffsetOnly(rw, n, h) == [rw EXCEPT !.offset = n, !.locked = FALSE]

\* CommitUploadProgress.
Progressed(rw, n, h) ==
  [rw EXCEPT !.offset = n, !.hashed = h, !.locked = FALSE]

\* The handler goes on to FinishUpload when the session is complete.  A row that
\* is gone is not noticed here.
AppendCommit(r) ==
  LET k == work[r].key IN
  /\ work[r].pc = "commit"
  /\ row' = [row EXCEPT ![k] = IF @.there
                               THEN Progressed(@, work[r].offset, work[r].hashed)
                               ELSE @]
  /\ work' = [work EXCEPT ![r] =
               IF work[r].offset >= work[r].size
               THEN [IdleReq EXCEPT !.pc = "finish", !.key = k] ELSE IdleReq]
  /\ UNCHANGED <<place, body, nodes, sweep, timely>>

\* UnlockUpload.
UnlockUpload(r) ==
  /\ work[r].pc = "unlock"
  /\ row' = [row EXCEPT ![work[r].key].locked = FALSE]
  /\ work' = [work EXCEPT ![r] = IdleReq]
  /\ UNCHANGED <<place, body, nodes, sweep, timely>>

-----------------------------------------------------------------------------
(* FinishUpload                                                            *)

\* LockUpload; an incomplete session is unlocked again.
FinishLock(r) ==
  LET k == work[r].key IN
  /\ work[r].pc = "finish" /\ Lockable(k)
  /\ row' = [row EXCEPT ![k].locked = TRUE]
  /\ work' = [work EXCEPT ![r] =
               [@ EXCEPT !.pc = IF row[k].offset >= row[k].size
                                THEN "stat" ELSE "unlock",
                         !.size = row[k].size, !.offset = row[k].offset,
                         !.hashed = row[k].hashed]]
  /\ UNCHANGED <<place, body, nodes, sweep, timely>>

\* Wrong: the length on disk is not compared.
FinishStat_Exists(r) ==
  /\ work[r].pc = "stat" /\ place[work[r].key] = "staging"
  /\ work' = [work EXCEPT ![r].pc = "store"]
  /\ UNCHANGED <<place, body, row, nodes, sweep, timely>>

\* The length on disk is compared with the declared size.
FinishStat(r) ==
  LET k == work[r].key IN
  /\ work[r].pc = "stat"
  /\ place[k] = "staging" /\ body[k].len = work[r].size
  /\ work' = [work EXCEPT ![r].pc = "store"]
  /\ UNCHANGED <<place, body, row, nodes, sweep, timely>>

Chunks(n) == n >= Threshold

\* finishStaged stores the content: large files are read and chunked, small
\* ones renamed into the blob layout.
FinishStore(r) ==
  LET k == work[r].key IN
  /\ work[r].pc = "store" /\ place[k] = "staging"
  /\ place' = [place EXCEPT ![k] = IF Chunks(work[r].size) THEN @ ELSE "blob"]
  /\ work' = [work EXCEPT ![r].pc = "putfile", ![r].body = body[k]]
  /\ UNCHANGED <<body, row, nodes, sweep, timely>>

FinishPut(r) ==
  /\ work[r].pc = "putfile"
  /\ nodes' = nodes \cup {[key |-> work[r].key, kind |-> work[r].kind,
        want |-> IF work[r].kind = "tus" THEN work[r].size ELSE work[r].offset,
        chunked |-> Chunks(work[r].size), body |-> work[r].body,
        sha |-> work[r].hashed]}
  /\ work' = [work EXCEPT ![r].pc = IF Chunks(work[r].size)
                                  THEN "remove" ELSE "delete"]
  /\ UNCHANGED <<place, body, row, sweep, timely>>

\* PutFile returns an error: a small file's blob is deleted.
FinishPutFails(r) ==
  LET k == work[r].key IN
  /\ work[r].pc = "putfile"
  /\ place' = [place EXCEPT ![k] = IF Chunks(work[r].size) THEN @ ELSE "gone"]
  /\ work' = [work EXCEPT ![r] = IdleReq]
  /\ UNCHANGED <<body, row, nodes, sweep, timely>>

\* An error of RemovePartial is logged.
FinishRemove(r) ==
  /\ work[r].pc = "remove"
  /\ place' \in {place, Removed(work[r].key)}
  /\ work' = [work EXCEPT ![r].pc = "delete"]
  /\ UNCHANGED <<body, row, nodes, sweep, timely>>

\* DeleteUpload; a WebDAV PUT has no session.
FinishDelete(r) ==
  /\ work[r].pc = "delete"
  /\ row' = [row EXCEPT ![work[r].key] = NoSession]
  /\ work' = [work EXCEPT ![r] = IdleReq]
  /\ UNCHANGED <<place, body, nodes, sweep, timely>>

\* The request ends early: an error return, a cancelled context, a crash.  A
\* lock that it holds stays until it lapses.
UploadFails(r) ==
  /\ work[r].pc # "idle"
  /\ work' = [work EXCEPT ![r] = IdleReq]
  /\ UNCHANGED <<place, body, row, nodes, sweep, timely>>

-----------------------------------------------------------------------------
(* WebDAV PUT: newWriteHandle, Write, Close.  offset is the length of the  *)
(* client's file, size what has been written.                              *)

DavOpen(r, k, n) ==
  /\ work[r].pc = "idle"
  /\ CreatePartial(k)
  /\ work' = [work EXCEPT ![r] = [IdleReq EXCEPT !.pc = "dav", !.kind = "dav",
                                               !.key = k, !.offset = n]]
  /\ UNCHANGED <<body, row, nodes, sweep, timely>>

DavWrite(r) ==
  LET k == work[r].key
      p == work[r].pos IN
  /\ work[r].pc = "dav" /\ place[k] = "staging" /\ p <= work[r].offset
  /\ body' = [body EXCEPT ![k] = WrittenAt(Truncated(@, work[r].size), p)]
  /\ work' = [work EXCEPT ![r].pos = @ + 1, ![r].size = @ + 1,
                        ![r].hashed = HashedWith(@, p)]
  /\ UNCHANGED <<place, row, nodes, sweep, timely>>

\* webdav.Handler closes the file however the copy ended: at the end of the body,
\* on a broken connection, on an error of Write.
DavClose(r) ==
  /\ work[r].pc = "dav"
  /\ work' = [work EXCEPT ![r].pc = "store"]
  /\ UNCHANGED <<place, body, row, nodes, sweep, timely>>

-----------------------------------------------------------------------------
(* Time, and collectExpiredUploads                                         *)

ExpireSession(k) ==
  /\ row[k].there /\ ~row[k].expired
  /\ row' = [row EXCEPT ![k].expired = TRUE]
  /\ UNCHANGED <<place, body, nodes, work, sweep, timely>>

\* Request r relies on the lock of k.
Relies(r, k) ==
  /\ work[r].key = k /\ work[r].kind = "tus"
  /\ work[r].pc \in AppendPc \cup FinishPc

\* An append or a finish that outlasts the lock window loses the lock.
LockLapses(k) ==
  /\ row[k].locked
  /\ timely => \A r \in Connection : ~Relies(r, k)
  /\ row' = [row EXCEPT ![k].locked = FALSE]
  /\ UNCHANGED <<place, body, nodes, work, sweep, timely>>

\* ExpiredUploads: whether it is locked or not.
ExpiredUploads == {k \in StagingKey : row[k].there /\ row[k].expired}

SweepList ==
  /\ sweep.pc = "idle"
  /\ sweep' = [pc |-> "expired", keys |-> ExpiredUploads]
  /\ UNCHANGED <<place, body, row, nodes, work, timely>>

SweepRow(k) ==
  /\ sweep.pc = "expired" /\ k \in sweep.keys
  /\ row' = [row EXCEPT ![k] = NoSession]
  /\ sweep' = [sweep EXCEPT !.keys = @ \ {k}]
  /\ UNCHANGED <<place, body, nodes, work, timely>>

\* AllStagingKeys.
StagingKeys == {k \in StagingKey : row[k].there}

SweepKnown ==
  /\ sweep.pc = "expired" /\ sweep.keys = {}
  /\ sweep' = [pc |-> "walk", keys |-> StagingKeys]
  /\ UNCHANGED <<place, body, row, nodes, work, timely>>

\* WalkStaging: the staging files whose key is not known.
SweepWalk ==
  /\ sweep.pc = "walk"
  /\ sweep' = [pc |-> "remove",
               keys |-> {k \in StagingKey \ sweep.keys : place[k] = "staging"}]
  /\ UNCHANGED <<place, body, row, nodes, work, timely>>

SweepRemove(k) ==
  /\ sweep.pc = "remove" /\ k \in sweep.keys
  /\ place' = Removed(k)
  /\ sweep' = [sweep EXCEPT !.keys = @ \ {k}]
  /\ UNCHANGED <<body, row, nodes, work, timely>>

SweepEnd ==
  /\ sweep.pc = "remove" /\ sweep.keys = {}
  /\ sweep' = IdleSweep
  /\ UNCHANGED <<place, body, row, nodes, work, timely>>

\* An error or a crash in the middle.
SweepAbort ==
  /\ sweep.pc # "idle"
  /\ sweep' = IdleSweep
  /\ UNCHANGED <<place, body, row, nodes, work, timely>>

-----------------------------------------------------------------------------
RequestStep(r) ==
  \/ \E k \in StagingKey, n \in IF timely THEN Sizes ELSE LateSizes :
       CreateFile(r, k, n) \/ DavOpen(r, k, n)
  \/ CreateRow(r) \/ CreateRefused(r)
  \/ \E k \in StagingKey : CancelRow(r, k)
  \/ CancelFile(r)
  \/ \E k \in StagingKey : \E n \in 0..row[k].size : AppendLock(r, k, n)
  \/ AppendOpen(r) \/ AppendCopy(r) \/ AppendSync(r) \/ AppendSyncFails(r)
  \/ AppendCommit(r) \/ UnlockUpload(r)
  \/ FinishLock(r) \/ FinishStat(r) \/ FinishStore(r)
  \/ FinishPut(r) \/ FinishPutFails(r) \/ FinishRemove(r) \/ FinishDelete(r)
  \/ DavWrite(r) \/ DavClose(r) \/ UploadFails(r)

SweepStep ==
  \/ SweepList \/ SweepKnown \/ SweepWalk \/ SweepEnd \/ SweepAbort
  \/ \E k \in StagingKey : SweepRow(k) \/ SweepRemove(k)

UploadNext ==
  \/ \E r \in Connection : RequestStep(r)
  \/ \E k \in StagingKey : ExpireSession(k) \/ LockLapses(k)
  \/ SweepStep

UploadSpec == UploadInit /\ [][UploadNext]_uploadVars

\* Sessions expire, runGC starts a sweep on every tick, and a sweep that is cut
\* short again and again still gets to each of its steps.  Nothing is assumed of
\* requests, nor that a lock ever lapses.
UploadFairness ==
  /\ \A k \in StagingKey : WF_uploadVars(ExpireSession(k))
  /\ WF_uploadVars(SweepList) /\ SF_uploadVars(SweepKnown) /\ SF_uploadVars(SweepWalk)
  /\ WF_uploadVars(SweepEnd)
  /\ \A k \in StagingKey : SF_uploadVars(SweepRow(k)) /\ SF_uploadVars(SweepRemove(k))

FairUploadSpec == UploadSpec /\ UploadFairness

-----------------------------------------------------------------------------
(* Properties                                                              *)

\* "The offset and the hash state are written in ONE statement" so that the
\* digest always describes exactly the bytes that the offset claims.
HashDescribesBytes ==
  timely => \A k \in StagingKey : row[k].there => row[k].hashed = row[k].offset

\* The recorded offset is the authority on progress: while the staging file is
\* there it holds the client's bytes up to the offset, without a hole, whatever
\* requests died after it was recorded.
ProgressDurable ==
  timely => \A k \in StagingKey : row[k].there /\ place[k] = "staging" =>
    /\ row[k].offset <= body[k].len
    /\ body[k].zeros \cap 1..row[k].offset = {}

ContentOf(n) == IF n.chunked THEN n.body ELSE body[n.key]

\* A finished resumable upload is the file the client sent: the declared length,
\* no hole, and for a whole-file blob the digest of just these bytes; and it
\* stays that way, although descriptors of other requests may still be open.
ContentIntact ==
  timely => \A n \in nodes : n.kind = "tus" =>
    /\ ContentOf(n) = [len |-> n.want, zeros |-> {}]
    /\ n.chunked \/ n.sha = n.want

\* The offset that HEAD reports never goes back: a client never has to send again
\* what the server acknowledged.
OffsetMonotone ==
  [][timely => \A k \in StagingKey : row[k].there /\ row'[k].there
        => row'[k].offset >= row[k].offset]_uploadVars

\* A recorded whole-file blob keeps its bytes: no cancellation, sweep or second
\* finish of the session takes them away, even with the lock lost.
BlobStays ==
  \A n \in nodes : n.chunked \/ place[n.key] = "blob"

\* From the first byte to the recorded version an upload is the file that was sent: its
\* digest, its progress, its content and its blob (files/uploads.go, files/service.go).
UploadSound == HashDescribesBytes /\ ProgressDurable /\ ContentIntact /\ BlobStays

\* What collectExpiredUploads says of the files it sweeps ("a file with no session
\* row is provably dead"): nobody is writing one, and no session owns it.
SweptFilesDead ==
  sweep.pc = "remove" => \A k \in sweep.keys :
    /\ ~row[k].there
    /\ \A r \in Connection : work[r].key = k => work[r].pc \notin {"create", "dav"}

\* What writeHandle says of an interrupted PUT ("leaves the previous version of
\* the file intact instead of a truncated one").
PutAtomic == \A n \in nodes : n.kind = "dav" => n.body.len = n.want

\* An abandoned upload does not occupy the staging area for ever, whichever
\* request died where.
StagingReclaimed ==
  \A k \in StagingKey : place[k] = "staging" ~> place[k] # "staging"
=============================================================================
