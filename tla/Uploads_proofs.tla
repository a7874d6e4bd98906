--------------------------- MODULE Uploads_proofs ---------------------------
(***************************************************************************)
(* Proofs about staged uploads, for any numbers of requests and staging    *)
(* files, any file sizes and any threshold: what a session has recorded is *)
(* what is in its staging file, a finished upload is the file that was     *)
(* sent, and the blob of a recorded file is never taken away.              *)
(***************************************************************************)
EXTENDS Uploads, TLAPS

-----------------------------------------------------------------------------
(* The inductive invariant                                                 *)

\* The holder of a session's lock, and a request whose key nobody else knows:
\* CreateUpload before it inserts the row, and a WebDAV PUT.
Holds(w) == w.kind = "tus" /\ w.pc \in AppendPc \cup FinishPc
Alone(w) == w.pc = "create" \/ w.kind = "dav"
DavPc == {"dav", "store", "putfile", "remove", "delete"}

\* A request with an unrecorded blob: PutFile may still fail and delete it.
Renamed(w) == w.pc = "putfile" /\ ~Chunks(w.size)

\* What a request knows, however its lock fares.
Placed(w) ==
  /\ w.pc # "idle" => place[w.key] # "none"
  /\ w.pc = "dav" => w.kind = "dav"
  /\ w.kind = "dav" => w.pc \in DavPc
  /\ Alone(w) => ~row[w.key].there
  /\ Holds(w) /\ row[w.key].there => row[w.key].size = w.size
  /\ w.pc \in {"append", "copy", "commit"} => w.offset <= w.size
  /\ w.pos >= 1
  /\ Renamed(w) => place[w.key] = "blob"

\* A key without an owner is not even a file; a hole lies inside the file.
Keyed(k) ==
  /\ row[k].there => place[k] # "none"
  /\ body[k].zeros \subseteq 1..body[k].len

\* The bytes up to n are there and none of them is a hole.
Solid(b, n) == n <= b.len /\ b.zeros \cap 1..n = {}

\* What the holder of a lock knows of the file, stage by stage.
HeldAppend(w) ==
  w.pc = "append" =>
    /\ w.hashed = w.offset /\ w.pos = w.offset + 1
    /\ row[w.key].there => row[w.key].offset = w.offset
    /\ place[w.key] = "staging" => Solid(body[w.key], w.offset)

HeldCopy(w) ==
  w.pc = "copy" =>
    /\ place[w.key] # "blob"
    /\ w.hashed = w.pos - 1 /\ w.offset <= w.pos - 1
    /\ body[w.key] = [len |-> w.pos - 1, zeros |-> {}]
    /\ row[w.key].there => row[w.key].offset = w.offset

HeldCommit(w) ==
  w.pc = "commit" =>
    /\ w.hashed = w.offset
    /\ row[w.key].there => row[w.key].offset <= w.offset
    /\ place[w.key] = "staging" => Solid(body[w.key], w.offset)

HeldStat(w) ==
  w.pc = "stat" =>
    /\ w.hashed = w.size
    /\ place[w.key] = "staging" => body[w.key].zeros \cap 1..w.size = {}

HeldStore(w) ==
  w.pc = "store" =>
    /\ w.hashed = w.size
    /\ body[w.key] = [len |-> w.size, zeros |-> {}]

HeldPut(w) ==
  w.pc = "putfile" =>
    /\ w.hashed = w.size
    /\ w.body = [len |-> w.size, zeros |-> {}]
    /\ ~Chunks(w.size) => body[w.key] = w.body

Held(w) ==
  Holds(w) =>
    /\ row[w.key].there => row[w.key].locked
    /\ HeldAppend(w) /\ HeldCopy(w) /\ HeldCommit(w)
    /\ HeldStat(w) /\ HeldStore(w) /\ HeldPut(w)

\* Two requests v and w on one key.
Apart(v, w) ==
  v.key = w.key =>
    /\ Alone(v) => w.pc = "idle"
    /\ ~(Renamed(v) /\ Renamed(w))
    /\ timely => ~(Holds(v) /\ Holds(w))

Requests == \A r \in Connection : Placed(work[r])
Holders == timely => \A r \in Connection : Held(work[r])
Exclusive == \A q, r \in Connection : q # r => Apart(work[q], work[r])
Files == \A k \in StagingKey : Keyed(k)

\* An unrecorded blob is not the blob of a recorded file.
Unrecorded ==
  \A r \in Connection, n \in nodes :
    Renamed(work[r]) /\ n.key = work[r].key => n.chunked

UploadInv ==
  /\ UploadTypeOK
  /\ Requests /\ Holders /\ Exclusive /\ Files /\ Unrecorded
  /\ HashDescribesBytes /\ ProgressDurable /\ ContentIntact /\ BlobStays

-----------------------------------------------------------------------------
(* Types                                                                   *)

LEMMA Defaults ==
  /\ EmptyBody \in Body /\ EmptyBody.len = 0 /\ EmptyBody.zeros = {}
  /\ NoSession \in UploadRow /\ NoSession.there = FALSE
  /\ NoSession.offset = 0 /\ NoSession.size = 0 /\ NoSession.hashed = 0
  /\ IdleReq \in Work /\ IdleReq.pc = "idle" /\ IdleReq.kind = "tus"
  /\ IdleReq.pos = 1
  BY KeyAssumption DEF EmptyBody, Body, NoSession, UploadRow, Hash, IdleReq, Work,
     WorkPc, AppendPc, FinishPc

\* What Truncate and a write make of a file.
LEMMA TruncatedBody ==
  ASSUME NEW b \in Body, NEW n \in Nat
  PROVE  /\ Truncated(b, n) \in Body /\ Truncated(b, n).len = n
         /\ \A z \in Truncated(b, n).zeros : z <= n /\ (z \in b.zeros \/ z > b.len)
  BY DEF Truncated, Body

LEMMA WrittenBody ==
  ASSUME NEW b \in Body, NEW p \in Nat, p >= 1
  PROVE  /\ WrittenAt(b, p) \in Body
         /\ WrittenAt(b, p).len = IF p > b.len THEN p ELSE b.len
         /\ WrittenAt(b, p).zeros = (b.zeros \ {p}) \cup ((b.len + 1)..(p - 1))
  BY DEF WrittenAt, Body

LEMMA InitType == UploadInit => UploadTypeOK
  BY Defaults DEF UploadInit, UploadTypeOK, IdleSweep, SweepRun, UploadRow

LEMMA WorkFields ==
  ASSUME NEW w \in Work
  PROVE  /\ w.pc \in WorkPc /\ w.kind \in {"tus", "dav"} /\ w.key \in StagingKey
         /\ w.size \in Nat /\ w.offset \in Nat /\ w.pos \in Nat
         /\ w.hashed \in Hash /\ w.body \in Body
  BY DEF Work

\* What a request keeps when it goes on.
Kept(v, w) == v.kind = w.kind /\ v.key = w.key
Sized(v, w) == Kept(v, w) /\ v.size = w.size /\ v.offset = w.offset
Carried(v, w) == Sized(v, w) /\ v.pos = w.pos /\ v.hashed = w.hashed

-----------------------------------------------------------------------------
(* Files and rows                                                          *)

\* Cutting at a point up to which the file is solid leaves no hole, and a unit at
\* the end of such a file makes none.
LEMMA CutSolid ==
  ASSUME NEW b \in Body, NEW n \in Nat, Solid(b, n), b.zeros \subseteq 1..b.len
  PROVE  Truncated(b, n) = [len |-> n, zeros |-> {}]
  <1>1. b.len \in Nat /\ n <= b.len /\ \A z \in b.zeros : z \in Nat /\ z >= 1
    BY DEF Body, Solid
  <1>2. \A z \in b.zeros : ~(z <= n)
    BY <1>1 DEF Solid
  <1>3. {z \in b.zeros : z <= n} = {} /\ (b.len + 1)..n = {}
    BY <1>1, <1>2
  <1> QED BY <1>3 DEF Truncated

LEMMA GrownSolid ==
  ASSUME NEW p \in Nat, p >= 1
  PROVE  WrittenAt([len |-> p - 1, zeros |-> {}], p) = [len |-> p, zeros |-> {}]
  <1> DEFINE b == [len |-> p - 1, zeros |-> {}]
  <1>1. b.len = p - 1 /\ b.zeros = {}
    OBVIOUS
  <1>2. (b.zeros \ {p}) \cup ((b.len + 1)..(p - 1)) = {}
    BY <1>1
  <1>3. (IF p > b.len THEN p ELSE b.len) = p
    BY <1>1
  <1> HIDE DEF b
  <1>4. WrittenAt(b, p) = [len |-> p, zeros |-> {}]
    BY <1>2, <1>3 DEF WrittenAt
  <1> QED BY <1>4 DEF b

LEMMA CutInside ==
  ASSUME NEW b \in Body, NEW n \in Nat, b.zeros \subseteq 1..b.len
  PROVE  Truncated(b, n).zeros \subseteq 1..Truncated(b, n).len
  BY DEF Truncated, Body

LEMMA GrownInside ==
  ASSUME NEW b \in Body, NEW p \in Nat, p >= 1, b.zeros \subseteq 1..b.len
  PROVE  WrittenAt(b, p).zeros \subseteq 1..WrittenAt(b, p).len
  BY WrittenBody DEF Body

LEMMA RowFields ==
  ASSUME NEW w \in UploadRow
  PROVE  /\ w.there \in BOOLEAN /\ w.locked \in BOOLEAN /\ w.expired \in BOOLEAN
         /\ w.size \in Nat /\ w.offset \in Nat /\ w.hashed \in Hash
  BY DEF UploadRow

SameProgress(v, w) ==
  /\ v.there = w.there /\ v.size = w.size
  /\ v.offset = w.offset /\ v.hashed = w.hashed

LEMMA ProgressedRow ==
  ASSUME NEW w \in UploadRow, NEW n \in Nat, NEW h \in Hash
  PROVE  LET v == Progressed(w, n, h) IN
         /\ v \in UploadRow /\ v.there = w.there /\ v.size = w.size
         /\ v.offset = n /\ v.hashed = h
  BY DEF UploadRow, Progressed

LEMMA NewRow ==
  ASSUME NEW n \in Nat
  PROVE  LET v == [NoSession EXCEPT !.there = TRUE, !.size = n] IN
         /\ v \in UploadRow /\ v.there = TRUE /\ v.size = n
         /\ v.offset = 0 /\ v.hashed = 0
  BY Defaults DEF UploadRow

-----------------------------------------------------------------------------
(* What a step has to keep                                                 *)

\* One session in the words of its key, and one recorded file.
RowSound(k) ==
  row[k].there =>
    /\ row[k].hashed = row[k].offset
    /\ place[k] = "staging" => Solid(body[k], row[k].offset)

NodeSound(n) ==
  /\ n.chunked \/ place[n.key] = "blob"
  /\ timely /\ n.kind = "tus" =>
       /\ ContentOf(n) = [len |-> n.want, zeros |-> {}]
       /\ n.chunked \/ n.sha = n.want

LEMMA InvParts ==
  UploadInv <=> /\ UploadTypeOK
                /\ Requests /\ Holders /\ Exclusive /\ Files /\ Unrecorded
                /\ timely => \A k \in StagingKey : RowSound(k)
                /\ \A n \in nodes : NodeSound(n)
  BY DEF UploadInv, HashDescribesBytes, ProgressDurable, ContentIntact, BlobStays,
     RowSound, NodeSound, Solid

\* A request knows what it knew while neither it nor its file moves.
LEMMA HeldStays ==
  ASSUME NEW q \in Connection, NEW j \in StagingKey, j = work[q].key, work'[q] = work[q],
         place'[j] = place[j], body'[j] = body[j], row'[j] = row[j], Held(work[q])
  PROVE  Held(work[q])'
  <1>1. work'[q].key = j
    OBVIOUS
  <1>2. Holds(work[q])' <=> Holds(work[q])
    BY DEF Holds
  <1>3. (HeldAppend(work[q]) => HeldAppend(work[q])') /\ (HeldCopy(work[q]) => HeldCopy(work[q])')
    BY <1>1 DEF HeldAppend, HeldCopy
  <1>4. (HeldCommit(work[q]) => HeldCommit(work[q])') /\ (HeldStat(work[q]) => HeldStat(work[q])')
    BY <1>1 DEF HeldCommit, HeldStat
  <1>5. (HeldStore(work[q]) => HeldStore(work[q])') /\ (HeldPut(work[q]) => HeldPut(work[q])')
    BY <1>1 DEF HeldStore, HeldPut
  <1> QED BY <1>1, <1>2, <1>3, <1>4, <1>5 DEF Held

\* A step of the requests R (one or none) that touches no key but k.
LEMMA Frame ==
  ASSUME UploadInv, UploadTypeOK', timely' = timely, nodes' = nodes,
         NEW R \in SUBSET Connection, NEW k \in StagingKey,
         \A q \in Connection \ R : work'[q] = work[q],
         \A j \in StagingKey \ {k} : /\ place'[j] = place[j]
                                     /\ body'[j] = body[j] /\ row'[j] = row[j],
         Keyed(k)', timely => RowSound(k)',
         \A q \in R : Placed(work[q])' /\ (timely => Held(work[q])'),
         \A q \in Connection \ R : work[q].key = k =>
            Placed(work[q])' /\ (timely => Held(work[q])'),
         \A q \in R : \A p \in Connection \ {q} :
            Apart(work[q], work[p])' /\ Apart(work[p], work[q])',
         \A q \in R : \A n \in nodes :
            Renamed(work'[q]) /\ n.key = work'[q].key => n.chunked,
         \A n \in nodes : n.key = k /\ ~n.chunked =>
            place'[k] = "blob" /\ (timely => body'[k] = body[k])
  PROVE  UploadInv'
  <1>1. Requests'
    <2>1. \A q \in Connection \ R : work[q].key # k => Placed(work[q])'
      BY DEF UploadInv, UploadTypeOK, Requests, Placed, Work
    <2> QED BY <2>1 DEF Requests
  <1>2. Holders'
    <2>1. ASSUME NEW q \in Connection \ R, timely, work[q].key # k PROVE Held(work[q])'
      <3>1. PICK j \in StagingKey : j = work[q].key
        BY DEF UploadInv, UploadTypeOK, Work
      <3>2. /\ work'[q] = work[q] /\ place'[j] = place[j]
            /\ body'[j] = body[j] /\ row'[j] = row[j]
        BY <2>1, <3>1
      <3>3. Held(work[q])
        BY <2>1 DEF UploadInv, Holders
      <3> QED BY <3>1, <3>2, <3>3, HeldStays
    <2> QED BY <2>1 DEF Holders
  <1>3. Exclusive'
    BY DEF UploadInv, Exclusive, Apart
  <1>4. Files'
    BY DEF UploadInv, Files, Keyed
  <1>5. Unrecorded'
    BY DEF UploadInv, Unrecorded
  <1>6. (timely => \A j \in StagingKey : RowSound(j))'
    BY InvParts DEF RowSound
  <1>7. \A n \in nodes : n.key \in StagingKey
    BY DEF UploadInv, UploadTypeOK, FileRow
  <1>8. (\A n \in nodes : NodeSound(n))'
    <2> SUFFICES ASSUME NEW n \in nodes PROVE NodeSound(n)'
      OBVIOUS
    <2>1. NodeSound(n) /\ n \in FileRow
      BY InvParts DEF UploadInv, UploadTypeOK
    <2>2. CASE n.chunked
      BY <2>1, <2>2 DEF NodeSound, ContentOf
    <2>3. CASE ~n.chunked
      <3>1. place'[n.key] = "blob" /\ (timely => body'[n.key] = body[n.key])
        BY <1>7, <2>1, <2>3 DEF NodeSound
      <3> QED BY <2>1, <2>3, <3>1 DEF NodeSound, ContentOf
    <2> QED BY <2>2, <2>3
  <1>9. (/\ HashDescribesBytes /\ ProgressDurable /\ ContentIntact /\ BlobStays)'
    BY <1>6, <1>8 DEF HashDescribesBytes, ProgressDurable, ContentIntact, BlobStays,
       RowSound, NodeSound, Solid
  <1> QED BY <1>1, <1>2, <1>3, <1>4, <1>5, <1>9 DEF UploadInv

-----------------------------------------------------------------------------
(* The requests that a step leaves alone, and the one that goes on         *)

\* Removing the name from the staging area or the row of the session disturbs
\* nobody.
LEMMA Bystander ==
  ASSUME UploadInv, timely' = timely, NEW q \in Connection, NEW k \in StagingKey,
         work'[q] = work[q], work[q].key = k, body'[k] = body[k],
         \/ place'[k] = place[k]
         \/ place'[k] = "gone" /\ place[k] # "none" /\ ~Renamed(work[q]),
         row'[k] = row[k] \/ row'[k] = NoSession
  PROVE  Placed(work[q])' /\ (timely => Held(work[q])')
  <1>1. Placed(work[q]) /\ (timely => Held(work[q]))
    BY DEF UploadInv, Requests, Holders
  <1>2. row'[k].there => row'[k] = row[k]
    BY Defaults
  <1>3. Placed(work[q])'
    BY <1>1, <1>2 DEF Placed
  <1>4. timely => Held(work[q])'
    BY <1>1, <1>2 DEF Held, HeldAppend, HeldCopy, HeldCommit, HeldStat, HeldStore, HeldPut
  <1> QED BY <1>3, <1>4

\* A request that holds no lock is not disturbed by the progress of one that does.
LEMMA Outsider ==
  ASSUME UploadInv, timely' = timely, NEW q \in Connection, NEW k \in StagingKey,
         work'[q] = work[q], work[q].key = k,
         timely => ~Holds(work[q]),
         place[k] # "none" => place'[k] # "none",
         Renamed(work[q]) => place'[k] = place[k],
         row'[k].there => row[k].there /\ row'[k].size = row[k].size
  PROVE  Placed(work[q])' /\ (timely => Held(work[q])')
  <1>1. Placed(work[q])
    BY DEF UploadInv, Requests
  <1>2. Placed(work[q])'
    BY <1>1 DEF Placed
  <1>3. timely => Held(work[q])'
    BY DEF Held, Holds
  <1> QED BY <1>2, <1>3

\* A request that goes on with no more rights than it had.
LEMMA Onward ==
  ASSUME UploadInv, timely' = timely, NEW r \in Connection,
         \A q \in Connection \ {r} : work'[q] = work[q],
         work[r].pc # "idle", work'[r].key = work[r].key,
         Alone(work'[r]) => Alone(work[r]),
         Renamed(work'[r]) => Renamed(work[r]),
         Holds(work'[r]) => Holds(work[r])
  PROVE  \A p \in Connection \ {r} :
           Apart(work[r], work[p])' /\ Apart(work[p], work[r])'
  BY DEF UploadInv, Exclusive, Apart

LEMMA Ends ==
  ASSUME NEW r \in Connection, work'[r] = IdleReq
  PROVE  /\ Placed(work[r])' /\ Held(work[r])'
         /\ ~Renamed(work'[r])
         /\ \A p \in Connection \ {r} :
              Apart(work[r], work[p])' /\ Apart(work[p], work[r])'
  BY Defaults DEF Placed, Held, Holds, Alone, Renamed, Apart, AppendPc, FinishPc

\* The facts every step starts from.
LEMMA Known ==
  ASSUME UploadInv, NEW r \in Connection
  PROVE  /\ UploadTypeOK
         /\ work[r] \in Work /\ work[r].key \in StagingKey
         /\ Placed(work[r]) /\ (timely => Held(work[r]))
         /\ Keyed(work[r].key) /\ (timely => RowSound(work[r].key))
         /\ body[work[r].key] \in Body /\ row[work[r].key] \in UploadRow
         /\ row[work[r].key].offset <= row[work[r].key].size
         /\ place[work[r].key] \in {"none", "staging", "blob", "gone"}
  BY InvParts DEF UploadInv, UploadTypeOK, Requests, Holders, Files, Work

\* A step of one request that changes nothing but where it stands.
LEMMA OnlyWork ==
  ASSUME UploadInv, NEW r \in Connection, work'[r] \in Work,
         work' = [work EXCEPT ![r] = work'[r]],
         UNCHANGED <<place, body, row, nodes, sweep, timely>>,
         Placed(work[r])' /\ (timely => Held(work[r])'),
         \A p \in Connection \ {r} : Apart(work[r], work[p])' /\ Apart(work[p], work[r])',
         Renamed(work'[r]) => Renamed(work[r]) /\ work'[r].key = work[r].key
  PROVE  UploadInv'
  <1>0. PICK k \in StagingKey : k = work[r].key
    BY Known
  <1>1. UploadTypeOK' /\ \A q \in Connection \ {r} : work'[q] = work[q]
    BY DEF UploadInv, UploadTypeOK
  <1>2. Keyed(k)' /\ (timely => RowSound(k)')
    BY <1>0, Known DEF Keyed, RowSound
  <1>3. \A q \in Connection \ {r} : work[q].key = k =>
           Placed(work[q])' /\ (timely => Held(work[q])')
    BY <1>1, Known, Bystander
  <1>4. \A n \in nodes : Renamed(work'[r]) /\ n.key = work'[r].key => n.chunked
    BY DEF UploadInv, Unrecorded
  <1>5. \A n \in nodes : n.key = k /\ ~n.chunked =>
           place'[k] = "blob" /\ body'[k] = body[k]
    BY InvParts DEF NodeSound
  <1>6. {r} \in SUBSET Connection
    OBVIOUS
  <1> QED BY <1>1, <1>2, <1>3, <1>4, <1>5, <1>6, Frame

-----------------------------------------------------------------------------
(* Steps of a request that change nothing else                             *)

LEMMA UploadFailsKeeps ==
  ASSUME UploadInv, NEW r \in Connection, UploadFails(r) PROVE UploadInv'
  <1>1. work' = [work EXCEPT ![r] = IdleReq] /\ work'[r] = IdleReq
    BY Known DEF UploadFails, UploadTypeOK
  <1> QED BY <1>1, Ends, OnlyWork, Defaults DEF UploadFails

\* The body has ended within the declared size, or the request gives up.
LEMMA AppendSyncKeeps ==
  ASSUME UploadInv, NEW r \in Connection, AppendSync(r) \/ AppendSyncFails(r)
  PROVE  UploadInv'
  <1> DEFINE w == work[r]
  <1>0. /\ w \in Work /\ w.pc = "copy" /\ Placed(w) /\ (timely => Held(w))
        /\ w.pos \in Nat /\ w.pos >= 1 /\ w.size \in Nat /\ w.offset \in Nat
        /\ w.kind \in {"tus", "dav"}
    BY Known, WorkFields DEF AppendSync, AppendSyncFails, Placed
  <1>1. PICK pc \in {"commit", "unlock"}, n \in Nat :
          /\ work' = [work EXCEPT ![r] = [w EXCEPT !.pc = pc, !.offset = n]]
          /\ pc = "commit" => n <= w.size
          /\ timely => n = w.pos - 1
    <2>1. CASE AppendSync(r)
      <3>1. w.pos - 1 \in Nat
        BY <1>0
      <3>2. CASE w.pos > w.size + 1
        BY <2>1, <3>1, <3>2, Known DEF AppendSync, UploadTypeOK
      <3>3. CASE ~(w.pos > w.size + 1)
        <4>1. w.pos - 1 <= w.size
          BY <1>0, <3>3
        <4> QED BY <2>1, <3>1, <3>3, <4>1, Known DEF AppendSync, UploadTypeOK
      <3> QED BY <3>2, <3>3
    <2>2. CASE AppendSyncFails(r)
      <3>1. [w EXCEPT !.pc = "commit", !.offset = w.offset] = [w EXCEPT !.pc = "commit"]
        BY <1>0 DEF Work
      <3> QED BY <1>0, <2>2, <3>1, Known DEF AppendSyncFails, UploadTypeOK, Placed
    <2> QED BY <2>1, <2>2
  <1>2. work'[r] = [w EXCEPT !.pc = pc, !.offset = n] /\ pc \in WorkPc
    BY <1>1, Known DEF UploadTypeOK, WorkPc, AppendPc
  <1>3. /\ work'[r] \in Work /\ work'[r].pc = pc /\ Kept(work'[r], w)
        /\ work'[r].offset = n /\ work'[r].size = w.size
        /\ work'[r].pos = w.pos /\ work'[r].hashed = w.hashed
    BY <1>0, <1>2 DEF Work, Kept
  <1>4. UNCHANGED <<place, body, row, nodes, sweep, timely>>
    BY DEF AppendSync, AppendSyncFails
  <1> HIDE DEF w
  <1>5. Holds(w) /\ ~Alone(w) /\ ~Renamed(work'[r]) /\ ~Alone(work'[r])
    BY <1>0, <1>3 DEF Holds, Alone, Renamed, Placed, Kept, AppendPc, DavPc
  <1>6. Placed(work[r])'
    BY <1>0, <1>1, <1>3, <1>4, <1>5 DEF Placed, Kept, w, Holds, Renamed
  <1>7. timely => Held(work[r])'
    <2> HAVE timely
    <2>1. HeldCopy(w) /\ (row[w.key].there => row[w.key].locked)
      BY <1>0, <1>5 DEF Held
    <2>2. w.key \in StagingKey /\ row[w.key].there \in BOOLEAN
      BY Known, RowFields DEF w
    <2>3. HeldCommit(work[r])'
      BY <1>0, <1>1, <1>3, <1>4, <2>1, <2>2 DEF HeldCommit, HeldCopy, Kept, Solid
    <2> QED BY <1>1, <1>3, <1>4, <2>1, <2>3 DEF Held, HeldAppend, HeldCopy, HeldStat,
            HeldStore, HeldPut, Kept
  <1>8. \A p \in Connection \ {r} : Apart(work[r], work[p])' /\ Apart(work[p], work[r])'
    <2>1. \A q \in Connection \ {r} : work'[q] = work[q]
      BY <1>1
    <2> QED BY <1>0, <1>3, <1>4, <1>5, <2>1, Onward DEF w, Kept
  <1> QED BY <1>1, <1>2, <1>3, <1>4, <1>5, <1>6, <1>7, <1>8, OnlyWork

\* The length of the file is the declared one, and it has no hole: it is whole.
LEMMA FinishStatKeeps ==
  ASSUME UploadInv, NEW r \in Connection, FinishStat(r) PROVE UploadInv'
  <1> DEFINE w == work[r]
  <1>0. /\ w \in Work /\ w.pc = "stat" /\ w.kind = "tus" /\ Placed(w)
        /\ (timely => Held(w))
    BY Known, WorkFields DEF FinishStat, Placed, DavPc
  <1>1. /\ work' = [work EXCEPT ![r] = [w EXCEPT !.pc = "store"]]
        /\ work'[r] = [w EXCEPT !.pc = "store"]
    BY Known DEF FinishStat, UploadTypeOK
  <1>3. /\ work'[r] \in Work /\ work'[r].pc = "store" /\ Carried(work'[r], w)
    BY <1>0, <1>1 DEF Work, WorkPc, FinishPc, Carried, Sized, Kept
  <1>4. UNCHANGED <<place, body, row, nodes, sweep, timely>>
    BY DEF FinishStat
  <1> HIDE DEF w
  <1>5. Holds(w) /\ ~Alone(w) /\ ~Renamed(work'[r]) /\ ~Alone(work'[r])
    BY <1>0, <1>3 DEF Holds, Alone, Renamed, Carried, Sized, Kept, FinishPc
  <1>6. Placed(work[r])'
    BY <1>0, <1>3, <1>4, <1>5 DEF Placed, Carried, Sized, Kept, Holds
  <1>7. timely => Held(work[r])'
    <2> HAVE timely
    <2>1. HeldStat(w) /\ (row[w.key].there => row[w.key].locked)
      BY <1>0, <1>5 DEF Held
    <2>2. body[w.key] = [len |-> w.size, zeros |-> {}]
      <3>1. /\ body[w.key] \in Body /\ body[w.key].len = w.size
            /\ body[w.key].zeros \subseteq 1..body[w.key].len
            /\ place[w.key] = "staging"
        BY Known DEF FinishStat, w, Keyed
      <3>2. body[w.key].zeros = {}
        BY <1>0, <2>1, <3>1 DEF HeldStat
      <3> QED BY <3>1, <3>2 DEF Body
    <2>3. HeldStore(work[r])'
      BY <1>0, <1>3, <1>4, <2>1, <2>2 DEF HeldStore, HeldStat, Carried, Sized, Kept
    <2> QED BY <1>3, <1>4, <2>1, <2>3 DEF Held, HeldAppend, HeldCopy, HeldStat,
            HeldCommit, HeldPut, Carried, Sized, Kept
  <1>8. \A p \in Connection \ {r} : Apart(work[r], work[p])' /\ Apart(work[p], work[r])'
    <2>1. \A q \in Connection \ {r} : work'[q] = work[q]
      BY <1>1
    <2> QED BY <1>0, <1>3, <1>4, <1>5, <2>1, Onward DEF w, Carried, Sized, Kept
  <1> QED BY <1>1, <1>3, <1>4, <1>5, <1>6, <1>7, <1>8, OnlyWork

\* A WebDAV PUT has no session that could go wrong.
LEMMA DavCloseKeeps ==
  ASSUME UploadInv, NEW r \in Connection, DavClose(r) PROVE UploadInv'
  <1> DEFINE w == work[r]
  <1>0. w \in Work /\ w.pc = "dav" /\ w.kind = "dav" /\ Placed(w)
    BY Known DEF DavClose, Placed
  <1>1. /\ work' = [work EXCEPT ![r] = [w EXCEPT !.pc = "store"]]
        /\ work'[r] = [w EXCEPT !.pc = "store"]
    BY Known DEF DavClose, UploadTypeOK
  <1>3. /\ work'[r] \in Work /\ work'[r].pc = "store" /\ Carried(work'[r], w)
    BY <1>0, <1>1 DEF Work, WorkPc, FinishPc, Carried, Sized, Kept
  <1>4. UNCHANGED <<place, body, row, nodes, sweep, timely>>
    BY DEF DavClose
  <1> HIDE DEF w
  <1>5. ~Holds(work'[r]) /\ Alone(w) /\ ~Renamed(work'[r])
    BY <1>0, <1>3 DEF Holds, Alone, Renamed, Carried, Sized, Kept
  <1>6. Placed(work[r])'
    BY <1>0, <1>3, <1>4, <1>5 DEF Placed, Carried, Sized, Kept, DavPc
  <1>7. Held(work[r])'
    BY <1>5 DEF Held, Holds
  <1>8. \A p \in Connection \ {r} : Apart(work[r], work[p])' /\ Apart(work[p], work[r])'
    <2>1. \A q \in Connection \ {r} : work'[q] = work[q]
      BY <1>1
    <2> QED BY <1>0, <1>3, <1>4, <1>5, <2>1, Onward DEF w, Carried, Sized, Kept
  <1> QED BY <1>1, <1>3, <1>4, <1>5, <1>6, <1>7, <1>8, OnlyWork

\* AppendPartial without a file: the progress that was read is committed.
LEMMA AppendOpenNothingKeeps ==
  ASSUME UploadInv, NEW r \in Connection, AppendOpen(r), place[work[r].key] # "staging"
  PROVE  UploadInv'
  <1> DEFINE w == work[r]
  <1>0. /\ w \in Work /\ w.pc = "append" /\ w.kind = "tus" /\ Placed(w)
        /\ (timely => Held(w)) /\ w.key \in StagingKey /\ place[w.key] # "staging"
        /\ row[w.key].offset \in Nat /\ w.offset \in Nat
    BY Known, WorkFields, RowFields DEF AppendOpen, Placed, DavPc
  <1>1. /\ work' = [work EXCEPT ![r] = [w EXCEPT !.pc = "commit"]]
        /\ work'[r] = [w EXCEPT !.pc = "commit"]
    BY Known DEF AppendOpen, UploadTypeOK
  <1>3. /\ work'[r] \in Work /\ work'[r].pc = "commit" /\ Carried(work'[r], w)
    BY <1>0, <1>1 DEF Work, WorkPc, AppendPc, Carried, Sized, Kept
  <1>4. UNCHANGED <<place, body, row, nodes, sweep, timely>>
    BY DEF AppendOpen
  <1> HIDE DEF w
  <1>5. Holds(w) /\ ~Alone(w) /\ ~Renamed(work'[r]) /\ ~Alone(work'[r])
    BY <1>0, <1>3 DEF Holds, Alone, Renamed, Carried, Sized, Kept, AppendPc
  <1>6. Placed(work[r])'
    BY <1>0, <1>3, <1>4, <1>5 DEF Placed, Carried, Sized, Kept, Holds
  <1>7. timely => Held(work[r])'
    <2> HAVE timely
    <2>1. HeldAppend(w) /\ (row[w.key].there => row[w.key].locked)
      BY <1>0, <1>5 DEF Held
    <2>3. HeldCommit(work[r])'
      BY <1>0, <1>3, <1>4, <2>1 DEF HeldCommit, HeldAppend, Carried, Sized, Kept
    <2> QED BY <1>3, <1>4, <2>1, <2>3 DEF Held, HeldAppend, HeldCopy, HeldStat,
            HeldStore, HeldPut, Carried, Sized, Kept
  <1>8. \A p \in Connection \ {r} : Apart(work[r], work[p])' /\ Apart(work[p], work[r])'
    <2>1. \A q \in Connection \ {r} : work'[q] = work[q]
      BY <1>1
    <2> QED BY <1>0, <1>3, <1>4, <1>5, <2>1, Onward DEF w, Carried, Sized, Kept
  <1> QED BY <1>1, <1>3, <1>4, <1>5, <1>6, <1>7, <1>8, OnlyWork

-----------------------------------------------------------------------------
(* Steps that take a name or a row away                                    *)

\* A step of the requests R that removes a file or a row of k, or both: an
\* unrecorded blob only by the request that renamed it.
LEMMA Taking ==
  ASSUME UploadInv, UploadTypeOK', UNCHANGED <<body, nodes, timely>>,
         NEW R \in SUBSET Connection, NEW k \in StagingKey,
         \A q \in Connection \ R : work'[q] = work[q],
         \A j \in StagingKey \ {k} : place'[j] = place[j] /\ row'[j] = row[j],
         \/ place'[k] = place[k]
         \/ place'[k] = "gone" /\ place[k] = "staging"
         \/ /\ place'[k] = "gone" /\ place[k] # "none"
            /\ \E q \in R : Renamed(work[q]) /\ work[q].key = k,
         row'[k] = row[k] \/ row'[k] = NoSession,
         \A q \in R : Placed(work[q])' /\ (timely => Held(work[q])'),
         \A q \in R : \A p \in Connection \ {q} :
            Apart(work[q], work[p])' /\ Apart(work[p], work[q])',
         \A q \in R : ~Renamed(work'[q])
  PROVE  UploadInv'
  <1>1. \A q \in Connection \ R : work[q].key = k =>
          \/ place'[k] = place[k]
          \/ place'[k] = "gone" /\ place[k] # "none" /\ ~Renamed(work[q])
    BY DEF UploadInv, Exclusive, Apart, Requests, Placed
  <1>2. \A q \in Connection \ R : work[q].key = k =>
          Placed(work[q])' /\ (timely => Held(work[q])')
    BY <1>1, Bystander
  <1>3. \A n \in nodes : n.key = k /\ ~n.chunked => place[k] = "blob" /\ place'[k] = place[k]
    BY InvParts DEF NodeSound, UploadInv, Unrecorded
  <1>4. Keyed(k) /\ (timely => RowSound(k))
    BY InvParts DEF UploadInv, Files
  <1>5. row'[k].there => row'[k] = row[k]
    BY Defaults
  <1>6. Keyed(k)' /\ (timely => RowSound(k)')
    BY <1>4, <1>5 DEF Keyed, RowSound
  <1> QED BY <1>2, <1>3, <1>6, Frame

\* The request ends with it.
LEMMA TakingEnds ==
  ASSUME UploadInv, UNCHANGED <<body, nodes, sweep, timely>>,
         NEW r \in Connection, NEW k \in StagingKey,
         work' = [work EXCEPT ![r] = IdleReq],
         \/ place' = place
         \/ place' = [place EXCEPT ![k] = "gone"] /\ place[k] = "staging"
         \/ /\ place' = [place EXCEPT ![k] = "gone"] /\ place[k] # "none"
            /\ Renamed(work[r]) /\ work[r].key = k,
         row' = row \/ row' = [row EXCEPT ![k] = NoSession]
  PROVE  UploadInv'
  <1>1. work'[r] = IdleReq /\ \A q \in Connection \ {r} : work'[q] = work[q]
    BY Known DEF UploadTypeOK
  <1>2. UploadTypeOK'
    BY Defaults DEF UploadInv, UploadTypeOK
  <1>3. /\ row'[k] = row[k] \/ row'[k] = NoSession
        /\ \/ place'[k] = place[k]
           \/ place'[k] = "gone" /\ place[k] = "staging"
           \/ /\ place'[k] = "gone" /\ place[k] # "none"
              /\ Renamed(work[r]) /\ work[r].key = k
        /\ \A j \in StagingKey \ {k} : place'[j] = place[j] /\ row'[j] = row[j]
    BY DEF UploadInv, UploadTypeOK
  <1>4. {r} \in SUBSET Connection
    OBVIOUS
  <1> QED BY <1>1, <1>2, <1>3, <1>4, Ends, Taking

LEMMA RemovedIs ==
  ASSUME UploadTypeOK, NEW k \in StagingKey
  PROVE  \/ Removed(k) = place
         \/ Removed(k) = [place EXCEPT ![k] = "gone"] /\ place[k] = "staging"
  BY DEF UploadTypeOK, Removed

LEMMA EndingKeeps ==
  ASSUME UploadInv, NEW r \in Connection,
         CreateRefused(r) \/ CancelFile(r) \/ FinishDelete(r) \/ FinishPutFails(r)
  PROVE  UploadInv'
  <1>0. PICK k \in StagingKey : k = work[r].key
    BY Known
  <1>1. CASE CreateRefused(r) \/ CancelFile(r)
    BY <1>0, <1>1, Known, RemovedIs, TakingEnds DEF CreateRefused, CancelFile
  <1>2. CASE FinishDelete(r)
    BY <1>0, <1>2, TakingEnds DEF FinishDelete
  <1>3. CASE FinishPutFails(r)
    <2>1. CASE Chunks(work[r].size)
      <3>1. place' = place
        BY <1>3, <2>1, Known DEF FinishPutFails, UploadTypeOK
      <3> QED BY <1>0, <1>3, <3>1, TakingEnds DEF FinishPutFails
    <2>2. CASE ~Chunks(work[r].size)
      <3>1. /\ place' = [place EXCEPT ![k] = "gone"]
            /\ Renamed(work[r]) /\ place[k] # "none"
        BY <1>0, <1>3, <2>2, Known DEF FinishPutFails, Renamed, Placed
      <3> QED BY <1>0, <1>3, <3>1, TakingEnds DEF FinishPutFails
    <2> QED BY <2>1, <2>2
  <1> QED BY <1>1, <1>2, <1>3

\* A request that starts on a session nobody else holds.
LEMMA Starts ==
  ASSUME UploadInv, timely' = timely, NEW r \in Connection, NEW k \in StagingKey,
         \A q \in Connection \ {r} : work'[q] = work[q],
         row[k].there, work'[r].key = k, ~Alone(work'[r]), ~Renamed(work'[r]),
         timely /\ Holds(work'[r]) =>
           \A q \in Connection \ {r} : work[q].key = k => ~Holds(work[q])
  PROVE  \A p \in Connection \ {r} :
           Apart(work[r], work[p])' /\ Apart(work[p], work[r])'
  BY DEF UploadInv, Requests, Placed, Apart

LEMMA CancelRowKeeps ==
  ASSUME UploadInv, NEW r \in Connection, NEW k \in StagingKey, CancelRow(r, k)
  PROVE  UploadInv'
  <1>1. [IdleReq EXCEPT !.pc = "cancel", !.key = k] \in Work
    BY Defaults DEF Work, WorkPc
  <1>2. UploadTypeOK'
    BY <1>1, Defaults DEF UploadInv, UploadTypeOK, CancelRow
  <1>3. /\ work'[r] = [IdleReq EXCEPT !.pc = "cancel", !.key = k]
        /\ \A q \in Connection \ {r} : work'[q] = work[q]
    BY Known DEF CancelRow, UploadTypeOK
  <1>4. /\ work'[r].pc = "cancel" /\ work'[r].kind = "tus" /\ work'[r].key = k
        /\ work'[r].pos = 1
    BY <1>1, <1>3, Defaults DEF Work
  <1>5. ~Alone(work'[r]) /\ ~Renamed(work'[r]) /\ ~Holds(work'[r])
    BY <1>4 DEF Alone, Renamed, Holds, AppendPc, FinishPc
  <1>6. row[k].there /\ place[k] # "none"
    BY DEF CancelRow, UploadInv, Files, Keyed
  <1>7. Placed(work[r])' /\ Held(work[r])'
    BY <1>4, <1>5, <1>6 DEF CancelRow, Placed, Held, Holds
  <1>8. UNCHANGED <<place, body, nodes, timely>> /\ {r} \in SUBSET Connection
    BY DEF CancelRow
  <1>9. row'[k] = NoSession /\ \A j \in StagingKey \ {k} : row'[j] = row[j]
    BY DEF CancelRow, UploadInv, UploadTypeOK
  <1>10. \A p \in Connection \ {r} : Apart(work[r], work[p])' /\ Apart(work[p], work[r])'
    BY <1>3, <1>4, <1>5, <1>6, <1>8, Starts
  <1> QED BY <1>2, <1>3, <1>5, <1>7, <1>8, <1>9, <1>10, Taking

\* The staging file of a chunked upload, once the file is recorded.
LEMMA FinishRemoveKeeps ==
  ASSUME UploadInv, NEW r \in Connection, FinishRemove(r) PROVE UploadInv'
  <1> DEFINE w == work[r]
  <1>0. w \in Work /\ w.pc = "remove" /\ Placed(w) /\ (timely => Held(w))
    BY Known DEF FinishRemove
  <1>1. PICK k \in StagingKey : k = w.key
    BY Known
  <1>2. /\ work' = [work EXCEPT ![r] = [w EXCEPT !.pc = "delete"]]
        /\ work'[r] = [w EXCEPT !.pc = "delete"]
        /\ UNCHANGED <<body, row, nodes, sweep, timely>>
        /\ \/ place' = place
           \/ place' = [place EXCEPT ![k] = "gone"] /\ place[k] = "staging"
    BY <1>1, Known, RemovedIs DEF FinishRemove, UploadTypeOK
  <1>3. work'[r] \in Work /\ work'[r].pc = "delete" /\ Carried(work'[r], w)
    BY <1>0, <1>2 DEF Work, WorkPc, FinishPc, Carried, Sized, Kept
  <1>4. UploadTypeOK' /\ \A q \in Connection \ {r} : work'[q] = work[q]
    BY <1>2, <1>3, Known DEF UploadTypeOK
  <1>5. /\ \/ place'[k] = place[k]
           \/ place'[k] = "gone" /\ place[k] = "staging"
        /\ row'[k] = row[k]
        /\ \A j \in StagingKey \ {k} : place'[j] = place[j] /\ row'[j] = row[j]
    BY <1>2, Known DEF UploadTypeOK
  <1> HIDE DEF w
  <1>6. /\ ~Renamed(work'[r]) /\ (Alone(work'[r]) => Alone(w))
        /\ (Holds(work'[r]) => Holds(w))
    BY <1>0, <1>3 DEF Renamed, Alone, Holds, Carried, Sized, Kept, FinishPc
  <1>7. Placed(work[r])'
    BY <1>0, <1>1, <1>2, <1>3, <1>5, <1>6 DEF Placed, Carried, Sized, Kept, DavPc
  <1>8. timely => Held(work[r])'
    BY <1>0, <1>1, <1>2, <1>3, <1>6 DEF Held, HeldAppend, HeldCopy, HeldCommit, HeldStat,
       HeldStore, HeldPut, Carried, Sized, Kept
  <1>9. \A p \in Connection \ {r} : Apart(work[r], work[p])' /\ Apart(work[p], work[r])'
    BY <1>0, <1>2, <1>3, <1>4, <1>6, Onward DEF w, Carried, Sized, Kept
  <1>10. {r} \in SUBSET Connection
    OBVIOUS
  <1> QED BY <1>2, <1>4, <1>5, <1>6, <1>7, <1>8, <1>9, <1>10, Taking

LEMMA SweepTakes ==
  ASSUME UploadInv, NEW k \in StagingKey, SweepRow(k) \/ SweepRemove(k)
  PROVE  UploadInv'
  <1>1. sweep' \in SweepRun
    <2>1. [sweep EXCEPT !.keys = @ \ {k}] \in SweepRun
      BY DEF UploadInv, UploadTypeOK, SweepRun
    <2> QED BY <2>1 DEF SweepRow, SweepRemove
  <1>2. /\ UNCHANGED <<body, nodes, timely, work>>
        /\ row' = row \/ row' = [row EXCEPT ![k] = NoSession]
        /\ \/ place' = place
           \/ place' = [place EXCEPT ![k] = "gone"] /\ place[k] = "staging"
    BY RemovedIs DEF UploadInv, SweepRow, SweepRemove
  <1>3. UploadTypeOK'
    BY <1>1, <1>2, Defaults DEF UploadInv, UploadTypeOK
  <1>4. /\ \/ place'[k] = place[k]
           \/ place'[k] = "gone" /\ place[k] = "staging"
        /\ row'[k] = row[k] \/ row'[k] = NoSession
        /\ \A j \in StagingKey \ {k} : place'[j] = place[j] /\ row'[j] = row[j]
    BY <1>2 DEF UploadInv, UploadTypeOK
  <1>5. {} \in SUBSET Connection /\ \A q \in Connection \ {} : work'[q] = work[q]
    BY <1>2
  <1>6. UNCHANGED <<body, nodes, timely>>
    BY <1>2
  <1>7. CASE place'[k] = place[k]
    BY <1>3, <1>4, <1>5, <1>6, <1>7, Taking
  <1>8. CASE place'[k] # place[k]
    BY <1>3, <1>4, <1>5, <1>6, <1>8, Taking
  <1> QED BY <1>7, <1>8

\* The sweep's own bookkeeping.
LEMMA SweepReads ==
  ASSUME UploadInv, SweepList \/ SweepKnown \/ SweepWalk \/ SweepEnd \/ SweepAbort
  PROVE  UploadInv'
  <1>1. sweep' \in SweepRun /\ UNCHANGED <<place, body, row, nodes, work, timely>>
    BY DEF SweepList, SweepKnown, SweepWalk, SweepEnd, SweepAbort, IdleSweep, SweepRun,
       ExpiredUploads, StagingKeys
  <1>2. UploadTypeOK'
    BY <1>1 DEF UploadInv, UploadTypeOK
  <1>3. PICK k \in StagingKey : TRUE
    BY KeyAssumption
  <1>4. {} \in SUBSET Connection /\ \A q \in Connection \ {} : work'[q] = work[q]
    BY <1>1
  <1> QED BY <1>1, <1>2, <1>3, <1>4, Taking

-----------------------------------------------------------------------------
(* Locks, progress and the deadline of a session                           *)

LEMMA ExpireSessionKeeps ==
  ASSUME UploadInv, NEW k \in StagingKey, ExpireSession(k) PROVE UploadInv'
  <1> DEFINE x == [row[k] EXCEPT !.expired = TRUE]
  <1>1. row[k] \in UploadRow /\ UploadTypeOK /\ Keyed(k) /\ (timely => RowSound(k))
    BY InvParts DEF UploadInv, UploadTypeOK, Files
  <1>2. /\ x \in UploadRow /\ x.locked = row[k].locked /\ SameProgress(x, row[k])
    BY <1>1 DEF UploadRow, SameProgress
  <1>3. row' = [row EXCEPT ![k] = x] /\ UNCHANGED <<place, body, nodes, work, sweep, timely>>
    BY DEF ExpireSession
  <1> HIDE DEF x
  <1>4. row'[k] = x /\ \A j \in StagingKey \ {k} : row'[j] = row[j]
    BY <1>1, <1>3 DEF UploadTypeOK
  <1>5. UploadTypeOK'
    BY <1>1, <1>2, <1>3, <1>4 DEF UploadTypeOK, SameProgress
  <1>6. Keyed(k)' /\ (timely => RowSound(k)')
    BY <1>1, <1>2, <1>3, <1>4 DEF Keyed, RowSound, SameProgress
  <1>7. \A q \in Connection : work[q].key = k => Placed(work[q])' /\ (timely => Held(work[q])')
    <2> SUFFICES ASSUME NEW q \in Connection, work[q].key = k
                 PROVE  Placed(work[q])' /\ (timely => Held(work[q])')
      OBVIOUS
    <2>1. Placed(work[q]) /\ (timely => Held(work[q]))
      BY Known
    <2>2. Placed(work[q])'
      BY <1>2, <1>3, <1>4, <2>1 DEF Placed, SameProgress
    <2>3. timely => Held(work[q])'
      BY <1>2, <1>3, <1>4, <2>1 DEF Held, HeldAppend, HeldCopy, HeldCommit, HeldStat,
         HeldStore, HeldPut, SameProgress
    <2> QED BY <2>2, <2>3
  <1>8. \A n \in nodes : n.key = k /\ ~n.chunked => place'[k] = "blob" /\ body'[k] = body[k]
    BY <1>3, InvParts DEF NodeSound
  <1>9. {} \in SUBSET Connection
    OBVIOUS
  <1> QED BY <1>3, <1>4, <1>5, <1>6, <1>7, <1>8, <1>9, Frame

\* A step of the requests R that writes the row of k, when no other request holds
\* the lock of k.
LEMMA RowStep ==
  ASSUME UploadInv, UNCHANGED <<place, body, nodes, sweep, timely>>,
         NEW R \in SUBSET Connection, NEW k \in StagingKey, NEW x \in UploadRow,
         row' = [row EXCEPT ![k] = x], work' \in [Connection -> Work],
         \A q \in Connection \ R : work'[q] = work[q],
         x.there => row[k].there /\ x.size = row[k].size,
         x.offset <= x.size,
         timely => RowSound(k)',
         timely => \A q \in Connection \ R : work[q].key = k => ~Holds(work[q]),
         \A q \in R : Placed(work[q])' /\ (timely => Held(work[q])'),
         \A q \in R : \A p \in Connection \ {q} :
            Apart(work[q], work[p])' /\ Apart(work[p], work[q])',
         \A q \in R : ~Renamed(work'[q])
  PROVE  UploadInv'
  <1>1. row'[k] = x /\ \A j \in StagingKey \ {k} : row'[j] = row[j]
    BY DEF UploadInv, UploadTypeOK
  <1>2. UploadTypeOK'
    BY <1>1 DEF UploadInv, UploadTypeOK
  <1>3. Keyed(k)'
    BY <1>1 DEF UploadInv, Files, Keyed
  <1>4. \A q \in Connection \ R : work[q].key = k =>
          Placed(work[q])' /\ (timely => Held(work[q])')
    BY <1>1, Outsider
  <1>5. \A n \in nodes : n.key = k /\ ~n.chunked => place'[k] = "blob" /\ body'[k] = body[k]
    BY InvParts DEF NodeSound
  <1> QED BY <1>1, <1>2, <1>3, <1>4, <1>5, Frame

LEMMA LockLapsesKeeps ==
  ASSUME UploadInv, NEW k \in StagingKey, LockLapses(k) PROVE UploadInv'
  <1> DEFINE x == [row[k] EXCEPT !.locked = FALSE]
  <1>1. row[k] \in UploadRow /\ row[k].offset <= row[k].size /\ (timely => RowSound(k))
        /\ work \in [Connection -> Work]
    BY InvParts DEF UploadInv, UploadTypeOK
  <1>2. x \in UploadRow /\ SameProgress(x, row[k])
    BY <1>1 DEF UploadRow, SameProgress
  <1>3. row' = [row EXCEPT ![k] = x] /\ UNCHANGED <<place, body, nodes, work, sweep, timely>>
    BY DEF LockLapses
  <1>4. timely => \A q \in Connection : work[q].key = k => ~Holds(work[q])
    BY DEF LockLapses, Relies, Holds
  <1> HIDE DEF x
  <1>5. row'[k] = x
    BY <1>3 DEF UploadInv, UploadTypeOK
  <1>6. timely => RowSound(k)'
    BY <1>1, <1>2, <1>3, <1>5 DEF RowSound, SameProgress
  <1>7. {} \in SUBSET Connection
    OBVIOUS
  <1>8. /\ x.there => row[k].there /\ x.size = row[k].size
        /\ x.offset <= x.size
    BY <1>1, <1>2 DEF SameProgress
  <1> QED BY <1>1, <1>2, <1>3, <1>4, <1>6, <1>7, <1>8, RowStep

LEMMA UnlockUploadKeeps ==
  ASSUME UploadInv, NEW r \in Connection, UnlockUpload(r) PROVE UploadInv'
  <1>0. PICK k \in StagingKey : k = work[r].key
    BY Known
  <1> DEFINE x == [row[k] EXCEPT !.locked = FALSE]
  <1>1. row[k] \in UploadRow /\ row[k].offset <= row[k].size /\ (timely => RowSound(k))
        /\ work \in [Connection -> Work] /\ work[r].kind = "tus"
    BY <1>0, Known, WorkFields DEF UploadTypeOK, UnlockUpload, Placed, DavPc
  <1>2. x \in UploadRow /\ SameProgress(x, row[k])
    BY <1>1 DEF UploadRow, SameProgress
  <1>3. row' = [row EXCEPT ![k] = x] /\ UNCHANGED <<place, body, nodes, sweep, timely>>
    BY <1>0 DEF UnlockUpload
  <1>4. /\ work' \in [Connection -> Work] /\ work'[r] = IdleReq
        /\ \A q \in Connection \ {r} : work'[q] = work[q]
    BY <1>1, Defaults DEF UnlockUpload
  <1>5. timely => \A q \in Connection \ {r} : work[q].key = k => ~Holds(work[q])
    <2>1. Holds(work[r])
      BY <1>1 DEF UnlockUpload, Holds, AppendPc
    <2> QED BY <1>0, <2>1 DEF UploadInv, Exclusive, Apart
  <1> HIDE DEF x
  <1>6. row'[k] = x
    BY <1>3 DEF UploadInv, UploadTypeOK
  <1>7. timely => RowSound(k)'
    BY <1>1, <1>2, <1>3, <1>6 DEF RowSound, SameProgress
  <1>8. /\ x.there => row[k].there /\ x.size = row[k].size
        /\ x.offset <= x.size /\ {r} \in SUBSET Connection
    BY <1>1, <1>2 DEF SameProgress
  <1> QED BY <1>2, <1>3, <1>4, <1>5, <1>7, <1>8, Ends, RowStep

\* A free lock is held by nobody, so the one who takes it knows what the row says.
LEMMA Free ==
  ASSUME UploadInv, NEW k \in StagingKey, Lockable(k), timely
  PROVE  \A q \in Connection : work[q].key = k => ~Holds(work[q])
  BY DEF UploadInv, Holders, Held, Lockable

LEMMA AppendLockKeeps ==
  ASSUME UploadInv, NEW r \in Connection, NEW k \in StagingKey, NEW n \in Nat,
         AppendLock(r, k, n)
  PROVE  UploadInv'
  <1> DEFINE x == [row[k] EXCEPT !.locked = TRUE]
             w == work'[r]
  <1>1. /\ row[k] \in UploadRow /\ row[k].offset <= row[k].size /\ (timely => RowSound(k))
        /\ work \in [Connection -> Work] /\ row \in [StagingKey -> UploadRow]
        /\ row[k].there /\ place[k] # "none"
    BY InvParts DEF UploadInv, UploadTypeOK, AppendLock, Lockable, Files, Keyed
  <1>2. x \in UploadRow /\ SameProgress(x, row[k]) /\ x.locked = TRUE
    BY <1>1 DEF UploadRow, SameProgress
  <1>3. row' = [row EXCEPT ![k] = x] /\ UNCHANGED <<place, body, nodes, sweep, timely>>
    BY DEF AppendLock
  <1>4. row[k].size \in Nat /\ row[k].offset \in Nat /\ row[k].hashed \in Hash
        /\ row[k].offset + 1 \in Nat
    BY <1>1 DEF UploadRow
  <1>5. PICK pc \in {"append", "unlock"} :
          work' = [work EXCEPT ![r] =
            [IdleReq EXCEPT !.key = k, !.size = row[k].size, !.pc = pc,
               !.offset = row[k].offset, !.pos = row[k].offset + 1,
               !.hashed = row[k].hashed]]
    <2>1. CASE n = row[k].offset
      BY <2>1 DEF AppendLock
    <2>2. CASE n # row[k].offset
      BY <2>2 DEF AppendLock
    <2> QED BY <2>1, <2>2
  <1>6. w = [IdleReq EXCEPT !.key = k, !.size = row[k].size, !.pc = pc,
               !.offset = row[k].offset, !.pos = row[k].offset + 1,
               !.hashed = row[k].hashed]
    BY <1>1, <1>5
  <1>7. /\ w \in Work /\ w.pc = pc /\ w.kind = "tus" /\ w.key = k
        /\ w.size = row[k].size /\ w.offset = row[k].offset
        /\ w.pos = row[k].offset + 1 /\ w.hashed = row[k].hashed
    BY <1>4, <1>6, Defaults DEF Work, WorkPc, AppendPc
  <1>8. work' \in [Connection -> Work] /\ \A q \in Connection \ {r} : work'[q] = work[q]
    BY <1>1, <1>5, <1>6, <1>7
  <1> HIDE DEF x, w
  <1>9. row'[k] = x
    BY <1>1, <1>3
  <1>10. timely => RowSound(k)'
    BY <1>1, <1>2, <1>3, <1>9 DEF RowSound, SameProgress
  <1>11. ~Alone(w) /\ ~Renamed(w)
    BY <1>7 DEF Alone, Renamed
  <1>12. Placed(work[r])'
    BY <1>1, <1>2, <1>3, <1>4, <1>7, <1>9, <1>11 DEF Placed, w, SameProgress, Renamed
  <1>13. timely => Held(work[r])'
    <2> HAVE timely
    <2>1. HeldAppend(work[r])'
      BY <1>1, <1>2, <1>3, <1>7, <1>9 DEF HeldAppend, w, RowSound, SameProgress
    <2>2. pc \notin {"copy", "commit", "stat", "store", "putfile"}
      OBVIOUS
    <2> QED BY <1>2, <1>7, <1>9, <2>1, <2>2 DEF w, Held, HeldCopy, HeldCommit, HeldStat,
            HeldStore, HeldPut
  <1>14. timely => \A q \in Connection : work[q].key = k => ~Holds(work[q])
    BY Free DEF AppendLock
  <1>15. \A p \in Connection \ {r} : Apart(work[r], work[p])' /\ Apart(work[p], work[r])'
    BY <1>1, <1>3, <1>7, <1>8, <1>11, <1>14, Starts DEF w
  <1>16. /\ x.there => row[k].there /\ x.size = row[k].size
         /\ x.offset <= x.size /\ {r} \in SUBSET Connection
    BY <1>1, <1>2 DEF SameProgress
  <1> QED BY <1>2, <1>3, <1>8, <1>10, <1>11, <1>12, <1>13, <1>14, <1>15, <1>16, RowStep
          DEF w

LEMMA FinishLockKeeps ==
  ASSUME UploadInv, NEW r \in Connection, FinishLock(r) PROVE UploadInv'
  <1>0. PICK k \in StagingKey : k = work[r].key
    BY Known
  <1> DEFINE x == [row[k] EXCEPT !.locked = TRUE]
             v == work[r]
             w == work'[r]
  <1>1. /\ row[k] \in UploadRow /\ row[k].offset <= row[k].size /\ (timely => RowSound(k))
        /\ work \in [Connection -> Work] /\ row \in [StagingKey -> UploadRow]
        /\ row[k].there /\ place[k] # "none" /\ v \in Work
        /\ v.kind = "tus" /\ v.pos >= 1
    BY <1>0, InvParts, Known, WorkFields
       DEF UploadInv, UploadTypeOK, FinishLock, Lockable, Files, Keyed, Placed, DavPc
  <1>2. x \in UploadRow /\ SameProgress(x, row[k]) /\ x.locked = TRUE
    BY <1>1 DEF UploadRow, SameProgress
  <1>3. row' = [row EXCEPT ![k] = x] /\ UNCHANGED <<place, body, nodes, sweep, timely>>
    BY <1>0 DEF FinishLock
  <1>4. row[k].size \in Nat /\ row[k].offset \in Nat /\ row[k].hashed \in Hash
    BY <1>1 DEF UploadRow
  <1>5. PICK pc \in {"stat", "unlock"} :
          /\ work' = [work EXCEPT ![r] =
               [v EXCEPT !.pc = pc, !.size = row[k].size, !.offset = row[k].offset,
                         !.hashed = row[k].hashed]]
          /\ pc = "stat" => row[k].offset = row[k].size
    <2>1. CASE row[k].offset >= row[k].size
      <3>1. row[k].offset = row[k].size
        BY <1>1, <1>4, <2>1
      <3> QED BY <1>0, <2>1, <3>1 DEF FinishLock
    <2>2. CASE ~(row[k].offset >= row[k].size)
      BY <1>0, <2>2 DEF FinishLock
    <2> QED BY <2>1, <2>2
  <1>6. w = [v EXCEPT !.pc = pc, !.size = row[k].size, !.offset = row[k].offset,
                      !.hashed = row[k].hashed]
    BY <1>1, <1>5
  <1>7. /\ w \in Work /\ w.pc = pc /\ w.kind = "tus" /\ w.key = k
        /\ w.size = row[k].size /\ w.offset = row[k].offset
        /\ w.pos = v.pos /\ w.hashed = row[k].hashed
    BY <1>0, <1>1, <1>4, <1>6 DEF Work, WorkPc, AppendPc, FinishPc
  <1>8. work' \in [Connection -> Work] /\ \A q \in Connection \ {r} : work'[q] = work[q]
    BY <1>1, <1>5, <1>6, <1>7
  <1> HIDE DEF x, w
  <1>9. row'[k] = x
    BY <1>1, <1>3
  <1>10. timely => RowSound(k)'
    BY <1>1, <1>2, <1>3, <1>9 DEF RowSound, SameProgress
  <1>11. ~Alone(w) /\ ~Renamed(w)
    BY <1>7 DEF Alone, Renamed
  <1>12. Placed(work[r])'
    BY <1>1, <1>2, <1>3, <1>4, <1>7, <1>9, <1>11 DEF Placed, w, SameProgress, Renamed
  <1>13. timely => Held(work[r])'
    <2> HAVE timely
    <2>1. HeldStat(work[r])'
      BY <1>1, <1>2, <1>3, <1>5, <1>7, <1>9 DEF HeldStat, w, RowSound, SameProgress, Solid
    <2>2. pc \notin {"append", "copy", "commit", "store", "putfile"}
      OBVIOUS
    <2> QED BY <1>2, <1>7, <1>9, <2>1, <2>2 DEF w, Held, HeldAppend, HeldCopy, HeldCommit,
            HeldStore, HeldPut
  <1>14. timely => \A q \in Connection : work[q].key = k => ~Holds(work[q])
    BY <1>0, Free DEF FinishLock
  <1>15. \A p \in Connection \ {r} : Apart(work[r], work[p])' /\ Apart(work[p], work[r])'
    BY <1>1, <1>3, <1>7, <1>8, <1>11, <1>14, Starts DEF w
  <1>16. /\ x.there => row[k].there /\ x.size = row[k].size
         /\ x.offset <= x.size /\ {r} \in SUBSET Connection
    BY <1>1, <1>2 DEF SameProgress
  <1> QED BY <1>2, <1>3, <1>8, <1>10, <1>11, <1>12, <1>13, <1>14, <1>15, <1>16, RowStep
          DEF w

\* A request at rest, or about to finish, claims nothing.
LEMMA Unpretending ==
  ASSUME UploadInv, timely' = timely, NEW r \in Connection, work'[r] \in Work,
         \A q \in Connection \ {r} : work'[q] = work[q],
         work'[r].pc = "finish", work'[r].kind = "tus", work'[r].pos >= 1,
         work'[r].key = work[r].key, work[r].pc # "idle", UNCHANGED place
  PROVE  /\ Placed(work[r])' /\ Held(work[r])' /\ ~Renamed(work'[r])
         /\ \A p \in Connection \ {r} : Apart(work[r], work[p])' /\ Apart(work[p], work[r])'
  <1>1. ~Alone(work'[r]) /\ ~Renamed(work'[r]) /\ ~Holds(work'[r])
    BY DEF Alone, Renamed, Holds, AppendPc, FinishPc
  <1>2. Placed(work[r])' /\ Held(work[r])'
    BY <1>1, Known DEF Placed, Held
  <1> QED BY <1>1, <1>2, Onward

LEMMA AppendCommitKeeps ==
  ASSUME UploadInv, NEW r \in Connection, AppendCommit(r) PROVE UploadInv'
  <1>0. PICK k \in StagingKey : k = work[r].key
    BY Known
  <1> DEFINE w == work[r]
             x == IF row[k].there THEN Progressed(row[k], w.offset, w.hashed) ELSE row[k]
  <1>1. /\ row[k] \in UploadRow /\ row[k].offset <= row[k].size /\ (timely => RowSound(k))
        /\ work \in [Connection -> Work] /\ row \in [StagingKey -> UploadRow]
        /\ w \in Work /\ w.kind = "tus" /\ w.offset \in Nat /\ w.hashed \in Hash
        /\ Placed(w) /\ (timely => Held(w)) /\ w.pc = "commit"
    BY <1>0, Known, WorkFields DEF UploadTypeOK, AppendCommit, Placed, DavPc
  <1>2. Holds(w)
    BY <1>1 DEF Holds, AppendPc
  <1>3. x \in UploadRow /\ x.there = row[k].there /\ x.size = row[k].size /\ x.offset <= x.size
    <2>1. CASE row[k].there
      BY <1>0, <1>1, <1>2, <2>1, ProgressedRow DEF Placed
    <2>2. CASE ~row[k].there
      BY <1>1, <2>2
    <2> QED BY <2>1, <2>2
  <1>4. row[k].there => x.offset = w.offset /\ x.hashed = w.hashed
    BY <1>1, ProgressedRow
  <1>5. row' = [row EXCEPT ![k] = x] /\ UNCHANGED <<place, body, nodes, sweep, timely>>
    BY <1>0 DEF AppendCommit
  <1> HIDE DEF x
  <1>6. row'[k] = x
    BY <1>1, <1>5
  <1>7. timely => RowSound(k)'
    <2> HAVE timely
    <2>1. HeldCommit(w)
      BY <1>1, <1>2 DEF Held
    <2> QED BY <1>0, <1>1, <1>3, <1>4, <1>5, <1>6, <2>1 DEF HeldCommit, RowSound
  <1>8. timely => \A q \in Connection \ {r} : work[q].key = k => ~Holds(work[q])
    BY <1>0, <1>2 DEF UploadInv, Exclusive, Apart
  <1>9. /\ work' \in [Connection -> Work]
        /\ \A q \in Connection \ {r} : work'[q] = work[q]
        /\ Placed(work[r])' /\ Held(work[r])' /\ ~Renamed(work'[r])
        /\ \A p \in Connection \ {r} : Apart(work[r], work[p])' /\ Apart(work[p], work[r])'
    <2>1. CASE w.offset >= w.size
      <3> DEFINE f == [IdleReq EXCEPT !.pc = "finish", !.key = k]
      <3>1. f \in Work /\ f.pc = "finish" /\ f.kind = "tus" /\ f.key = k /\ f.pos = 1
        BY Defaults DEF Work, WorkPc
      <3>2. work' = [work EXCEPT ![r] = f]
        BY <1>0, <2>1 DEF AppendCommit
      <3> HIDE DEF f
      <3>3. work'[r] = f /\ \A q \in Connection \ {r} : work'[q] = work[q]
        BY <1>1, <3>2
      <3>4. work'[r] \in Work
        BY <3>1, <3>3
      <3> QED BY <1>0, <1>1, <1>5, <3>1, <3>2, <3>3, <3>4, Unpretending
    <2>2. CASE ~(w.offset >= w.size)
      <3>1. work' = [work EXCEPT ![r] = IdleReq]
        BY <2>2 DEF AppendCommit
      <3> QED BY <1>1, <3>1, Defaults, Ends
    <2> QED BY <2>1, <2>2
  <1>10. {r} \in SUBSET Connection
    OBVIOUS
  <1> QED BY <1>3, <1>5, <1>7, <1>8, <1>9, <1>10, RowStep

\* The row of a new session: nobody else has heard of its key.
LEMMA CreateRowKeeps ==
  ASSUME UploadInv, NEW r \in Connection, CreateRow(r) PROVE UploadInv'
  <1>0. PICK k \in StagingKey : k = work[r].key
    BY Known
  <1> DEFINE x == [NoSession EXCEPT !.there = TRUE, !.size = work[r].size]
  <1>1. /\ work[r] \in Work /\ work[r].pc = "create" /\ work[r].size \in Nat
        /\ place[k] # "none" /\ Alone(work[r]) /\ Keyed(k) /\ UploadTypeOK
    BY <1>0, Known, WorkFields DEF CreateRow, Placed, Alone
  <1>2. x \in UploadRow /\ x.there = TRUE /\ x.size = work[r].size
        /\ x.offset = 0 /\ x.hashed = 0
    BY <1>1, NewRow
  <1>3. /\ row' = [row EXCEPT ![k] = x] /\ work' = [work EXCEPT ![r] = IdleReq]
        /\ UNCHANGED <<place, body, nodes, sweep, timely>>
    BY <1>0 DEF CreateRow
  <1> HIDE DEF x
  <1>4. row'[k] = x /\ \A j \in StagingKey \ {k} : row'[j] = row[j]
    BY <1>1, <1>3 DEF UploadTypeOK
  <1>5. work'[r] = IdleReq /\ \A q \in Connection \ {r} : work'[q] = work[q]
    BY <1>1, <1>3 DEF UploadTypeOK
  <1>6. UploadTypeOK'
    BY <1>1, <1>2, <1>3, <1>4, Defaults DEF UploadTypeOK
  <1>7. Keyed(k)'
    BY <1>1, <1>3 DEF Keyed
  <1>8. RowSound(k)'
    BY <1>1, <1>2, <1>3, <1>4 DEF RowSound, Solid, UploadTypeOK, Body
  <1>9. \A q \in Connection \ {r} : work[q].key = k => work[q].pc = "idle"
    BY <1>0, <1>1 DEF UploadInv, Exclusive, Apart
  <1>10. \A q \in Connection \ {r} : work[q].key = k =>
           Placed(work[q])' /\ (timely => Held(work[q])')
    <2> SUFFICES ASSUME NEW q \in Connection \ {r}, work[q].key = k
                 PROVE  Placed(work[q])' /\ Held(work[q])'
      OBVIOUS
    <2>1. work[q].pc = "idle" /\ Placed(work[q])
      BY <1>9, Known
    <2>2. ~Alone(work[q]) /\ ~Holds(work[q]) /\ ~Renamed(work[q])
      BY <2>1 DEF Alone, Holds, Renamed, Placed, DavPc, AppendPc, FinishPc
    <2> QED BY <1>5, <2>1, <2>2 DEF Placed, Held
  <1>11. \A n \in nodes : n.key = k /\ ~n.chunked => place'[k] = "blob" /\ body'[k] = body[k]
    BY <1>3, InvParts DEF NodeSound
  <1>12. {r} \in SUBSET Connection
    OBVIOUS
  <1> QED BY <1>3, <1>4, <1>5, <1>6, <1>7, <1>8, <1>10, <1>11, <1>12, Ends, Frame

-----------------------------------------------------------------------------
(* Bytes                                                                   *)

\* A request that writes the file of its key: it is the only one there that holds
\* the lock, or the only one at all, and the file is not a recorded blob.
LEMMA WriteStep ==
  ASSUME UploadInv, UNCHANGED <<place, row, nodes, sweep, timely>>,
         NEW r \in Connection, NEW k \in StagingKey, work[r].key = k,
         NEW b \in Body, body' = [body EXCEPT ![k] = b], b.zeros \subseteq 1..b.len,
         work' \in [Connection -> Work],
         \A q \in Connection \ {r} : work'[q] = work[q],
         Holds(work[r]) \/ Alone(work[r]), work[r].pc # "idle",
         timely => place[k] # "blob",
         work'[r].key = k, work'[r].kind = work[r].kind,
         Alone(work'[r]) => Alone(work[r]),
         ~Renamed(work'[r]), Holds(work'[r]) => Holds(work[r]),
         timely => RowSound(k)',
         Placed(work[r])', timely => Held(work[r])'
  PROVE  UploadInv'
  <1>1. body'[k] = b /\ \A j \in StagingKey \ {k} : body'[j] = body[j]
    BY DEF UploadInv, UploadTypeOK
  <1>2. UploadTypeOK'
    BY DEF UploadInv, UploadTypeOK
  <1>3. Keyed(k)'
    BY <1>1 DEF UploadInv, Files, Keyed
  <1>4. \A q \in Connection \ {r} : work[q].key = k => (timely => ~Holds(work[q]))
    <2>1. CASE Holds(work[r])
      BY <2>1 DEF UploadInv, Exclusive, Apart
    <2>2. CASE Alone(work[r])
      BY <2>2 DEF UploadInv, Exclusive, Apart, Holds, AppendPc, FinishPc
    <2> QED BY <2>1, <2>2
  <1>5. \A q \in Connection \ {r} : work[q].key = k =>
          Placed(work[q])' /\ (timely => Held(work[q])')
    BY <1>1, <1>4, Outsider
  <1>6. \A n \in nodes : n.key = k /\ ~n.chunked =>
          place'[k] = "blob" /\ (timely => body'[k] = body[k])
    BY InvParts DEF NodeSound
  <1>7. \A p \in Connection \ {r} : Apart(work[r], work[p])' /\ Apart(work[p], work[r])'
    BY Onward
  <1>8. {r} \in SUBSET Connection
    OBVIOUS
  <1> QED BY <1>1, <1>2, <1>3, <1>5, <1>6, <1>7, <1>8, Frame

\* AppendPartial cuts the file at the recorded offset, up to which it is solid.
LEMMA AppendOpenKeeps ==
  ASSUME UploadInv, NEW r \in Connection, AppendOpen(r), place[work[r].key] = "staging"
  PROVE  UploadInv'
  <1>0. PICK k \in StagingKey : k = work[r].key
    BY Known
  <1> DEFINE w == work[r]
             v == work'[r]
             b == Truncated(body[k], w.offset)
  <1>1. /\ work \in [Connection -> Work] /\ body \in [StagingKey -> Body]
        /\ w \in Work /\ w.pc = "append" /\ w.kind = "tus" /\ w.offset \in Nat /\ w.size \in Nat
        /\ Placed(w) /\ (timely => Held(w)) /\ body[k] \in Body
        /\ body[k].zeros \subseteq 1..body[k].len
        /\ (timely => RowSound(k)) /\ row[k] \in UploadRow
    BY <1>0, Known, WorkFields DEF UploadTypeOK, AppendOpen, Placed, DavPc, Keyed
  <1>2. Holds(w)
    BY <1>1 DEF Holds, AppendPc
  <1>3. b \in Body /\ b.zeros \subseteq 1..b.len /\ b.len = w.offset
    BY <1>1, TruncatedBody, CutInside
  <1>4. /\ body' = [body EXCEPT ![k] = b] /\ work' = [work EXCEPT ![r] = [w EXCEPT !.pc = "copy"]]
        /\ UNCHANGED <<place, row, nodes, sweep, timely>>
    BY <1>0, <1>1 DEF AppendOpen
  <1>5. v = [w EXCEPT !.pc = "copy"]
    BY <1>1, <1>4
  <1>6. v \in Work /\ v.pc = "copy" /\ Carried(v, w)
    BY <1>1, <1>5 DEF Work, WorkPc, AppendPc, Carried, Sized, Kept
  <1>7. timely => b = [len |-> w.offset, zeros |-> {}]
    <2> HAVE timely
    <2>1. Solid(body[k], w.offset)
      BY <1>0, <1>1, <1>2 DEF Held, HeldAppend
    <2> QED BY <1>1, <2>1, CutSolid
  <1>8. work' \in [Connection -> Work] /\ \A q \in Connection \ {r} : work'[q] = work[q]
    BY <1>1, <1>4, <1>5, <1>6
  <1> HIDE DEF v, b, w
  <1>9. body'[k] = b
    BY <1>1, <1>4
  <1>10. ~Renamed(v) /\ Holds(v) /\ ~Alone(v)
    BY <1>1, <1>2, <1>6 DEF Renamed, Holds, Alone, Carried, Sized, Kept, AppendPc
  <1>11. timely => RowSound(k)'
    <2> HAVE timely
    <2>1. row[k].there => row[k].offset = w.offset
      BY <1>0, <1>1, <1>2 DEF Held, HeldAppend, w
    <2> QED BY <1>1, <1>4, <1>7, <1>9, <2>1 DEF RowSound, Solid
  <1>12. Placed(work[r])'
    BY <1>0, <1>1, <1>2, <1>4, <1>6, <1>10 DEF Placed, v, w, Carried, Sized, Kept
  <1>13. timely => Held(work[r])'
    <2> HAVE timely
    <2>1. HeldAppend(w) /\ (row[w.key].there => row[w.key].locked)
      BY <1>1, <1>2 DEF Held
    <2>2. w.pos - 1 = w.offset
      BY <1>1, <2>1 DEF HeldAppend
    <2>3. /\ v.key = k /\ v.pos - 1 = w.offset /\ v.hashed = w.offset /\ v.offset = w.offset
          /\ row[k].there => row[k].offset = w.offset
      BY <1>0, <1>1, <1>6, <2>1, <2>2 DEF HeldAppend, w, Carried, Sized, Kept
    <2>4. /\ place'[k] # "blob" /\ body'[k] = [len |-> v.pos - 1, zeros |-> {}]
          /\ row'[k].there => row'[k].offset = v.offset
      BY <1>0, <1>4, <1>7, <1>9, <2>3 DEF w
    <2>5. HeldCopy(work[r])'
      BY <1>1, <2>3, <2>4 DEF HeldCopy, v
    <2> QED BY <1>4, <1>6, <2>1, <2>5 DEF Held, HeldAppend, HeldCommit, HeldStat, HeldStore,
            HeldPut, v, w, Carried, Sized, Kept
  <1>14. work[r].pc # "idle" /\ place[k] # "blob"
    BY <1>0, <1>1 DEF w
  <1> QED BY <1>0, <1>2, <1>3, <1>4, <1>6, <1>8, <1>10, <1>11, <1>12, <1>13, <1>14, WriteStep
          DEF v, w, Carried, Sized, Kept

\* A unit that arrives lengthens the file by one, and the digest with it.
LEMMA AppendCopyKeeps ==
  ASSUME UploadInv, NEW r \in Connection, AppendCopy(r) PROVE UploadInv'
  <1>0. PICK k \in StagingKey : k = work[r].key
    BY Known
  <1> DEFINE w == work[r]
             v == work'[r]
             b == WrittenAt(body[k], w.pos)
             h == HashedWith(w.hashed, w.pos)
  <1>1. /\ work \in [Connection -> Work] /\ body \in [StagingKey -> Body]
        /\ w \in Work /\ w.pc = "copy" /\ w.kind = "tus" /\ w.pos \in Nat /\ w.pos >= 1
        /\ w.offset \in Nat
        /\ Placed(w) /\ (timely => Held(w)) /\ body[k] \in Body
        /\ body[k].zeros \subseteq 1..body[k].len
        /\ (timely => RowSound(k)) /\ row[k] \in UploadRow
    BY <1>0, Known, WorkFields DEF UploadTypeOK, AppendCopy, Placed, DavPc, Keyed
  <1>2. Holds(w)
    BY <1>1 DEF Holds, AppendPc
  <1>3. b \in Body /\ b.zeros \subseteq 1..b.len
    BY <1>1, WrittenBody, GrownInside
  <1>4. h \in Hash /\ w.pos + 1 \in Nat
    BY <1>1 DEF HashedWith, Hash, Work
  <1>5. /\ body' = [body EXCEPT ![k] = b]
        /\ work' = [work EXCEPT ![r] = [w EXCEPT !.pos = w.pos + 1, !.hashed = h]]
        /\ UNCHANGED <<place, row, nodes, sweep, timely>>
    BY <1>0, <1>1 DEF AppendCopy
  <1>6. v = [w EXCEPT !.pos = w.pos + 1, !.hashed = h]
    BY <1>1, <1>5
  <1> HIDE DEF h
  <1>7. v \in Work /\ v.pc = "copy" /\ Sized(v, w) /\ v.pos = w.pos + 1 /\ v.hashed = h
    BY <1>1, <1>4, <1>6 DEF Work, Sized, Kept
  <1>8. work' \in [Connection -> Work] /\ \A q \in Connection \ {r} : work'[q] = work[q]
    BY <1>1, <1>5, <1>6, <1>7
  <1>9. timely => /\ b = [len |-> w.pos, zeros |-> {}] /\ h = w.pos
                  /\ place[k] # "blob" /\ w.offset <= w.pos
                  /\ row[k].there => row[k].offset = w.offset /\ row[k].locked
    <2> HAVE timely
    <2>1. HeldCopy(w) /\ (row[k].there => row[k].locked)
      BY <1>0, <1>1, <1>2 DEF Held
    <2>2. body[k] = [len |-> w.pos - 1, zeros |-> {}] /\ w.hashed = w.pos - 1
      BY <1>0, <1>1, <2>1 DEF HeldCopy
    <2> QED BY <1>0, <1>1, <2>1, <2>2, GrownSolid DEF HeldCopy, HashedWith, h
  <1> HIDE DEF v, b, w
  <1>10. body'[k] = b
    BY <1>1, <1>5
  <1>11. ~Renamed(v) /\ Holds(v) /\ ~Alone(v)
    BY <1>1, <1>2, <1>7 DEF Renamed, Holds, Alone, Sized, Kept
  <1>12. timely => RowSound(k)'
    BY <1>1, <1>5, <1>9, <1>10 DEF RowSound, Solid
  <1>13. Placed(work[r])'
    BY <1>0, <1>1, <1>2, <1>5, <1>7, <1>11 DEF Placed, v, w, Sized, Kept
  <1>14. timely => Held(work[r])'
    <2> HAVE timely
    <2>1. /\ v.key = k /\ v.pos - 1 = w.pos /\ v.hashed = w.pos /\ v.offset = w.offset
      BY <1>0, <1>1, <1>7, <1>9 DEF w, Sized, Kept
    <2>2. /\ place'[k] # "blob" /\ body'[k] = [len |-> v.pos - 1, zeros |-> {}]
          /\ row'[k].there => row'[k].offset = v.offset /\ row'[k].locked
      BY <1>5, <1>9, <1>10, <2>1
    <2>3. HeldCopy(work[r])'
      BY <1>1, <1>9, <2>1, <2>2 DEF HeldCopy, v
    <2> QED BY <1>7, <2>1, <2>2, <2>3 DEF Held, HeldAppend, HeldCommit, HeldStat, HeldStore,
            HeldPut, v
  <1>15. work[r].pc # "idle" /\ (timely => place[k] # "blob")
    BY <1>1, <1>9 DEF w
  <1> QED BY <1>0, <1>2, <1>3, <1>5, <1>7, <1>8, <1>11, <1>12, <1>13, <1>14, <1>15, WriteStep
          DEF v, w, Sized, Kept

\* A WebDAV PUT writes a file that no session knows.
LEMMA DavWriteKeeps ==
  ASSUME UploadInv, NEW r \in Connection, DavWrite(r) PROVE UploadInv'
  <1>0. PICK k \in StagingKey : k = work[r].key
    BY Known
  <1> DEFINE w == work[r]
             v == work'[r]
             c == Truncated(body[k], w.size)
             b == WrittenAt(c, w.pos)
             h == HashedWith(w.hashed, w.pos)
  <1>1. /\ work \in [Connection -> Work] /\ body \in [StagingKey -> Body]
        /\ w \in Work /\ w.pc = "dav" /\ w.kind = "dav" /\ w.pos \in Nat /\ w.pos >= 1
        /\ w.size \in Nat /\ Placed(w) /\ body[k] \in Body
        /\ body[k].zeros \subseteq 1..body[k].len /\ place[k] = "staging"
    BY <1>0, Known, WorkFields DEF UploadTypeOK, DavWrite, Placed, Keyed
  <1>2. Alone(w) /\ ~row[k].there
    BY <1>0, <1>1 DEF Alone, Placed
  <1>3. b \in Body /\ b.zeros \subseteq 1..b.len
    BY <1>1, TruncatedBody, CutInside, WrittenBody, GrownInside
  <1>4. h \in Hash /\ w.pos + 1 \in Nat /\ w.size + 1 \in Nat
    BY <1>1 DEF HashedWith, Hash, Work
  <1>5. /\ body' = [body EXCEPT ![k] = b]
        /\ work' = [work EXCEPT ![r] = [w EXCEPT !.pos = w.pos + 1, !.size = w.size + 1,
                                                !.hashed = h]]
        /\ UNCHANGED <<place, row, nodes, sweep, timely>>
    BY <1>0, <1>1 DEF DavWrite
  <1>6. v = [w EXCEPT !.pos = w.pos + 1, !.size = w.size + 1, !.hashed = h]
    BY <1>1, <1>5
  <1> HIDE DEF h
  <1>7. v \in Work /\ v.pc = "dav" /\ Kept(v, w) /\ v.pos = w.pos + 1
    BY <1>1, <1>4, <1>6 DEF Work, Kept
  <1>8. work' \in [Connection -> Work] /\ \A q \in Connection \ {r} : work'[q] = work[q]
    BY <1>1, <1>5, <1>6, <1>7
  <1> HIDE DEF v, b, w
  <1>11. ~Renamed(v) /\ ~Holds(v) /\ Alone(v)
    BY <1>1, <1>7 DEF Renamed, Holds, Alone, Kept
  <1>12. RowSound(k)'
    BY <1>2, <1>5 DEF RowSound
  <1>13. Placed(work[r])'
    BY <1>0, <1>1, <1>2, <1>5, <1>7, <1>11 DEF Placed, v, w, Kept, DavPc
  <1>14. Held(work[r])'
    BY <1>11 DEF Held, Holds, v
  <1>15. work[r].pc # "idle" /\ place[k] # "blob"
    BY <1>1 DEF w
  <1> QED BY <1>0, <1>1, <1>2, <1>3, <1>5, <1>7, <1>8, <1>11, <1>12, <1>13, <1>14, <1>15, WriteStep
          DEF v, w, Kept

-----------------------------------------------------------------------------
(* The content is stored and recorded                                      *)

LEMMA FinishStoreKeeps ==
  ASSUME UploadInv, NEW r \in Connection, FinishStore(r) PROVE UploadInv'
  <1>0. PICK k \in StagingKey : k = work[r].key
    BY Known
  <1> DEFINE w == work[r]
             v == work'[r]
             p == IF Chunks(w.size) THEN place[k] ELSE "blob"
  <1>1. /\ work \in [Connection -> Work] /\ place \in [StagingKey -> {"none", "staging", "blob", "gone"}]
        /\ w \in Work /\ w.pc = "store" /\ w.kind \in {"tus", "dav"}
        /\ Placed(w) /\ (timely => Held(w)) /\ body[k] \in Body /\ Keyed(k)
        /\ (timely => RowSound(k)) /\ place[k] = "staging" /\ UploadTypeOK
    BY <1>0, Known, WorkFields DEF UploadTypeOK, FinishStore
  <1>2. Holds(w) \/ Alone(w)
    BY <1>1 DEF Holds, Alone, FinishPc
  <1>3. /\ place' = [place EXCEPT ![k] = p]
        /\ work' = [work EXCEPT ![r] = [w EXCEPT !.pc = "putfile", !.body = body[k]]]
        /\ UNCHANGED <<body, row, nodes, sweep, timely>>
    BY <1>0, <1>1 DEF FinishStore
  <1>4. v = [w EXCEPT !.pc = "putfile", !.body = body[k]]
    BY <1>1, <1>3
  <1>5. v \in Work /\ v.pc = "putfile" /\ Carried(v, w) /\ v.body = body[k]
    BY <1>1, <1>4 DEF Work, WorkPc, FinishPc, Carried, Sized, Kept
  <1>6. work' \in [Connection -> Work] /\ \A q \in Connection \ {r} : work'[q] = work[q]
    BY <1>1, <1>3, <1>4, <1>5
  <1>7. p \in {"staging", "blob"} /\ (~Chunks(w.size) => p = "blob")
    BY <1>1
  <1> HIDE DEF v, w, p
  <1>8. place'[k] = p /\ \A j \in StagingKey \ {k} : place'[j] = place[j]
    BY <1>1, <1>3
  <1>9. UploadTypeOK'
    BY <1>1, <1>3, <1>6, <1>7, <1>8 DEF UploadTypeOK
  <1>10. (Holds(v) => Holds(w)) /\ (Alone(v) => Alone(w)) /\ (Renamed(v) => ~Chunks(w.size))
    BY <1>1, <1>5 DEF Renamed, Holds, Alone, Carried, Sized, Kept, FinishPc
  <1>11. Keyed(k)' /\ (timely => RowSound(k)')
    BY <1>1, <1>3, <1>7, <1>8 DEF Keyed, RowSound
  <1>12. \A q \in Connection : work[q].key = k => ~Renamed(work[q])
    BY <1>1, Known DEF Placed
  <1>13. \A q \in Connection \ {r} : work[q].key = k => (timely => ~Holds(work[q]))
    <2>1. CASE Holds(w)
      BY <1>0, <2>1 DEF UploadInv, Exclusive, Apart, w
    <2>2. CASE Alone(w)
      BY <1>0, <2>2 DEF UploadInv, Exclusive, Apart, Holds, AppendPc, FinishPc, w
    <2> QED BY <1>2, <2>1, <2>2
  <1>14. \A q \in Connection \ {r} : work[q].key = k =>
           Placed(work[q])' /\ (timely => Held(work[q])')
    BY <1>3, <1>6, <1>7, <1>8, <1>12, <1>13, Outsider
  <1>15. Placed(work[r])'
    BY <1>0, <1>1, <1>3, <1>5, <1>7, <1>8, <1>10
       DEF Placed, v, w, Carried, Sized, Kept, DavPc
  <1>16. timely => Held(work[r])'
    <2> HAVE timely
    <2> SUFFICES ASSUME Holds(v) PROVE Held(work[r])'
      BY DEF Held, v
    <2>1. HeldStore(w) /\ (row[w.key].there => row[w.key].locked)
      BY <1>1, <1>10 DEF Held
    <2>2. HeldPut(work[r])'
      BY <1>0, <1>1, <1>3, <1>5, <2>1 DEF HeldPut, HeldStore, v, w, Carried, Sized, Kept
    <2> QED BY <1>3, <1>5, <2>1, <2>2 DEF Held, HeldAppend, HeldCopy, HeldCommit, HeldStat,
            HeldStore, v, w, Carried, Sized, Kept
  <1>17. \A q \in Connection \ {r} : Apart(work[r], work[q])' /\ Apart(work[q], work[r])'
    <2>1. v.key = k /\ w.key = k /\ w.pc # "idle"
      BY <1>0, <1>1, <1>5 DEF w, Carried, Sized, Kept
    <2> QED BY <1>3, <1>6, <1>10, <1>12, <2>1 DEF UploadInv, Exclusive, Apart, v, w
  <1>18. \A n \in nodes : n.key = k => n.chunked
    BY <1>1, InvParts DEF NodeSound
  <1>19. v.key = k /\ {r} \in SUBSET Connection
    BY <1>0, <1>5 DEF w, Carried, Sized, Kept
  <1> QED BY <1>3, <1>6, <1>8, <1>9, <1>11, <1>14, <1>15, <1>16, <1>17, <1>18, <1>19, Frame
          DEF v

\* The file that PutFile records is the one the request has stored.
LEMMA FinishPutKeeps ==
  ASSUME UploadInv, NEW r \in Connection, FinishPut(r) PROVE UploadInv'
  <1>0. PICK k \in StagingKey : k = work[r].key
    BY Known
  <1>00. PICK pc \in {"remove", "delete"} :
           pc = IF Chunks(work[r].size) THEN "remove" ELSE "delete"
    OBVIOUS
  <1> DEFINE w == work[r]
             v == work'[r]
  <1>01. PICK m :
           m = [key |-> w.key, kind |-> w.kind,
                want |-> IF w.kind = "tus" THEN w.size ELSE w.offset,
                chunked |-> Chunks(w.size), body |-> w.body, sha |-> w.hashed]
    OBVIOUS
  <1>1. /\ work \in [Connection -> Work] /\ w \in Work /\ w.pc = "putfile"
        /\ w.kind \in {"tus", "dav"} /\ w.size \in Nat /\ w.offset \in Nat
        /\ w.hashed \in Hash /\ w.body \in Body
        /\ Placed(w) /\ (timely => Held(w)) /\ UploadTypeOK
    BY Known, WorkFields DEF UploadTypeOK, FinishPut
  <1>2. /\ work' = [work EXCEPT ![r] = [w EXCEPT !.pc = pc]] /\ nodes' = nodes \cup {m}
        /\ UNCHANGED <<place, body, row, sweep, timely>>
    BY <1>00, <1>01 DEF FinishPut
  <1>3. v = [w EXCEPT !.pc = pc]
    BY <1>1, <1>2
  <1>4. v \in Work /\ v.pc = pc /\ Carried(v, w)
    BY <1>1, <1>3 DEF Work, WorkPc, FinishPc, Carried, Sized, Kept
  <1>5. work' \in [Connection -> Work] /\ \A q \in Connection \ {r} : work'[q] = work[q]
    BY <1>1, <1>2, <1>3, <1>4
  <1>6. /\ m \in FileRow /\ m.key = k /\ m.kind = w.kind /\ m.chunked = Chunks(w.size)
        /\ m.body = w.body /\ m.sha = w.hashed
        /\ m.kind = "tus" => m.want = w.size
    BY <1>0, <1>01, <1>1, SizesAssumption DEF FileRow, Chunks
  <1>7. UploadTypeOK'
    BY <1>1, <1>2, <1>5, <1>6 DEF UploadTypeOK
  <1> HIDE DEF v, w
  <1>8. (Holds(v) => Holds(w)) /\ (Alone(v) => Alone(w)) /\ ~Renamed(v)
    BY <1>1, <1>4 DEF Renamed, Holds, Alone, Carried, Sized, Kept, FinishPc
  <1>9. \A q \in Connection \ {r} : Placed(work[q])' /\ (timely => Held(work[q])')
    <2> SUFFICES ASSUME NEW q \in Connection \ {r}
                 PROVE  Placed(work[q])' /\ (timely => Held(work[q])')
      OBVIOUS
    <2>1. work[q].key \in StagingKey
      BY Known
    <2> QED BY <1>2, <1>5, <2>1, Bystander
  <1>10. Placed(work[r])'
    BY <1>1, <1>2, <1>4, <1>8 DEF Placed, v, w, Carried, Sized, Kept, DavPc
  <1>11. timely => Held(work[r])'
    BY <1>1, <1>2, <1>4, <1>8 DEF Held, HeldAppend, HeldCopy, HeldCommit, HeldStat,
       HeldStore, HeldPut, v, w, Carried, Sized, Kept
  <1>12. Requests' /\ Holders'
    BY <1>2, <1>9, <1>10, <1>11 DEF Requests, Holders
  <1>13. Exclusive'
    <2>1. \A p \in Connection \ {r} : Apart(work[r], work[p])' /\ Apart(work[p], work[r])'
      BY <1>1, <1>2, <1>4, <1>5, <1>8, Onward DEF v, w, Carried, Sized, Kept
    <2> QED BY <1>2, <1>5, <2>1 DEF UploadInv, Exclusive, Apart
  <1>14. Files'
    BY <1>2 DEF UploadInv, Files, Keyed
  <1>15. Unrecorded'
    <2>1. ~Chunks(w.size) => Renamed(w)
      BY <1>1 DEF Renamed
    <2>2. \A q \in Connection \ {r} : Renamed(work[q]) /\ work[q].key = k => Chunks(w.size)
      BY <1>0, <2>1 DEF UploadInv, Exclusive, Apart, w
    <2> QED BY <1>2, <1>5, <1>6, <1>8, <2>2 DEF UploadInv, Unrecorded, v
  <1>16. (timely => \A j \in StagingKey : RowSound(j))'
    BY <1>2, InvParts DEF RowSound
  <1>17. NodeSound(m)'
    <2>1. Chunks(w.size) \/ place[k] = "blob"
      BY <1>0, <1>1 DEF Placed, Renamed, w
    <2>2. ASSUME timely, w.kind = "tus"
          PROVE  /\ w.body = [len |-> w.size, zeros |-> {}] /\ w.hashed = w.size
                 /\ ~Chunks(w.size) => body[k] = w.body
      BY <1>0, <1>1, <2>2 DEF Held, HeldPut, Holds, FinishPc, w
    <2> QED BY <1>2, <1>6, <2>1, <2>2 DEF NodeSound, ContentOf
  <1>18. (\A n \in nodes : NodeSound(n))'
    <2>1. \A n \in nodes : NodeSound(n)'
      BY <1>2, InvParts DEF NodeSound, ContentOf
    <2> QED BY <1>2, <1>17, <2>1
  <1>19. (/\ HashDescribesBytes /\ ProgressDurable /\ ContentIntact /\ BlobStays)'
    BY <1>16, <1>18 DEF HashDescribesBytes, ProgressDurable, ContentIntact, BlobStays,
       RowSound, NodeSound, Solid
  <1> QED BY <1>7, <1>12, <1>13, <1>14, <1>15, <1>19 DEF UploadInv

-----------------------------------------------------------------------------
(* A new staging file                                                      *)

LEMMA BeginKeeps ==
  ASSUME UploadInv, NEW r \in Connection, NEW k \in StagingKey, NEW n \in Nat,
         CreateFile(r, k, n) \/ DavOpen(r, k, n)
  PROVE  UploadInv'
  <1> DEFINE c == [IdleReq EXCEPT !.pc = "create", !.key = k, !.size = n]
             d == [IdleReq EXCEPT !.pc = "dav", !.kind = "dav", !.key = k, !.offset = n]
             v == work'[r]
  <1>1. c \in Work /\ c.pc = "create" /\ c.kind = "tus" /\ c.key = k /\ c.pos = 1
    BY Defaults DEF Work, WorkPc
  <1>2. d \in Work /\ d.pc = "dav" /\ d.kind = "dav" /\ d.key = k /\ d.pos = 1
    BY Defaults DEF Work, WorkPc
  <1>3. PICK x \in {c, d} : work' = [work EXCEPT ![r] = x]
    BY DEF CreateFile, DavOpen
  <1> HIDE DEF c, d
  <1>4. /\ place[k] = "none" /\ place' = [place EXCEPT ![k] = "staging"]
        /\ UNCHANGED <<body, row, nodes, sweep, timely>>
    BY DEF CreateFile, DavOpen, CreatePartial
  <1>5. UploadTypeOK'
    BY <1>1, <1>2, <1>3, <1>4 DEF UploadInv, UploadTypeOK
  <1>6. v = x /\ \A q \in Connection \ {r} : work'[q] = work[q]
    BY <1>3 DEF UploadInv, UploadTypeOK
  <1>7. /\ v.key = k /\ v.pos = 1
        /\ v.pc \in {"create", "dav"} /\ (v.pc = "dav" <=> v.kind = "dav")
    BY <1>1, <1>2, <1>6
  <1>8. place'[k] = "staging" /\ \A j \in StagingKey \ {k} : place'[j] = place[j]
    BY <1>4 DEF UploadInv, UploadTypeOK
  <1>9. ~row[k].there /\ Keyed(k)
    BY <1>4 DEF UploadInv, Files, Keyed
  <1> HIDE DEF v
  <1>10. ~Renamed(v) /\ ~Holds(v)
    BY <1>7 DEF Renamed, Holds, AppendPc, FinishPc
  <1>11. \A q \in Connection : work[q].key = k => work[q].pc = "idle"
    BY <1>4 DEF UploadInv, Requests, Placed
  <1>12. Keyed(k)' /\ RowSound(k)'
    BY <1>4, <1>8, <1>9 DEF Keyed, RowSound
  <1>13. Placed(work[r])' /\ Held(work[r])'
    BY <1>4, <1>7, <1>8, <1>9, <1>10 DEF Placed, Held, v, DavPc
  <1>14. \A q \in Connection : work[q].key = k =>
           ~Alone(work[q]) /\ ~Holds(work[q]) /\ ~Renamed(work[q])
    BY <1>11 DEF UploadInv, Requests, Placed, Alone, Holds, Renamed, DavPc, AppendPc, FinishPc
  <1>15. \A q \in Connection \ {r} : work[q].key = k =>
           Placed(work[q])' /\ (timely => Held(work[q])')
    BY <1>4, <1>6, <1>8, <1>9, <1>14, Outsider
  <1>16. \A q \in Connection \ {r} : Apart(work[r], work[q])' /\ Apart(work[q], work[r])'
    BY <1>6, <1>7, <1>10, <1>11, <1>14 DEF Apart, v
  <1>17. \A m \in nodes : m.key = k => m.chunked
    BY <1>4, InvParts DEF NodeSound
  <1>18. {r} \in SUBSET Connection
    OBVIOUS
  <1> QED BY <1>4, <1>5, <1>6, <1>7, <1>8, <1>10, <1>12, <1>13, <1>15, <1>16, <1>17, <1>18, Frame
          DEF v

-----------------------------------------------------------------------------
(* The theorems                                                            *)

LEMMA InvInit == UploadInit => UploadInv
  <1> SUFFICES ASSUME UploadInit PROVE UploadInv
    OBVIOUS
  <1>1. UploadTypeOK
    BY InitType
  <1>2. \A r \in Connection : Placed(work[r]) /\ Held(work[r]) /\ ~Renamed(work[r])
    BY Defaults DEF UploadInit, Placed, Held, Holds, Alone, Renamed, AppendPc, FinishPc
  <1>3. Exclusive
    BY Defaults DEF UploadInit, Exclusive, Apart, Holds, Alone, Renamed, AppendPc, FinishPc
  <1>4. Files /\ HashDescribesBytes /\ ProgressDurable /\ ContentIntact /\ BlobStays
    BY Defaults DEF UploadInit, Files, Keyed, HashDescribesBytes, ProgressDurable,
       ContentIntact, BlobStays
  <1> QED BY <1>1, <1>2, <1>3, <1>4 DEF UploadInv, Requests, Holders, Unrecorded

LEMMA RequestKeeps ==
  ASSUME UploadInv, NEW r \in Connection, RequestStep(r) PROVE UploadInv'
  <1>1. CASE \E k \in StagingKey, n \in IF timely THEN Sizes ELSE LateSizes :
               CreateFile(r, k, n) \/ DavOpen(r, k, n)
    BY <1>1, BeginKeeps, SizesAssumption
  <1>2. CASE \E k \in StagingKey : CancelRow(r, k)
    BY <1>2, CancelRowKeeps
  <1>3. CASE \E k \in StagingKey : \E n \in 0..row[k].size : AppendLock(r, k, n)
    <2>1. PICK k \in StagingKey, n \in Nat : AppendLock(r, k, n)
      BY <1>3
    <2> QED BY <2>1, AppendLockKeeps
  <1>4. CASE CreateRow(r) \/ FinishLock(r) \/ FinishStat(r) \/ FinishStore(r)
             \/ FinishPut(r) \/ FinishRemove(r) \/ DavWrite(r) \/ DavClose(r)
    BY <1>4, CreateRowKeeps, FinishLockKeeps, FinishStatKeeps, FinishStoreKeeps,
       FinishPutKeeps, FinishRemoveKeeps, DavWriteKeeps, DavCloseKeeps
  <1>5. CASE CreateRefused(r) \/ CancelFile(r) \/ FinishDelete(r) \/ FinishPutFails(r)
    BY <1>5, EndingKeeps
  <1>6. CASE AppendOpen(r)
    BY <1>6, AppendOpenKeeps, AppendOpenNothingKeeps
  <1>7. CASE AppendCopy(r) \/ AppendSync(r) \/ AppendSyncFails(r) \/ AppendCommit(r)
             \/ UnlockUpload(r) \/ UploadFails(r)
    BY <1>7, AppendCopyKeeps, AppendSyncKeeps, AppendCommitKeeps, UnlockUploadKeeps,
       UploadFailsKeeps
  <1> QED BY <1>1, <1>2, <1>3, <1>4, <1>5, <1>6, <1>7 DEF RequestStep

LEMMA InvStep == UploadInv /\ [UploadNext]_uploadVars => UploadInv'
  <1> SUFFICES ASSUME UploadInv, [UploadNext]_uploadVars PROVE UploadInv'
    OBVIOUS
  <1>1. CASE \E r \in Connection : RequestStep(r)
    BY <1>1, RequestKeeps
  <1>2. CASE \E k \in StagingKey : ExpireSession(k) \/ LockLapses(k)
    BY <1>2, ExpireSessionKeeps, LockLapsesKeeps
  <1>3. CASE SweepStep
    BY <1>3, SweepReads, SweepTakes DEF SweepStep
  <1>4. CASE UNCHANGED uploadVars
    <2>1. PICK k \in StagingKey : TRUE
      BY KeyAssumption
    <2>2. UploadTypeOK' /\ {} \in SUBSET Connection
      BY <1>4 DEF UploadInv, UploadTypeOK, uploadVars
    <2> QED BY <1>4, <2>2, Taking DEF uploadVars
  <1> QED BY <1>1, <1>2, <1>3, <1>4 DEF UploadNext

LEMMA InvHolds == UploadSpec => []UploadInv
  BY InvInit, InvStep, PTL DEF UploadSpec

\* Staging files, sessions, requests and recorded files stay what their types say,
\* and no session records more than its declared size, for any numbers of requests
\* and keys and any sizes (files/uploads.go, blob/store.go).
THEOREM UploadTypesHold == UploadSpec => []UploadTypeOK
  BY InvHolds, PTL DEF UploadInv

\* However requests, crashes, lapsed locks, expiries and sweeps interleave, a
\* recorded blob stays; and while no holder outlives its lock, the digest of a
\* session describes its bytes, its progress is on disk, and a finished upload is
\* the file that was sent (AppendChunk, FinishUpload, collectExpiredUploads).
THEOREM UploadIsSound == UploadSpec => []UploadSound
  <1>1. UploadInv => UploadSound
    BY DEF UploadInv, UploadSound
  <1> QED BY <1>1, InvHolds, PTL

\* The only steps that write an offset are the insert of a row and the commit of
\* an append, and the one who commits still reads the offset that the row has.
LEMMA OffsetGrows ==
  ASSUME UploadInv, UploadNext, timely, NEW k \in StagingKey, row[k].there, row'[k].there
  PROVE  row'[k].offset >= row[k].offset
  <1>0. row \in [StagingKey -> UploadRow] /\ row[k] \in UploadRow /\ row[k].offset \in Nat
        /\ row[k].size \in Nat /\ row[k].hashed \in Hash
    BY RowFields DEF UploadInv, UploadTypeOK
  <1>1. \A j \in StagingKey : \/ row' = [row EXCEPT ![j].locked = TRUE]
                              \/ row' = [row EXCEPT ![j].locked = FALSE]
                              \/ row' = [row EXCEPT ![j].expired = TRUE]
                              \/ row' = [row EXCEPT ![j] = NoSession]
          => row'[k].offset >= row[k].offset
    <2> SUFFICES ASSUME NEW j \in StagingKey,
                        \/ row' = [row EXCEPT ![j].locked = TRUE]
                        \/ row' = [row EXCEPT ![j].locked = FALSE]
                        \/ row' = [row EXCEPT ![j].expired = TRUE]
                        \/ row' = [row EXCEPT ![j] = NoSession]
                 PROVE  row'[k].offset = row[k].offset
      BY <1>0
    <2> QED BY <1>0, Defaults DEF UploadRow
  <1>3. ASSUME NEW r \in Connection, RequestStep(r)
        PROVE  row'[k].offset >= row[k].offset
    <2>0. work[r].key \in StagingKey
      BY Known
    <2>1. CASE AppendCommit(r)
      <3>1. CASE work[r].key = k
        <4>1. /\ work[r].pc = "commit" /\ work[r].kind = "tus" /\ Held(work[r])
              /\ work[r].offset \in Nat /\ work[r].hashed \in Hash
          BY <2>1, Known, WorkFields DEF AppendCommit, Placed, DavPc
        <4>2. row[k].offset <= work[r].offset
          BY <3>1, <4>1 DEF Held, HeldCommit, Holds, AppendPc
        <4>3. row'[k] = Progressed(row[k], work[r].offset, work[r].hashed)
          BY <1>0, <2>1, <3>1 DEF AppendCommit
        <4>4. row'[k].offset = work[r].offset
          BY <1>0, <4>1, <4>3 DEF Progressed, UploadRow
        <4> QED BY <1>0, <4>1, <4>2, <4>4
      <3>2. CASE work[r].key # k
        BY <1>0, <2>1, <3>2 DEF AppendCommit
      <3> QED BY <3>1, <3>2
    <2>2. CASE CreateRow(r)
      <3>1. work[r].key # k
        BY <2>2, Known DEF CreateRow, Placed, Alone
      <3> QED BY <1>0, <2>2, <3>1 DEF CreateRow
    <2>3. CASE (\E j \in StagingKey : CancelRow(r, j)) \/ FinishDelete(r)
      BY <1>1, <2>0, <2>3 DEF CancelRow, FinishDelete
    <2>4. CASE \/ \E j \in StagingKey : \E n \in 0..row[j].size : AppendLock(r, j, n)
               \/ FinishLock(r) \/ UnlockUpload(r)
      BY <1>1, <2>0, <2>4 DEF AppendLock, FinishLock, UnlockUpload
    <2>5. CASE UNCHANGED row
      BY <1>0, <2>5
    <2> QED BY <1>3, <2>1, <2>2, <2>3, <2>4, <2>5
            DEF RequestStep, CreateFile, DavOpen, CreateRefused, CancelFile, AppendOpen,
                AppendCopy, AppendSync, AppendSyncFails, FinishStat, FinishStore, FinishPut,
                FinishPutFails, FinishRemove, DavWrite, DavClose, UploadFails
  <1>4. ASSUME NEW j \in StagingKey, ExpireSession(j) \/ LockLapses(j)
        PROVE  row'[k].offset >= row[k].offset
    BY <1>1, <1>4 DEF ExpireSession, LockLapses
  <1>5. CASE SweepStep
    <2>1. CASE \E j \in StagingKey : SweepRow(j)
      BY <1>1, <2>1 DEF SweepRow
    <2>2. CASE UNCHANGED row
      BY <1>0, <2>2
    <2> QED BY <1>5, <2>1, <2>2 DEF SweepStep, SweepList, SweepKnown, SweepWalk, SweepEnd,
            SweepAbort, SweepRemove
  <1> QED BY <1>3, <1>4, <1>5 DEF UploadNext

\* The offset that HEAD reports never goes back (HeadUpload, CommitUploadProgress).
THEOREM OffsetNeverBack == UploadSpec => OffsetMonotone
  <1>1. UploadInv /\ [UploadNext]_uploadVars =>
          [timely => \A k \in StagingKey : row[k].there /\ row'[k].there
             => row'[k].offset >= row[k].offset]_uploadVars
    BY OffsetGrows
  <1> QED BY <1>1, InvHolds, PTL DEF UploadSpec, OffsetMonotone
=============================================================================
