------------------------------ MODULE CasStore ------------------------------
(***************************************************************************)
(* The content-addressed store of the server: chunk bytes on disk, the     *)
(* tables chunks, manifests, manifest_chunks and file_versions, the        *)
(* operations that write them (internal/cas, internal/files), the garbage  *)
(* collector's manifest and chunk passes, and fsck --repair.               *)
(*                                                                         *)
(* A step is one unit the code executes atomically: one SQL statement or   *)
(* transaction, or one call on the blob store.  Everything between two     *)
(* such units may be interleaved with the steps of other requests, of the  *)
(* collector (server background loop, `cloudctl gc`) and of fsck.  A tx of *)
(* several statements is one step, its commit: rows it inserts are not     *)
(* visible before, and the ways in which it can lose (a foreign key gone   *)
(* since an earlier statement, a deadlock, a lost connection) all roll it  *)
(* back, which is Fail.                                                    *)
(***************************************************************************)
EXTENDS Integers, Sequences, FiniteSets

CONSTANTS
  Chunk,        \* chunk addresses (BLAKE3 of the plain text)
  Content,      \* whole-file contents, identified by their BLAKE3 hash
  List,         \* chunk lists that requests produce or name
  Plain,        \* Plain[l]: the content that list l reassembles to
  Split,        \* Split[x]: the list the server's chunker makes of content x
  Manifest,     \* manifest ids; a bound on the manifests alive at once
  Version,      \* file_versions ids; a bound on the versions alive at once
  Writer,       \* concurrent requests that write
  Collector,    \* concurrent CollectGarbage passes
  Overlap,      \* TRUE: the collector and fsck run while requests do
  OutliveGrace, \* TRUE: a request may take longer than BlobGCGrace
  Repair        \* TRUE: somebody runs fsck with repair

ASSUME ListAssumption == List \subseteq Seq(Chunk)
ASSUME PlainAssumption == Plain \in [List -> Content]
ASSUME SplitAssumption ==
         /\ Split \in [Content -> List]
         /\ \A x \in Content : Plain[Split[x]] = x
ASSUME ContentAssumption == Content # {}
ASSUME ModeAssumption == {Overlap, OutliveGrace, Repair} \subseteq BOOLEAN

VARIABLES
  bytes,           \* chunk keys whose file exists in the blob store
  chunks,          \* hashes that have a row in chunks
  refcount,        \* chunks.refcount; 0 where there is no row
  manifests,       \* rows of manifests
  manifest_chunks, \* rows of manifest_chunks
  versions,        \* rows of file_versions that are manifest-backed
  aged,            \* chunk hashes and manifest ids older than BlobGCGrace
  req,             \* req[w]: where request w stands
  gc,              \* gc[g]: where collector pass g stands
  fsck             \* where the fsck --repair run stands

vars == <<bytes, chunks, refcount, manifests, manifest_chunks, versions,
          aged, req, gc, fsck>>

-----------------------------------------------------------------------------
(* Rows and states                                                         *)

ManifestRow == [id : Manifest, content_hash : Content, chunk_count : Nat]
ChunkRefRow == [manifest_id : Manifest, seq : Nat, chunk_hash : Chunk]
VersionRow  == [id : Version, manifest_id : Manifest]

ReqPc == {"idle", "put", "row", "verify", "lookup", "insert", "putfile", "drop"}

\* op "write" is cas.Write followed by PutFile (uploadViaCAS and the chunked
\* branch of finishStaged); "chunk" is PutChunk; "commit" is PutManifestFile.
\* next is the index of the chunk that Write puts next, cur the singleton of
\* PutChunk's chunk, held the singleton of the manifest id that the request
\* carries to PutFile, empty before there is one.
Request == [pc : ReqPc, op : {"write", "chunk", "commit"}, content : Content,
            list : List, next : Nat \ {0}, cur : SUBSET Chunk,
            held : SUBSET Manifest, reused : BOOLEAN]

GcPc == {"idle", "manifests", "chunks", "bytes"}
Pass == [pc : GcPc, mlist : SUBSET Manifest, clist : SUBSET Chunk,
         cur : SUBSET Chunk]
FsckRun == [pc : {"idle", "walk", "repair"}, known : SUBSET Chunk,
            orphans : SUBSET Chunk]

IdleReq == LET x == CHOOSE x \in Content : TRUE
           IN [pc |-> "idle", op |-> "write", content |-> x,
               list |-> Split[x], next |-> 1, cur |-> {}, held |-> {},
               reused |-> FALSE]
IdlePass == [pc |-> "idle", mlist |-> {}, clist |-> {}, cur |-> {}]
IdleFsck == [pc |-> "idle", known |-> {}, orphans |-> {}]

Hashes(l) == {l[i] : i \in 1..Len(l)}
RefRows(m, l) ==
  {[manifest_id |-> m, seq |-> i, chunk_hash |-> l[i]] : i \in 1..Len(l)}
RefsTo(rows, c) == {r \in rows : r.chunk_hash = c}
RowsOf(m) == {r \in manifest_chunks : r.manifest_id = m}

HasRow(m) == \E r \in manifests : r.id = m
Referenced(m) == \E v \in versions : v.manifest_id = m
WritersIdle == \A w \in Writer : req[w].pc = "idle"
MaintenanceIdle == fsck.pc = "idle" /\ \A g \in Collector : gc[g].pc = "idle"

TypeOK ==
  /\ bytes \in SUBSET Chunk
  /\ chunks \in SUBSET Chunk
  /\ refcount \in [Chunk -> Nat]
  /\ manifests \in SUBSET ManifestRow
  /\ manifest_chunks \in SUBSET ChunkRefRow
  /\ versions \in SUBSET VersionRow
  /\ aged \in SUBSET (Chunk \cup Manifest)
  /\ req \in [Writer -> Request]
  /\ gc \in [Collector -> Pass]
  /\ fsck \in FsckRun

Init ==
  /\ bytes = {} /\ chunks = {} /\ refcount = [c \in Chunk |-> 0]
  /\ manifests = {} /\ manifest_chunks = {} /\ versions = {}
  /\ aged = {}
  /\ req = [w \in Writer |-> IdleReq]
  /\ gc = [g \in Collector |-> IdlePass]
  /\ fsck = IdleFsck

-----------------------------------------------------------------------------
(* Statements shared by several operations                                 *)

\* FSStore.PutKeyed: a key that exists is left alone, any other is written to
\* a temporary file, synced and renamed.  Either way the key is there after.
PutKeyed(c) == bytes' = bytes \cup {c}

\* INSERT INTO chunks ... ON CONFLICT (hash) DO NOTHING, for a set of hashes;
\* created_at and refcount are set only for the rows that are new.
InsertChunks(hs) ==
  /\ chunks' = chunks \cup hs
  /\ aged' = aged \ (hs \ chunks)

\* Wrong: counts a chunk once per manifest however often it repeats.
BumpedUp_Distinct(rows) ==
  [c \in Chunk |-> (IF c \in chunks THEN refcount[c] ELSE 0)
                      + (IF RefsTo(rows, c) = {} THEN 0 ELSE 1)]

\* The trigger chunk_refcount_bump on INSERT, over the rows of one tx.
BumpedUp(rows) ==
  [c \in Chunk |-> (IF c \in chunks THEN refcount[c] ELSE 0)
                      + Cardinality(RefsTo(rows, c))]

\* The same trigger on DELETE, for the rows that a cascade removes.
BumpedDown(rows) ==
  [c \in Chunk |-> refcount[c] - Cardinality(RefsTo(rows, c))]

\* INSERT INTO manifests and the COPY into manifest_chunks.  The id is a fresh
\* uuid: no row has it and nobody remembers it.
FreshManifest(m) ==
  /\ ~HasRow(m) /\ ~Referenced(m)
  /\ \A w \in Writer : m \notin req[w].held
  /\ \A g \in Collector : m \notin gc[g].mlist
InsertManifest(m, x, l) ==
  /\ manifests' = manifests \cup
        {[id |-> m, content_hash |-> x, chunk_count |-> Len(l)]}
  /\ manifest_chunks' = manifest_chunks \cup RefRows(m, l)
  /\ refcount' = BumpedUp(RefRows(m, l))

\* DELETE FROM manifests, with the cascade to manifest_chunks and the trigger.
DropManifest(m) ==
  /\ manifests' = {r \in manifests : r.id # m}
  /\ manifest_chunks' = manifest_chunks \ RowsOf(m)
  /\ refcount' = BumpedDown(RowsOf(m))
  /\ aged' = aged \ {m}

\* Wrong: deletes what was listed without looking again.
DeleteManifestRow_NoRecheck(m) == DropManifest(m)

\* cas.DeleteManifestRow: deletes only if no version references it by now.
DeleteManifestRow(m) ==
  IF Referenced(m)
  THEN UNCHANGED <<manifests, manifest_chunks, refcount, aged>>
  ELSE DropManifest(m)

-----------------------------------------------------------------------------
(* cas.Write and PutFile                                                   *)

MayStart == Overlap \/ MaintenanceIdle

\* A stream of content x arrives; Split will cut it into Split[x].
WriteBegin(w, x) ==
  /\ req[w].pc = "idle" /\ MayStart
  /\ req' = [req EXCEPT ![w] = [IdleReq EXCEPT !.pc = "put", !.content = x,
                                               !.list = Split[x]]]
  /\ UNCHANGED <<bytes, chunks, refcount, manifests, manifest_chunks,
                 versions, aged, gc, fsck>>

\* The Split callback: the bytes of the next chunk reach the disk.
WritePut(w) ==
  /\ req[w].pc = "put" /\ req[w].next <= Len(req[w].list)
  /\ PutKeyed(req[w].list[req[w].next])
  /\ req' = [req EXCEPT ![w].next = @ + 1]
  /\ UNCHANGED <<chunks, refcount, manifests, manifest_chunks, versions,
                 aged, gc, fsck>>

\* Wrong: any manifest with the right number of chunks will do.
ReusableManifests_CountOnly(x, l) ==
  {r.id : r \in {s \in manifests : s.chunk_count = Len(l) /\ Referenced(s.id)}}

\* Whole-file dedup: manifests of the same content hash and chunk count (the
\* total size follows from the content) that a version references.
ReusableManifests(x, l) ==
  {r.id : r \in {s \in manifests : /\ s.content_hash = x
                                  /\ s.chunk_count = Len(l)
                                  /\ Referenced(s.id)}}

\* The lookup of Write, once the stream is at its end, and of CommitManifest.
LookupManifest(w) ==
  /\ \/ req[w].pc = "put" /\ req[w].next > Len(req[w].list)
     \/ req[w].pc = "lookup"
  /\ LET found == ReusableManifests(req[w].content, req[w].list) IN
       \/ \E m \in found :
            req' = [req EXCEPT ![w].pc = "putfile", ![w].held = {m},
                               ![w].reused = TRUE]
       \/ /\ found = {}
          /\ req' = [req EXCEPT ![w].pc = "insert"]
  /\ UNCHANGED <<bytes, chunks, refcount, manifests, manifest_chunks,
                 versions, aged, gc, fsck>>

\* The tx of Write: chunk rows, the manifest, its references.
WriteInsert(w) ==
  /\ req[w].pc = "insert" /\ req[w].op = "write"
  /\ \E m \in Manifest :
       /\ FreshManifest(m)
       /\ InsertChunks(Hashes(req[w].list))
       /\ InsertManifest(m, req[w].content, req[w].list)
       /\ req' = [req EXCEPT ![w].pc = "putfile", ![w].held = {m}]
  /\ UNCHANGED <<bytes, versions, gc, fsck>>

FreeVersion(v) == \A r \in versions : r.id # v

\* files.Store.PutFile with a manifest id: the version row, if the manifest is
\* still there (foreign key).
PutFile(w) ==
  /\ req[w].pc = "putfile"
  /\ \E m \in req[w].held, v \in Version :
       /\ HasRow(m) /\ FreeVersion(v)
       /\ versions' = versions \cup {[id |-> v, manifest_id |-> m]}
  /\ req' = [req EXCEPT ![w] = IdleReq]
  /\ UNCHANGED <<bytes, chunks, refcount, manifests, manifest_chunks, aged,
                 gc, fsck>>

\* PutFile returns an error: quota, a taken name, a trashed parent, the
\* foreign key.  A reused manifest is left alone.
PutFileFails(w) ==
  /\ req[w].pc = "putfile"
  /\ req' = [req EXCEPT ![w] = IF req[w].reused THEN IdleReq
                               ELSE [@ EXCEPT !.pc = "drop"]]
  /\ UNCHANGED <<bytes, chunks, refcount, manifests, manifest_chunks,
                 versions, aged, gc, fsck>>

DropOrphanManifest(w) ==
  /\ req[w].pc = "drop"
  /\ \E m \in req[w].held : DeleteManifestRow(m)
  /\ req' = [req EXCEPT ![w] = IdleReq]
  /\ UNCHANGED <<bytes, chunks, versions, gc, fsck>>

\* The request ends early: an error return, a cancelled context, a crash of
\* the process.  What it has written stays.
Fail(w) ==
  /\ req[w].pc # "idle"
  /\ req' = [req EXCEPT ![w] = IdleReq]
  /\ UNCHANGED <<bytes, chunks, refcount, manifests, manifest_chunks,
                 versions, aged, gc, fsck>>

-----------------------------------------------------------------------------
(* The delta protocol: PutChunk, CommitManifest                            *)

\* PutChunk, once size and hash are checked: the bytes, then the row.
PutChunkBytes(w, c) ==
  /\ req[w].pc = "idle" /\ MayStart
  /\ PutKeyed(c)
  /\ req' = [req EXCEPT ![w] = [IdleReq EXCEPT !.pc = "row", !.op = "chunk",
                                               !.cur = {c}]]
  /\ UNCHANGED <<chunks, refcount, manifests, manifest_chunks, versions,
                 aged, gc, fsck>>

PutChunkRow(w) ==
  /\ req[w].pc = "row"
  /\ InsertChunks(req[w].cur)
  /\ req' = [req EXCEPT ![w] = IdleReq]
  /\ UNCHANGED <<bytes, refcount, manifests, manifest_chunks, versions, gc,
                 fsck>>

\* CommitManifest: the client declares content x and names the chunks l.  An
\* empty list or a chunk without a row is refused at once.
CommitBegin(w, x, l) ==
  /\ req[w].pc = "idle" /\ MayStart
  /\ l # <<>> /\ Hashes(l) \subseteq chunks
  /\ req' = [req EXCEPT ![w] = [IdleReq EXCEPT !.pc = "verify",
                !.op = "commit", !.content = x, !.list = l]]
  /\ UNCHANGED <<bytes, chunks, refcount, manifests, manifest_chunks,
                 versions, aged, gc, fsck>>

\* Wrong: takes the client's word for the content hash.
ContentVerified_Trusting(x, l) == Hashes(l) \subseteq (chunks \cap bytes)

\* verifyContentHash: every chunk has a row and bytes, and together they are
\* the declared content.
ContentVerified(x, l) ==
  Hashes(l) \subseteq (chunks \cap bytes) /\ Plain[l] = x

CommitVerify(w) ==
  /\ req[w].pc = "verify"
  /\ req' = [req EXCEPT ![w] =
               IF ContentVerified(req[w].content, req[w].list)
               THEN [@ EXCEPT !.pc = "lookup"] ELSE IdleReq]
  /\ UNCHANGED <<bytes, chunks, refcount, manifests, manifest_chunks,
                 versions, aged, gc, fsck>>

\* The tx of CommitManifest.  It writes no chunk row, so a chunk collected
\* since the check fails the foreign key (then Fail).
CommitInsert(w) ==
  /\ req[w].pc = "insert" /\ req[w].op = "commit"
  /\ Hashes(req[w].list) \subseteq chunks
  /\ \E m \in Manifest :
       /\ FreshManifest(m)
       /\ InsertManifest(m, req[w].content, req[w].list)
       /\ req' = [req EXCEPT ![w].pc = "putfile", ![w].held = {m}]
  /\ UNCHANGED <<bytes, chunks, versions, aged, gc, fsck>>

-----------------------------------------------------------------------------
(* Versions come and go                                                    *)

\* Rows of file_versions disappear: Purge, EmptyTrash and AutoPurgeTrash by
\* cascade from nodes, PruneVersions directly.
DeleteVersions(rows) ==
  /\ rows # {}
  /\ versions' = versions \ rows
  /\ UNCHANGED <<bytes, chunks, refcount, manifests, manifest_chunks, aged,
                 req, gc, fsck>>

\* RestoreVersion: a new version that points at the content of an old one.
RestoreVersion(old) ==
  /\ \E v \in Version :
       /\ FreeVersion(v)
       /\ versions' = versions \cup {[id |-> v,
                                      manifest_id |-> old.manifest_id]}
  /\ UNCHANGED <<bytes, chunks, refcount, manifests, manifest_chunks, aged,
                 req, gc, fsck>>

\* A row becomes older than BlobGCGrace.
Age(x) ==
  /\ x \in chunks \/ HasRow(x)
  /\ x \notin aged
  /\ OutliveGrace \/ WritersIdle
  /\ aged' = aged \cup {x}
  /\ UNCHANGED <<bytes, chunks, refcount, manifests, manifest_chunks,
                 versions, req, gc, fsck>>

-----------------------------------------------------------------------------
(* CollectGarbage: collectManifests, then collectChunks                    *)

MayMaintain == Overlap \/ WritersIdle

\* UnreferencedManifests.
GcListManifests(g) ==
  /\ gc[g].pc = "idle" /\ MayMaintain
  /\ gc' = [gc EXCEPT ![g].pc = "manifests",
              ![g].mlist = {m \in aged : HasRow(m) /\ ~Referenced(m)}]
  /\ UNCHANGED <<bytes, chunks, refcount, manifests, manifest_chunks,
                 versions, aged, req, fsck>>

GcDeleteManifest(g) ==
  /\ gc[g].pc = "manifests"
  /\ \E m \in gc[g].mlist :
       /\ DeleteManifestRow(m)
       /\ gc' = [gc EXCEPT ![g].mlist = @ \ {m}]
  /\ UNCHANGED <<bytes, chunks, versions, req, fsck>>

\* UnreferencedChunks.
GcListChunks(g) ==
  /\ gc[g].pc = "manifests" /\ gc[g].mlist = {}
  /\ gc' = [gc EXCEPT ![g].pc = "chunks",
              ![g].clist = {c \in chunks \cap aged : refcount[c] = 0}]
  /\ UNCHANGED <<bytes, chunks, refcount, manifests, manifest_chunks,
                 versions, aged, req, fsck>>

\* The condition of DeleteChunkRow.
ChunkUnreferenced(c) == refcount[c] = 0

\* DeleteChunkRow.  A chunk that was referenced meanwhile is skipped.
GcDeleteChunkRow(g) ==
  /\ gc[g].pc = "chunks"
  /\ \E c \in gc[g].clist :
       IF c \in chunks /\ ChunkUnreferenced(c)
       THEN /\ chunks' = chunks \ {c}
            /\ aged' = aged \ {c}
            /\ gc' = [gc EXCEPT ![g].pc = "bytes", ![g].cur = {c},
                                ![g].clist = @ \ {c}]
       ELSE /\ gc' = [gc EXCEPT ![g].clist = @ \ {c}]
            /\ UNCHANGED <<chunks, aged>>
  /\ UNCHANGED <<bytes, refcount, manifests, manifest_chunks, versions, req,
                 fsck>>

\* blobs.Delete of the chunk whose row is gone.  Its failure is logged and the
\* file stays.
GcDeleteBytes(g) ==
  /\ gc[g].pc = "bytes"
  /\ bytes' \in {bytes, bytes \ gc[g].cur}
  /\ gc' = [gc EXCEPT ![g].pc = "chunks", ![g].cur = {}]
  /\ UNCHANGED <<chunks, refcount, manifests, manifest_chunks, versions,
                 aged, req, fsck>>

GcEnd(g) ==
  /\ gc[g].pc = "chunks" /\ gc[g].clist = {}
  /\ gc' = [gc EXCEPT ![g] = IdlePass]
  /\ UNCHANGED <<bytes, chunks, refcount, manifests, manifest_chunks,
                 versions, aged, req, fsck>>

\* An error return or a crash in the middle of a pass.
GcAbort(g) ==
  /\ gc[g].pc # "idle"
  /\ gc' = [gc EXCEPT ![g] = IdlePass]
  /\ UNCHANGED <<bytes, chunks, refcount, manifests, manifest_chunks,
                 versions, aged, req, fsck>>

-----------------------------------------------------------------------------
(* Fsck with repair                                                        *)

\* Wrong: only the keys of table blobs are loaded, none of the chunks.
FsckLoad_BlobsOnly ==
  /\ Repair /\ fsck.pc = "idle" /\ MayMaintain
  /\ fsck' = [fsck EXCEPT !.pc = "walk", !.known = {}]
  /\ UNCHANGED <<bytes, chunks, refcount, manifests, manifest_chunks,
                 versions, aged, req, gc>>

\* AllChunkKeys.
FsckLoad ==
  /\ Repair /\ fsck.pc = "idle" /\ MayMaintain
  /\ fsck' = [fsck EXCEPT !.pc = "walk", !.known = chunks]
  /\ UNCHANGED <<bytes, chunks, refcount, manifests, manifest_chunks,
                 versions, aged, req, gc>>

\* fs.Walk: a file whose key was not loaded is an orphan.
FsckWalk ==
  /\ fsck.pc = "walk"
  /\ fsck' = [fsck EXCEPT !.pc = "repair", !.orphans = bytes \ fsck.known]
  /\ UNCHANGED <<bytes, chunks, refcount, manifests, manifest_chunks,
                 versions, aged, req, gc>>

\* fs.Delete of one orphan; an error is logged.
FsckDelete ==
  /\ fsck.pc = "repair"
  /\ \E c \in fsck.orphans :
       /\ bytes' \in {bytes, bytes \ {c}}
       /\ fsck' = [fsck EXCEPT !.orphans = @ \ {c}]
  /\ UNCHANGED <<chunks, refcount, manifests, manifest_chunks, versions,
                 aged, req, gc>>

\* The report is returned, or the run fails or is interrupted.
FsckEnd ==
  /\ fsck.pc # "idle"
  /\ fsck' = IdleFsck
  /\ UNCHANGED <<bytes, chunks, refcount, manifests, manifest_chunks,
                 versions, aged, req, gc>>

-----------------------------------------------------------------------------
RequestStep(w) ==
  \/ \E x \in Content : WriteBegin(w, x)
  \/ WritePut(w) \/ LookupManifest(w) \/ WriteInsert(w)
  \/ PutFile(w) \/ PutFileFails(w) \/ DropOrphanManifest(w) \/ Fail(w)
  \/ \E c \in Chunk : PutChunkBytes(w, c)
  \/ PutChunkRow(w)
  \/ \E x \in Content, l \in List : CommitBegin(w, x, l)
  \/ CommitVerify(w) \/ CommitInsert(w)

GcStep(g) ==
  \/ GcListManifests(g) \/ GcDeleteManifest(g) \/ GcListChunks(g)
  \/ GcDeleteChunkRow(g) \/ GcDeleteBytes(g) \/ GcEnd(g) \/ GcAbort(g)

FsckStep == FsckLoad \/ FsckWalk \/ FsckDelete \/ FsckEnd

Next ==
  \/ \E w \in Writer : RequestStep(w)
  \/ \E rows \in SUBSET versions : DeleteVersions(rows)
  \/ \E old \in versions : RestoreVersion(old)
  \/ \E x \in Chunk \cup Manifest : Age(x)
  \/ \E g \in Collector : GcStep(g)
  \/ FsckStep

Spec == Init /\ [][Next]_vars

\* Time passes, runGC starts a pass on every tick and a pass runs on.  A pass
\* may be cut short any number of times, but not always before the same step.
\* Nothing is assumed of requests, of users or of fsck.
Fairness ==
  /\ \A x \in Chunk \cup Manifest : WF_vars(Age(x))
  /\ \A g \in Collector :
       /\ WF_vars(GcListManifests(g)) /\ SF_vars(GcDeleteManifest(g))
       /\ SF_vars(GcListChunks(g))    /\ SF_vars(GcDeleteChunkRow(g))
       /\ WF_vars(GcDeleteBytes(g))   /\ WF_vars(GcEnd(g))

FairSpec == Spec /\ Fairness

-----------------------------------------------------------------------------
(* Properties                                                              *)

\* The stored reference count of a chunk is the number of manifest_chunks rows
\* that name it (what cas.VerifyRefcounts recomputes): the trigger, the cascade
\* and the ON CONFLICT insert never let it drift, whatever runs concurrently.
RefcountExact ==
  \A c \in Chunk : refcount[c] = Cardinality(RefsTo(manifest_chunks, c))

\* Deleting a chunk or manifest row under the conditions of DeleteChunkRow and
\* DeleteManifestRow never leaves a reference without its row: the refcount and
\* NOT EXISTS guards alone keep every foreign key, so RESTRICT never fires.
ForeignKeys ==
  /\ \A r \in manifest_chunks : r.chunk_hash \in chunks /\ HasRow(r.manifest_id)
  /\ \A v \in versions : HasRow(v.manifest_id)

\* A manifest's chunk references are exactly the rows of one list that
\* reassembles to its content_hash: what verifyContentHash and the reuse lookup
\* are there to keep true.
HonestManifests ==
  \A r \in manifests : \E l \in List :
    RowsOf(r.id) = RefRows(r.id, l) /\ Plain[l] = r.content_hash

\* The manifest a request is about to put in a version describes the content
\* that the request uploaded, whether it was built or reused.
HeldManifestMatches ==
  \A w \in Writer : \A r \in manifests :
    req[w].pc = "putfile" /\ r.id \in req[w].held
      => r.content_hash = req[w].content

\* A manifest says what its content is, and a request links the manifest of what it
\* was given: what a download trusts (cas.go, WriteManifest, verifyContentHash).
ManifestsTrue == HonestManifests /\ HeldManifestMatches

\* No file has a hole: every chunk that a version's manifest references has its
\* bytes on disk.
NoHoles ==
  \A v \in versions : \A r \in RowsOf(v.manifest_id) : r.chunk_hash \in bytes

\* The reason Write gives for reusing only manifests that a version references
\* ("Referenced manifests are ones GC will not touch"): the manifest a request
\* is about to reuse keeps its row until PutFile.
ReusedManifestStays ==
  \A w \in Writer : req[w].pc = "putfile" /\ req[w].reused
    => \A m \in req[w].held : HasRow(m)

\* What Fsck says of repair ("it only removes things that are provably
\* unreferenced"): no manifest references a chunk that is about to be removed.
OrphansUnreferenced ==
  fsck.pc = "repair" =>
    \A c \in fsck.orphans : RefsTo(manifest_chunks, c) = {}

Live(c) == \E v \in versions : RefsTo(RowsOf(v.manifest_id), c) # {}

\* Once requests stop arriving, a chunk that no version needs loses its row: the
\* passes walk versions, manifests and chunks down in order, and an interrupted
\* pass is made up for by a later one.
RowsReclaimed ==
  <>[]WritersIdle => \A c \in Chunk : []<>(c \notin chunks \/ Live(c))

\* What Write says of a crash between the bytes and the manifest ("leaves
\* unreferenced chunks, which GC reclaims"): bytes without a row go away.
OrphanBytesReclaimed ==
  <>[]WritersIdle => \A c \in Chunk : []<>(c \notin bytes \/ c \in chunks)
=============================================================================
