--------------------------- MODULE CasStore_proofs ---------------------------
(***************************************************************************)
(* Proofs about CasStore, for every set of chunks, contents, requests and  *)
(* collectors.                                                             *)
(***************************************************************************)
EXTENDS CasStore, FiniteSetTheorems, TLAPS

USE DEF PutKeyed, MayStart, MayMaintain, FreeVersion

-----------------------------------------------------------------------------
(* Lemmas about the operators                                              *)

\* The idle request is a request.
LEMMA IdleReqType == IdleReq \in Request
BY SplitAssumption, ContentAssumption DEF IdleReq, Request, ReqPc

\* The rows that InsertManifest adds for a list: finitely many, all of the new
\* manifest, all naming chunks of the list.
LEMMA RefRowsFacts ==
  ASSUME NEW m \in Manifest, NEW l \in List
  PROVE  /\ IsFiniteSet(RefRows(m, l))
         /\ RefRows(m, l) \subseteq ChunkRefRow
         /\ \A r \in RefRows(m, l) : r.manifest_id = m /\ r.chunk_hash \in Hashes(l)
         /\ Hashes(l) \subseteq Chunk
<1> DEFINE I == 1..Len(l)
           f == [i \in I |-> [manifest_id |-> m, seq |-> i, chunk_hash |-> l[i]]]
<1>1. l \in Seq(Chunk) /\ Len(l) \in Nat
  BY ListAssumption
<1>2. \A i \in I : l[i] \in Chunk /\ i \in Nat
  BY <1>1
<1>3. IsFiniteSet(I)
  BY <1>1, FS_Interval
<1>4. f \in Surjection(I, RefRows(m, l))
  BY DEF Surjection, RefRows
<1>5. IsFiniteSet(RefRows(m, l))
  <2> HIDE DEF f
  <2> QED BY <1>3, <1>4, FS_Surjection
<1>6. RefRows(m, l) \subseteq ChunkRefRow
  BY <1>2 DEF RefRows, ChunkRefRow
<1>7. \A r \in RefRows(m, l) : r.manifest_id = m /\ r.chunk_hash \in Hashes(l)
  BY DEF RefRows, Hashes
<1>8. Hashes(l) \subseteq Chunk
  BY <1>2 DEF Hashes
<1> QED BY <1>5, <1>6, <1>7, <1>8

\* Counting references is additive over disjoint finite sets of rows.
LEMMA RefsUnion ==
  ASSUME NEW R, NEW S, NEW c, IsFiniteSet(R), IsFiniteSet(S), R \cap S = {}
  PROVE  Cardinality(RefsTo(R \cup S, c))
           = Cardinality(RefsTo(R, c)) + Cardinality(RefsTo(S, c))
<1>1. IsFiniteSet(RefsTo(R, c)) /\ IsFiniteSet(RefsTo(S, c))
  BY FS_Subset DEF RefsTo
<1>2. RefsTo(R \cup S, c) = RefsTo(R, c) \cup RefsTo(S, c)
  BY DEF RefsTo
<1>3. RefsTo(R, c) \cap RefsTo(S, c) = {}
  BY DEF RefsTo
<1>4. Cardinality(RefsTo(R, c) \cup RefsTo(S, c))
        = Cardinality(RefsTo(R, c)) + Cardinality(RefsTo(S, c))
          - Cardinality(RefsTo(R, c) \cap RefsTo(S, c))
  BY <1>1, FS_Union
<1>5. Cardinality(RefsTo(R, c)) \in Nat /\ Cardinality(RefsTo(S, c)) \in Nat
  BY <1>1, FS_CardinalityType
<1>6. Cardinality(RefsTo(R, c) \cap RefsTo(S, c)) = 0
  BY <1>3, FS_EmptySet
<1>7. Cardinality(RefsTo(R \cup S, c))
        = Cardinality(RefsTo(R, c) \cup RefsTo(S, c))
  BY <1>2, Zenon
<1> QED BY <1>4, <1>5, <1>6, <1>7

\* ... and subtracting a subset of the rows subtracts its references.
LEMMA RefsDifference ==
  ASSUME NEW R, NEW S, NEW c, IsFiniteSet(R), S \subseteq R
  PROVE  Cardinality(RefsTo(R \ S, c))
           = Cardinality(RefsTo(R, c)) - Cardinality(RefsTo(S, c))
<1>1. IsFiniteSet(R \ S) /\ IsFiniteSet(S)
  BY FS_Subset
<1>2. Cardinality(RefsTo((R \ S) \cup S, c))
        = Cardinality(RefsTo(R \ S, c)) + Cardinality(RefsTo(S, c))
  BY <1>1, RefsUnion
<1>3. (R \ S) \cup S = R
  OBVIOUS
<1>4. IsFiniteSet(RefsTo(R \ S, c)) /\ IsFiniteSet(RefsTo(S, c))
  BY <1>1, FS_Subset DEF RefsTo
<1>5. Cardinality(RefsTo(R \ S, c)) \in Nat /\ Cardinality(RefsTo(S, c)) \in Nat
  BY <1>4, FS_CardinalityType
<1>6. RefsTo((R \ S) \cup S, c) = RefsTo(R, c)
  BY <1>3, Zenon
<1>7. Cardinality(RefsTo((R \ S) \cup S, c)) = Cardinality(RefsTo(R, c))
  BY <1>6, Zenon
<1> QED BY <1>2, <1>5, <1>7

\* A finite set of rows has a natural number of references.
LEMMA RefsFinite ==
  ASSUME NEW R, NEW c, IsFiniteSet(R)
  PROVE  Cardinality(RefsTo(R, c)) \in Nat
<1>1. IsFiniteSet(RefsTo(R, c))
  BY FS_Subset DEF RefsTo
<1> QED BY <1>1, FS_CardinalityType

\* There are finitely many rows in manifest_chunks.
FiniteRefs == IsFiniteSet(manifest_chunks)

-----------------------------------------------------------------------------
(* Types                                                                   *)
(*                                                                         *)
(* TypeOK also says that no count is ever negative, which is a fact about  *)
(* the references; it comes after them.  Integers are enough until then.   *)

BaseTypes ==
  /\ bytes \in SUBSET Chunk
  /\ chunks \in SUBSET Chunk
  /\ refcount \in [Chunk -> Int]
  /\ manifests \in SUBSET ManifestRow
  /\ manifest_chunks \in SUBSET ChunkRefRow
  /\ versions \in SUBSET VersionRow
  /\ aged \in SUBSET (Chunk \cup Manifest)
  /\ req \in [Writer -> Request]
  /\ gc \in [Collector -> Pass]
  /\ fsck \in FsckRun

\* The two statements that change manifests keep the types of the tables.  The
\* counts are numbers because there are finitely many references.
LEMMA InsertManifestType ==
  ASSUME BaseTypes, FiniteRefs, NEW m \in Manifest, NEW x \in Content,
         NEW l \in List, InsertManifest(m, x, l)
  PROVE  /\ manifests' \in SUBSET ManifestRow
         /\ manifest_chunks' \in SUBSET ChunkRefRow
         /\ refcount' \in [Chunk -> Int]
         /\ FiniteRefs'
<1>1. /\ IsFiniteSet(RefRows(m, l))
      /\ RefRows(m, l) \subseteq ChunkRefRow
  BY RefRowsFacts
<1>2. \A c \in Chunk : Cardinality(RefsTo(RefRows(m, l), c)) \in Nat
  BY <1>1, RefsFinite
<1>3. manifest_chunks' \in SUBSET ChunkRefRow
  BY <1>1 DEF BaseTypes, InsertManifest
<1>4. FiniteRefs'
  BY <1>1, FS_Union DEF InsertManifest, FiniteRefs
<1>5. refcount' \in [Chunk -> Int]
  BY <1>2 DEF BaseTypes, InsertManifest, BumpedUp
<1>6. manifests' \in SUBSET ManifestRow
  <2>1. Len(l) \in Nat
    BY ListAssumption
  <2> QED BY <2>1 DEF BaseTypes, InsertManifest, ManifestRow
<1> QED BY <1>3, <1>4, <1>5, <1>6

LEMMA DeleteManifestType ==
  ASSUME BaseTypes, FiniteRefs, NEW m, DeleteManifestRow(m)
  PROVE  /\ manifests' \in SUBSET ManifestRow
         /\ manifest_chunks' \in SUBSET ChunkRefRow
         /\ refcount' \in [Chunk -> Int]
         /\ aged' \in SUBSET (Chunk \cup Manifest)
         /\ FiniteRefs'
<1>1. CASE Referenced(m)
  BY <1>1 DEF BaseTypes, DeleteManifestRow, FiniteRefs
<1>2. CASE ~Referenced(m)
  <2>1. IsFiniteSet(RowsOf(m))
    BY FS_Subset DEF RowsOf, FiniteRefs
  <2>2. \A c \in Chunk : Cardinality(RefsTo(RowsOf(m), c)) \in Nat
    BY <2>1, RefsFinite
  <2>3. FiniteRefs'
    BY <1>2, FS_Subset DEF DeleteManifestRow, DropManifest, FiniteRefs
  <2>4. refcount' \in [Chunk -> Int]
    BY <1>2, <2>2 DEF BaseTypes, DeleteManifestRow, DropManifest, BumpedDown
  <2> QED BY <1>2, <2>3, <2>4 DEF BaseTypes, DeleteManifestRow, DropManifest
<1> QED BY <1>1, <1>2

\* Every request step keeps the types.
LEMMA RequestStepType ==
  ASSUME BaseTypes, FiniteRefs, NEW w \in Writer, RequestStep(w)
  PROVE  BaseTypes'
<1> USE IdleReqType DEF BaseTypes
<1>0. req[w] \in Request
  OBVIOUS
<1>1. ASSUME NEW x \in Content, WriteBegin(w, x) PROVE BaseTypes'
  <2>1. [IdleReq EXCEPT !.pc = "put", !.content = x, !.list = Split[x]] \in Request
    BY SplitAssumption DEF Request, ReqPc
  <2> QED BY <1>1, <2>1 DEF WriteBegin
<1>2. CASE WritePut(w)
  <2>1. req[w].list[req[w].next] \in Chunk
    <3>1. req[w].list \in Seq(Chunk) /\ req[w].next \in Nat \ {0}
      BY <1>0, ListAssumption DEF Request
    <3>2. req[w].next \in 1..Len(req[w].list)
      BY <1>2, <3>1 DEF WritePut
    <3> QED BY <3>1, <3>2
  <2>2. [req[w] EXCEPT !.next = @ + 1] \in Request
    BY <1>0 DEF Request
  <2> QED BY <1>2, <2>1, <2>2 DEF WritePut
<1>3. CASE LookupManifest(w)
  <2>1. [req[w] EXCEPT !.pc = "insert"] \in Request
    BY <1>0 DEF Request, ReqPc
  <2>2. ASSUME NEW m \in ReusableManifests(req[w].content, req[w].list)
        PROVE [req[w] EXCEPT !.pc = "putfile", !.held = {m}, !.reused = TRUE]
                \in Request
    <3>1. m \in Manifest
      BY <2>2 DEF ReusableManifests, ManifestRow
    <3> QED BY <1>0, <3>1 DEF Request, ReqPc
  <2> QED BY <1>3, <2>1, <2>2 DEF LookupManifest
<1>4. CASE WriteInsert(w)
  <2> PICK m \in Manifest :
        /\ InsertChunks(Hashes(req[w].list))
        /\ InsertManifest(m, req[w].content, req[w].list)
        /\ req' = [req EXCEPT ![w].pc = "putfile", ![w].held = {m}]
    BY <1>4 DEF WriteInsert
  <2>1. req[w].list \in List /\ req[w].content \in Content
    BY <1>0 DEF Request
  <2>2. [req[w] EXCEPT !.pc = "putfile", !.held = {m}] \in Request
    BY <1>0 DEF Request, ReqPc
  <2>3. chunks' \in SUBSET Chunk /\ aged' \in SUBSET (Chunk \cup Manifest)
    BY <2>1, RefRowsFacts DEF InsertChunks
  <2>4. /\ manifests' \in SUBSET ManifestRow
        /\ manifest_chunks' \in SUBSET ChunkRefRow
        /\ refcount' \in [Chunk -> Int]
    BY <2>1, InsertManifestType
  <2> QED BY <1>4, <2>2, <2>3, <2>4 DEF WriteInsert
<1>5. CASE PutFile(w)
  BY <1>0, <1>5 DEF PutFile, VersionRow, Request
<1>6. CASE PutFileFails(w)
  <2>1. [req[w] EXCEPT !.pc = "drop"] \in Request
    BY <1>0 DEF Request, ReqPc
  <2> QED BY <1>6, <2>1 DEF PutFileFails
<1>7. CASE DropOrphanManifest(w)
  BY <1>0, <1>7, DeleteManifestType DEF DropOrphanManifest, Request
<1>8. CASE Fail(w)
  BY <1>8 DEF Fail
<1>9. ASSUME NEW c \in Chunk, PutChunkBytes(w, c) PROVE BaseTypes'
  <2>1. [IdleReq EXCEPT !.pc = "row", !.op = "chunk", !.cur = {c}] \in Request
    BY DEF Request, ReqPc
  <2> QED BY <1>9, <2>1 DEF PutChunkBytes
<1>10. CASE PutChunkRow(w)
  BY <1>0, <1>10 DEF PutChunkRow, InsertChunks, Request
<1>11. ASSUME NEW x \in Content, NEW l \in List, CommitBegin(w, x, l) PROVE BaseTypes'
  <2>1. [IdleReq EXCEPT !.pc = "verify", !.op = "commit", !.content = x,
           !.list = l] \in Request
    BY DEF Request, ReqPc
  <2> QED BY <1>11, <2>1 DEF CommitBegin
<1>12. CASE CommitVerify(w)
  <2>1. [req[w] EXCEPT !.pc = "lookup"] \in Request
    BY <1>0 DEF Request, ReqPc
  <2> QED BY <1>12, <2>1 DEF CommitVerify
<1>13. CASE CommitInsert(w)
  <2> PICK m \in Manifest :
        /\ InsertManifest(m, req[w].content, req[w].list)
        /\ req' = [req EXCEPT ![w].pc = "putfile", ![w].held = {m}]
    BY <1>13 DEF CommitInsert
  <2>1. req[w].list \in List /\ req[w].content \in Content
    BY <1>0 DEF Request
  <2>2. [req[w] EXCEPT !.pc = "putfile", !.held = {m}] \in Request
    BY <1>0 DEF Request, ReqPc
  <2>4. /\ manifests' \in SUBSET ManifestRow
        /\ manifest_chunks' \in SUBSET ChunkRefRow
        /\ refcount' \in [Chunk -> Int]
    BY <2>1, InsertManifestType
  <2> QED BY <1>13, <2>2, <2>4 DEF CommitInsert
<1> QED BY <1>1, <1>2, <1>3, <1>4, <1>5, <1>6, <1>7, <1>8, <1>9, <1>10,
           <1>11, <1>12, <1>13 DEF RequestStep

\* Every step of a collector pass keeps the types.
LEMMA GcStepType ==
  ASSUME BaseTypes, FiniteRefs, NEW g \in Collector, GcStep(g)
  PROVE  BaseTypes'
<1> USE DEF BaseTypes
<1>0. gc[g] \in Pass /\ IdlePass \in Pass
  BY DEF Pass, GcPc, IdlePass
<1>1. CASE GcListManifests(g)
  <2> DEFINE ms == {m \in aged : HasRow(m) /\ ~Referenced(m)}
  <2>1. ms \in SUBSET Manifest
    BY DEF HasRow, ManifestRow
  <2>2. [gc[g] EXCEPT !.pc = "manifests", !.mlist = ms] \in Pass
    BY <1>0, <2>1 DEF Pass, GcPc
  <2> QED BY <1>1, <2>2 DEF GcListManifests
<1>2. CASE GcDeleteManifest(g)
  <2>1. \A m : [gc[g] EXCEPT !.mlist = @ \ {m}] \in Pass
    BY <1>0 DEF Pass
  <2> QED BY <1>2, <2>1, DeleteManifestType DEF GcDeleteManifest
<1>3. CASE GcListChunks(g)
  <2> DEFINE cs == {c \in chunks \cap aged : refcount[c] = 0}
  <2>1. [gc[g] EXCEPT !.pc = "chunks", !.clist = cs] \in Pass
    BY <1>0 DEF Pass, GcPc
  <2> QED BY <1>3, <2>1 DEF GcListChunks
<1>4. CASE GcDeleteChunkRow(g)
  <2> PICK c \in gc[g].clist :
        IF c \in chunks /\ ChunkUnreferenced(c)
        THEN /\ chunks' = chunks \ {c}
             /\ aged' = aged \ {c}
             /\ gc' = [gc EXCEPT ![g].pc = "bytes", ![g].cur = {c},
                                 ![g].clist = @ \ {c}]
        ELSE /\ gc' = [gc EXCEPT ![g].clist = @ \ {c}]
             /\ UNCHANGED <<chunks, aged>>
    BY <1>4 DEF GcDeleteChunkRow
  <2>1. c \in Chunk
    BY <1>0 DEF Pass
  <2>2. /\ [gc[g] EXCEPT !.clist = @ \ {c}] \in Pass
        /\ [gc[g] EXCEPT !.pc = "bytes", !.cur = {c}, !.clist = @ \ {c}] \in Pass
    BY <1>0, <2>1 DEF Pass, GcPc
  <2> QED BY <1>4, <2>2 DEF GcDeleteChunkRow
<1>5. CASE GcDeleteBytes(g)
  <2>1. [gc[g] EXCEPT !.pc = "chunks", !.cur = {}] \in Pass
    BY <1>0 DEF Pass, GcPc
  <2> QED BY <1>5, <2>1 DEF GcDeleteBytes
<1>6. CASE GcEnd(g)
  BY <1>0, <1>6 DEF GcEnd
<1>7. CASE GcAbort(g)
  BY <1>0, <1>7 DEF GcAbort
<1> QED BY <1>1, <1>2, <1>3, <1>4, <1>5, <1>6, <1>7 DEF GcStep

\* The references stay finite in every step.
LEMMA FiniteRefsStep ==
  ASSUME BaseTypes, FiniteRefs, [Next]_vars
  PROVE  FiniteRefs'
<1>1. ASSUME NEW w \in Writer, RequestStep(w) PROVE FiniteRefs'
  <2>0. req[w] \in Request
    BY DEF BaseTypes
  <2>1. CASE WriteInsert(w)
    BY <2>0, <2>1, InsertManifestType DEF WriteInsert, Request
  <2>2. CASE CommitInsert(w)
    BY <2>0, <2>2, InsertManifestType DEF CommitInsert, Request
  <2>3. CASE DropOrphanManifest(w)
    BY <2>3, DeleteManifestType DEF DropOrphanManifest
  <2>4. CASE UNCHANGED manifest_chunks
    BY <2>4 DEF FiniteRefs
  <2> QED BY <1>1, <2>1, <2>2, <2>3, <2>4
        DEF RequestStep, WriteBegin, WritePut, LookupManifest, PutFile,
            PutFileFails, Fail, PutChunkBytes, PutChunkRow, CommitBegin,
            CommitVerify
<1>2. ASSUME NEW g \in Collector, GcStep(g) PROVE FiniteRefs'
  <2>1. CASE GcDeleteManifest(g)
    BY <2>1, DeleteManifestType DEF GcDeleteManifest
  <2>2. CASE UNCHANGED manifest_chunks
    BY <2>2 DEF FiniteRefs
  <2> QED BY <1>2, <2>1, <2>2
        DEF GcStep, GcListManifests, GcListChunks, GcDeleteChunkRow,
            GcDeleteBytes, GcEnd, GcAbort
<1>3. CASE UNCHANGED manifest_chunks
  BY <1>3 DEF FiniteRefs
<1> QED BY <1>1, <1>2, <1>3
      DEF Next, vars, DeleteVersions, RestoreVersion, Age, FsckStep, FsckLoad,
          FsckWalk, FsckDelete, FsckEnd

\* The type invariant of the content store, for every instance: no operation,
\* collector step or repair step leaves the tables or the local state of a
\* request outside their types.
LEMMA BaseTypesCorrect == Spec => [](BaseTypes /\ FiniteRefs)
<1>1. Init => BaseTypes /\ FiniteRefs
  <2>1. Init => FiniteRefs
    BY FS_EmptySet DEF Init, FiniteRefs
  <2> QED BY <2>1, IdleReqType
        DEF Init, BaseTypes, Pass, GcPc, IdlePass, FsckRun, IdleFsck
<1>2. BaseTypes /\ FiniteRefs /\ [Next]_vars => (BaseTypes /\ FiniteRefs)'
  <2> SUFFICES ASSUME BaseTypes, FiniteRefs, [Next]_vars PROVE BaseTypes'
    BY FiniteRefsStep
  <2>1. ASSUME NEW w \in Writer, RequestStep(w) PROVE BaseTypes'
    BY <2>1, RequestStepType
  <2>2. ASSUME NEW g \in Collector, GcStep(g) PROVE BaseTypes'
    BY <2>2, GcStepType
  <2>3. ASSUME NEW rows \in SUBSET versions, DeleteVersions(rows) PROVE BaseTypes'
    BY <2>3 DEF BaseTypes, DeleteVersions
  <2>4. ASSUME NEW old \in versions, RestoreVersion(old) PROVE BaseTypes'
    BY <2>4 DEF BaseTypes, RestoreVersion, VersionRow
  <2>5. ASSUME NEW x \in Chunk \cup Manifest, Age(x) PROVE BaseTypes'
    BY <2>5 DEF BaseTypes, Age
  <2>6. CASE FsckStep
    <3> USE DEF BaseTypes, FsckRun
    <3>1. CASE FsckLoad
      BY <3>1 DEF FsckLoad
    <3>2. CASE FsckWalk
      BY <3>2 DEF FsckWalk
    <3>3. CASE FsckDelete
      BY <3>3 DEF FsckDelete
    <3>4. CASE FsckEnd
      BY <3>4 DEF FsckEnd, IdleFsck
    <3> QED BY <2>6, <3>1, <3>2, <3>3, <3>4 DEF FsckStep
  <2>7. CASE UNCHANGED vars
    BY <2>7 DEF BaseTypes, vars
  <2> QED BY <2>1, <2>2, <2>3, <2>4, <2>5, <2>6, <2>7 DEF Next
<1> QED BY <1>1, <1>2, PTL DEF Spec

-----------------------------------------------------------------------------
(* Reference counts and foreign keys                                       *)
(*                                                                         *)
(* Neither is inductive alone.  A collector that trusts the counts keeps   *)
(* the foreign keys only if the counts are exact; and the counts stay      *)
(* exact because a new manifest's rows cannot exist already and a chunk    *)
(* without a row has no references, which are the foreign keys.            *)

RowInv == BaseTypes /\ FiniteRefs /\ RefcountExact /\ ForeignKeys

\* A tx that adds a manifest whose chunks have rows keeps both.
LEMMA InsertManifestRows ==
  ASSUME RowInv, NEW m \in Manifest, NEW x \in Content, NEW l \in List,
         FreshManifest(m), InsertManifest(m, x, l),
         chunks \subseteq chunks', Hashes(l) \subseteq chunks',
         versions' = versions
  PROVE  (RefcountExact /\ ForeignKeys)'
<1> DEFINE new == RefRows(m, l)
<1>1. /\ IsFiniteSet(new)
      /\ \A r \in new : r.manifest_id = m /\ r.chunk_hash \in Hashes(l)
  BY RefRowsFacts
<1>2. \A r \in manifest_chunks : r.manifest_id # m
  BY DEF RowInv, ForeignKeys, FreshManifest
<1>3. manifest_chunks \cap new = {}
  BY <1>1, <1>2
<1>4. manifest_chunks' = manifest_chunks \cup new
  BY DEF InsertManifest
<1>5. ASSUME NEW c \in Chunk
      PROVE refcount'[c] = Cardinality(RefsTo(manifest_chunks', c))
  <2>1. Cardinality(RefsTo(manifest_chunks \cup new, c))
          = Cardinality(RefsTo(manifest_chunks, c)) + Cardinality(RefsTo(new, c))
    <3> HIDE DEF new
    <3> QED BY <1>1, <1>3, RefsUnion DEF RowInv, FiniteRefs
  <2>2. refcount'[c] = (IF c \in chunks THEN refcount[c] ELSE 0)
                          + Cardinality(RefsTo(new, c))
    BY DEF InsertManifest, BumpedUp
  <2>3. refcount[c] = Cardinality(RefsTo(manifest_chunks, c))
    BY DEF RowInv, RefcountExact
  <2>4. c \notin chunks => refcount[c] = 0
    <3>1. c \notin chunks => RefsTo(manifest_chunks, c) = {}
      BY DEF RowInv, ForeignKeys, RefsTo
    <3>2. RefsTo(manifest_chunks, c) = {} => Cardinality(RefsTo(manifest_chunks, c)) = 0
      BY FS_EmptySet, Zenon
    <3> QED BY <2>3, <3>1, <3>2, Zenon
  <2>5. refcount'[c] = refcount[c] + Cardinality(RefsTo(new, c))
    BY <2>2, <2>4
  <2>6. refcount'[c] = Cardinality(RefsTo(manifest_chunks \cup new, c))
    BY <2>1, <2>3, <2>5
  <2> QED BY <1>4, <2>6, Zenon
<1>6. RefcountExact'
  BY <1>5 DEF RefcountExact
<1>7. \A n : HasRow(n) \/ n = m => HasRow(n)'
  <2> DEFINE row == [id |-> m, content_hash |-> x, chunk_count |-> Len(l)]
  <2>1. manifests' = manifests \cup {row}
    BY DEF InsertManifest
  <2>2. row.id = m
    OBVIOUS
  <2> HIDE DEF row
  <2> QED BY <2>1, <2>2 DEF HasRow
<1>8. ForeignKeys'
  BY <1>1, <1>4, <1>7 DEF RowInv, ForeignKeys
<1> QED BY <1>6, <1>8

\* Deleting a manifest that no version references keeps both.
LEMMA DeleteManifestRows ==
  ASSUME RowInv, NEW m, DeleteManifestRow(m), UNCHANGED <<chunks, versions>>
  PROVE  (RefcountExact /\ ForeignKeys)'
<1>1. CASE Referenced(m)
  BY <1>1 DEF DeleteManifestRow, RowInv, RefcountExact, ForeignKeys, HasRow
<1>2. CASE ~Referenced(m)
  <2> USE <1>2 DEF DeleteManifestRow, DropManifest
  <2>1. manifest_chunks' = manifest_chunks \ RowsOf(m)
    OBVIOUS
  <2>2. ASSUME NEW c \in Chunk
        PROVE refcount'[c] = Cardinality(RefsTo(manifest_chunks', c))
    <3>1. RowsOf(m) \subseteq manifest_chunks
      BY DEF RowsOf
    <3>2. Cardinality(RefsTo(manifest_chunks \ RowsOf(m), c))
            = Cardinality(RefsTo(manifest_chunks, c))
              - Cardinality(RefsTo(RowsOf(m), c))
      BY <3>1, RefsDifference DEF RowInv, FiniteRefs
    <3>3. refcount'[c] = refcount[c] - Cardinality(RefsTo(RowsOf(m), c))
      BY DEF BumpedDown
    <3>4. refcount[c] = Cardinality(RefsTo(manifest_chunks, c))
      BY DEF RowInv, RefcountExact
    <3>5. refcount'[c] = Cardinality(RefsTo(manifest_chunks \ RowsOf(m), c))
      BY <3>2, <3>3, <3>4
    <3> QED BY <2>1, <3>5, Zenon
  <2>3. RefcountExact'
    BY <2>2 DEF RefcountExact
  <2>4. \A n : HasRow(n) /\ n # m => HasRow(n)'
    BY DEF HasRow
  <2>5. \A r \in manifest_chunks' : r \in manifest_chunks /\ r.manifest_id # m
    BY DEF RowsOf
  <2>6. \A v \in versions : v.manifest_id # m
    BY DEF Referenced
  <2>7. ForeignKeys'
    BY <2>4, <2>5, <2>6 DEF RowInv, ForeignKeys
  <2> QED BY <2>3, <2>7
<1> QED BY <1>1, <1>2

\* DeleteChunkRow keeps both: a count of zero means there is no reference.
LEMMA DeleteChunkRows ==
  ASSUME RowInv, NEW g \in Collector, GcDeleteChunkRow(g)
  PROVE  (RefcountExact /\ ForeignKeys)'
<1>0. UNCHANGED <<refcount, manifests, manifest_chunks, versions>>
  BY DEF GcDeleteChunkRow
<1>1. RefcountExact'
  BY <1>0 DEF RowInv, RefcountExact
<1>2. ASSUME NEW r \in manifest_chunks PROVE r.chunk_hash \in chunks'
  <2> DEFINE c == r.chunk_hash
  <2>1. c \in chunks /\ c \in Chunk /\ r \in RefsTo(manifest_chunks, c)
    BY DEF RowInv, ForeignKeys, BaseTypes, RefsTo
  <2>2. IsFiniteSet(RefsTo(manifest_chunks, c))
    BY FS_Subset DEF RowInv, FiniteRefs, RefsTo
  <2>3. Cardinality(RefsTo(manifest_chunks, c)) # 0
    BY <2>1, <2>2, FS_EmptySet
  <2>4. refcount[c] = Cardinality(RefsTo(manifest_chunks, c))
    BY <2>1 DEF RowInv, RefcountExact
  <2>5. refcount[c] # 0
    BY <2>3, <2>4
  <2> QED BY <2>1, <2>5 DEF GcDeleteChunkRow, ChunkUnreferenced
<1>3. ForeignKeys'
  BY <1>0, <1>2 DEF RowInv, ForeignKeys, HasRow
<1> QED BY <1>1, <1>3

\* Steps that leave the tables alone, or only add chunk rows or drop versions.
LEMMA QuietRows ==
  ASSUME RowInv, UNCHANGED <<refcount, manifests, manifest_chunks>>,
         chunks \subseteq chunks', versions' \subseteq versions
  PROVE  (RefcountExact /\ ForeignKeys)'
BY DEF RowInv, RefcountExact, ForeignKeys, HasRow

\* Every step keeps the counts and the foreign keys.
LEMMA RowInvStep ==
  ASSUME RowInv, [Next]_vars
  PROVE  (RefcountExact /\ ForeignKeys)'
<1>1. ASSUME NEW w \in Writer, RequestStep(w) PROVE (RefcountExact /\ ForeignKeys)'
  <2>0. req[w] \in Request /\ req[w].list \in List /\ req[w].content \in Content
    BY DEF RowInv, BaseTypes, Request
  <2>1. CASE WriteInsert(w)
    <3>1. chunks' = chunks \cup Hashes(req[w].list) /\ versions' = versions
      BY <2>1 DEF WriteInsert, InsertChunks
    <3> QED BY <2>0, <2>1, <3>1, InsertManifestRows DEF WriteInsert
  <2>2. CASE CommitInsert(w)
    BY <2>0, <2>2, InsertManifestRows DEF CommitInsert
  <2>3. CASE DropOrphanManifest(w)
    BY <2>3, DeleteManifestRows DEF DropOrphanManifest
  <2>4. CASE PutFile(w)
    BY <2>4 DEF PutFile, RowInv, RefcountExact, ForeignKeys, HasRow
  <2>5. CASE PutChunkRow(w)
    BY <2>5, QuietRows DEF PutChunkRow, InsertChunks
  <2>6. CASE UNCHANGED <<refcount, manifests, manifest_chunks, chunks, versions>>
    BY <2>6, QuietRows
  <2> QED BY <1>1, <2>1, <2>2, <2>3, <2>4, <2>5, <2>6
        DEF RequestStep, WriteBegin, WritePut, LookupManifest, PutFileFails,
            Fail, PutChunkBytes, CommitBegin, CommitVerify
<1>2. ASSUME NEW g \in Collector, GcStep(g) PROVE (RefcountExact /\ ForeignKeys)'
  <2>1. CASE GcDeleteManifest(g)
    BY <2>1, DeleteManifestRows DEF GcDeleteManifest
  <2>2. CASE GcDeleteChunkRow(g)
    BY <2>2, DeleteChunkRows
  <2>3. CASE UNCHANGED <<refcount, manifests, manifest_chunks, chunks, versions>>
    BY <2>3, QuietRows
  <2> QED BY <1>2, <2>1, <2>2, <2>3
        DEF GcStep, GcListManifests, GcListChunks, GcDeleteBytes, GcEnd, GcAbort
<1>3. ASSUME NEW rows \in SUBSET versions, DeleteVersions(rows)
      PROVE (RefcountExact /\ ForeignKeys)'
  BY <1>3, QuietRows DEF DeleteVersions
<1>4. ASSUME NEW old \in versions, RestoreVersion(old)
      PROVE (RefcountExact /\ ForeignKeys)'
  BY <1>4 DEF RestoreVersion, RowInv, RefcountExact, ForeignKeys, HasRow
<1>5. CASE UNCHANGED <<refcount, manifests, manifest_chunks, chunks, versions>>
  BY <1>5, QuietRows
<1> QED BY <1>1, <1>2, <1>3, <1>4, <1>5
      DEF Next, vars, Age, FsckStep, FsckLoad, FsckWalk, FsckDelete, FsckEnd

\* The stored reference counts are exact and the collector's guards alone keep
\* every foreign key, however requests, collectors and repair interleave.
THEOREM RowsCorrect == Spec => [](RefcountExact /\ ForeignKeys)
<1>1. Init => RefcountExact /\ ForeignKeys
  <2>1. \A c : RefsTo({}, c) = {}
    BY DEF RefsTo
  <2>2. \A c : Cardinality(RefsTo({}, c)) = 0
    BY <2>1, FS_EmptySet
  <2> QED BY <2>2 DEF Init, RefcountExact, ForeignKeys
<1>2. BaseTypes /\ FiniteRefs /\ RefcountExact /\ ForeignKeys /\ [Next]_vars
        => (RefcountExact /\ ForeignKeys)'
  BY RowInvStep DEF RowInv
<1> QED BY <1>1, <1>2, BaseTypesCorrect, PTL DEF Spec

\* Type correctness.  No trigger ever takes a count below zero, so the CHECK on
\* chunks.refcount never fails the transaction that removes a manifest.
THEOREM TypeCorrect == Spec => []TypeOK
<1>1. BaseTypes /\ FiniteRefs /\ RefcountExact => TypeOK
  <2> SUFFICES ASSUME BaseTypes, FiniteRefs, RefcountExact PROVE TypeOK
    OBVIOUS
  <2>1. \A c \in Chunk : refcount[c] \in Nat
    BY RefsFinite DEF FiniteRefs, RefcountExact
  <2>2. refcount \in [Chunk -> Nat]
    BY <2>1 DEF BaseTypes
  <2> QED BY <2>2 DEF BaseTypes, TypeOK
<1> QED BY <1>1, BaseTypesCorrect, RowsCorrect, PTL

-----------------------------------------------------------------------------
(* No holes while maintenance excludes requests                            *)
(*                                                                         *)
(* A chunk row always has bytes: requests put bytes before rows, and the   *)
(* collector and repair remove bytes only of chunks that have no row.  The *)
(* second half is what a concurrent request destroys.                      *)

Exclusive == MaintenanceIdle \/ WritersIdle
BytesBeforeRows(w) ==
  /\ req[w].pc = "put" =>
       /\ req[w].op = "write"
       /\ \A i \in 1..Len(req[w].list) : i < req[w].next => req[w].list[i] \in bytes
  /\ req[w].pc \in {"verify", "lookup"} => req[w].op = "commit"
  /\ req[w].pc = "insert" /\ req[w].op = "write" => Hashes(req[w].list) \subseteq bytes
  /\ req[w].pc = "row" => req[w].cur \subseteq bytes
RowsBeforeBytes ==
  /\ \A g \in Collector : gc[g].pc = "bytes" => gc[g].cur \cap chunks = {}
  /\ fsck.pc = "walk" => chunks \subseteq fsck.known
  /\ fsck.pc = "repair" => fsck.orphans \cap chunks = {}

QuietInv ==
  /\ Exclusive
  /\ chunks \subseteq bytes
  /\ RowsBeforeBytes
  /\ \A w \in Writer : BytesBeforeRows(w)

\* A request step keeps the quiet invariant.
LEMMA QuietRequestStep ==
  ASSUME ~Overlap, BaseTypes, QuietInv, NEW w \in Writer, RequestStep(w)
  PROVE  QuietInv'
<1>1. UNCHANGED <<gc, fsck>>
  BY DEF RequestStep, WriteBegin, WritePut, LookupManifest, WriteInsert,
     PutFile, PutFileFails, DropOrphanManifest, Fail, PutChunkBytes,
     PutChunkRow, CommitBegin, CommitVerify, CommitInsert
<1>2. MaintenanceIdle
  BY DEF RequestStep, WriteBegin, WritePut, LookupManifest, WriteInsert,
     PutFile, PutFileFails, DropOrphanManifest, Fail, PutChunkBytes,
     PutChunkRow, CommitBegin, CommitVerify, CommitInsert, QuietInv, Exclusive,
     WritersIdle
<1>3. Exclusive' /\ RowsBeforeBytes'
  BY <1>1, <1>2 DEF Exclusive, MaintenanceIdle, RowsBeforeBytes
<1>4. /\ bytes \subseteq bytes'
      /\ \A v \in Writer : v # w => req'[v] = req[v]
  BY DEF RequestStep, WriteBegin, WritePut, LookupManifest, WriteInsert,
     PutFile, PutFileFails, DropOrphanManifest, Fail, PutChunkBytes,
     PutChunkRow, CommitBegin, CommitVerify, CommitInsert, BaseTypes
<1>5. \A v \in Writer : v # w => BytesBeforeRows(v)'
  BY <1>4 DEF QuietInv, BytesBeforeRows
<1>6. IdleReq.pc = "idle" /\ IdleReq.op = "write" /\ IdleReq.next = 1
  BY DEF IdleReq
<1>7. req[w] \in Request /\ IdleReq \in Request
  BY IdleReqType DEF BaseTypes
<1> USE <1>6, <1>7 DEF BaseTypes
<1>8. chunks' \subseteq bytes' /\ BytesBeforeRows(w)'
  <2> USE DEF QuietInv, BytesBeforeRows
  <2>1. ASSUME NEW x \in Content, WriteBegin(w, x)
        PROVE chunks' \subseteq bytes' /\ BytesBeforeRows(w)'
    <3>1. /\ req'[w].pc = "put" /\ req'[w].op = "write" /\ req'[w].next = 1
      BY <2>1 DEF WriteBegin, Request
    <3> QED BY <2>1, <3>1 DEF WriteBegin
  <2>2. CASE WritePut(w)
    <3>1. /\ req'[w].pc = "put" /\ req'[w].op = req[w].op
          /\ req'[w].list = req[w].list /\ req'[w].next = req[w].next + 1
      BY <2>2 DEF WritePut, Request
    <3>2. req[w].next \in Nat /\ Len(req[w].list) \in Nat
      BY ListAssumption DEF Request
    <3>3. bytes' = bytes \cup {req[w].list[req[w].next]} /\ req[w].pc = "put"
      BY <2>2 DEF WritePut
    <3>4. ASSUME NEW i \in 1..Len(req[w].list), i < req[w].next + 1
          PROVE req[w].list[i] \in bytes'
      <4>1. i < req[w].next \/ i = req[w].next
        BY <3>2, <3>4
      <4> QED BY <3>3, <4>1
    <3> QED BY <2>2, <3>1, <3>3, <3>4 DEF WritePut
  <2>3. CASE LookupManifest(w)
    <3>1. req[w].pc = "put" => Hashes(req[w].list) \subseteq bytes
      <4>1. ASSUME req[w].pc = "put", NEW i \in 1..Len(req[w].list)
            PROVE req[w].list[i] \in bytes
        <5>1. req[w].next \in Nat /\ Len(req[w].list) \in Nat
          BY ListAssumption DEF Request
        <5>2. req[w].next > Len(req[w].list)
          BY <2>3, <4>1, Zenon DEF LookupManifest
        <5>3. i < req[w].next
          BY <5>1, <5>2
        <5> QED BY <4>1, <5>3
      <4> QED BY <4>1 DEF Hashes
    <3>2. /\ req'[w].pc \in {"putfile", "insert"}
          /\ req'[w].op = req[w].op /\ req'[w].list = req[w].list
      <4>1. \/ \E m : req' = [req EXCEPT ![w].pc = "putfile", ![w].held = {m},
                                         ![w].reused = TRUE]
            \/ req' = [req EXCEPT ![w].pc = "insert"]
        BY <2>3, Zenon DEF LookupManifest
      <4>2. ASSUME NEW m, req' = [req EXCEPT ![w].pc = "putfile",
                                             ![w].held = {m}, ![w].reused = TRUE]
            PROVE  /\ req'[w].pc = "putfile" /\ req'[w].op = req[w].op
                   /\ req'[w].list = req[w].list
        BY <4>2 DEF Request
      <4>3. ASSUME req' = [req EXCEPT ![w].pc = "insert"]
            PROVE  /\ req'[w].pc = "insert" /\ req'[w].op = req[w].op
                   /\ req'[w].list = req[w].list
        BY <4>3 DEF Request
      <4> QED BY <4>1, <4>2, <4>3
    <3>3. req[w].pc \in {"put", "lookup"} /\ UNCHANGED <<chunks, bytes>>
      BY <2>3 DEF LookupManifest
    <3> QED BY <3>1, <3>2, <3>3
  <2>4. CASE WriteInsert(w)
    <3>1. Hashes(req[w].list) \subseteq bytes /\ bytes' = bytes
      BY <2>4 DEF WriteInsert
    <3>2. chunks' = chunks \cup Hashes(req[w].list)
      BY <2>4 DEF WriteInsert, InsertChunks
    <3>3. req'[w].pc = "putfile"
      BY <2>4 DEF WriteInsert, Request
    <3> QED BY <3>1, <3>2, <3>3
  <2>5. CASE PutFile(w) \/ Fail(w)
    BY <2>5 DEF PutFile, Fail
  <2>6. CASE PutFileFails(w)
    <3>1. req'[w].pc \in {"idle", "drop"}
      BY <2>6 DEF PutFileFails, Request
    <3> QED BY <2>6, <3>1 DEF PutFileFails
  <2>7. CASE DropOrphanManifest(w)
    BY <2>7 DEF DropOrphanManifest
  <2>8. ASSUME NEW c \in Chunk, PutChunkBytes(w, c)
        PROVE chunks' \subseteq bytes' /\ BytesBeforeRows(w)'
    <3>1. req'[w].pc = "row" /\ req'[w].cur = {c}
      BY <2>8 DEF PutChunkBytes, Request
    <3> QED BY <2>8, <3>1 DEF PutChunkBytes
  <2>9. CASE PutChunkRow(w)
    BY <2>9 DEF PutChunkRow, InsertChunks
  <2>10. ASSUME NEW x \in Content, NEW l \in List, CommitBegin(w, x, l)
         PROVE chunks' \subseteq bytes' /\ BytesBeforeRows(w)'
    <3>1. req'[w].pc = "verify" /\ req'[w].op = "commit"
      BY <2>10 DEF CommitBegin, Request
    <3> QED BY <2>10, <3>1 DEF CommitBegin
  <2>11. CASE CommitVerify(w)
    <3>1. req'[w].pc = "idle" \/ (req'[w].pc = "lookup" /\ req'[w].op = req[w].op)
      BY <2>11 DEF CommitVerify, Request
    <3>2. req[w].op = "commit"
      BY <2>11 DEF CommitVerify
    <3> QED BY <2>11, <3>1, <3>2 DEF CommitVerify
  <2>12. CASE CommitInsert(w)
    <3>1. req'[w].pc = "putfile"
      BY <2>12 DEF CommitInsert, Request
    <3> QED BY <2>12, <3>1 DEF CommitInsert
  <2> QED BY <2>1, <2>2, <2>3, <2>4, <2>5, <2>6, <2>7, <2>8, <2>9, <2>10,
             <2>11, <2>12 DEF RequestStep
<1> QED BY <1>3, <1>5, <1>8 DEF QuietInv

\* A collector step keeps the quiet invariant.
LEMMA QuietGcStep ==
  ASSUME ~Overlap, BaseTypes, QuietInv, NEW g \in Collector, GcStep(g)
  PROVE  QuietInv'
<1>1. req' = req
  BY DEF GcStep, GcListManifests, GcDeleteManifest, GcListChunks,
     GcDeleteChunkRow, GcDeleteBytes, GcEnd, GcAbort
<1>2. WritersIdle
  BY DEF GcStep, GcListManifests, GcDeleteManifest, GcListChunks,
     GcDeleteChunkRow, GcDeleteBytes, GcEnd, GcAbort, QuietInv, Exclusive,
     MaintenanceIdle
<1>3. WritersIdle' /\ Exclusive'
  BY <1>1, <1>2 DEF WritersIdle, Exclusive
<1>4. \A w \in Writer : BytesBeforeRows(w)'
  BY <1>3 DEF WritersIdle, BytesBeforeRows
<1>5. chunks' \subseteq chunks /\ fsck' = fsck
  BY DEF GcStep, GcListManifests, GcDeleteManifest, GcListChunks,
     GcDeleteChunkRow, GcDeleteBytes, GcEnd, GcAbort
<1>6. gc[g] \in Pass
  BY DEF BaseTypes
<1>7. chunks' \subseteq bytes'
  <2>1. CASE GcDeleteBytes(g)
    BY <2>1 DEF GcDeleteBytes, QuietInv, RowsBeforeBytes
  <2>2. CASE bytes' = bytes
    BY <1>5, <2>2 DEF QuietInv
  <2> QED BY <2>1, <2>2 DEF GcStep, GcListManifests, GcDeleteManifest,
        GcListChunks, GcDeleteChunkRow, GcEnd, GcAbort
<1>8. \A h \in Collector : gc'[h].pc = "bytes" => gc'[h].cur \cap chunks' = {}
  <2>1. \A h \in Collector : h # g => gc'[h] = gc[h]
    BY DEF GcStep, GcListManifests, GcDeleteManifest, GcListChunks,
       GcDeleteChunkRow, GcDeleteBytes, GcEnd, GcAbort, BaseTypes
  <2>2. gc'[g].pc = "bytes" => gc'[g].cur \cap chunks' = {}
    <3>1. CASE GcDeleteChunkRow(g)
      <4> PICK c \in gc[g].clist :
            \/ /\ chunks' = chunks \ {c}
               /\ gc' = [gc EXCEPT ![g].pc = "bytes", ![g].cur = {c},
                                   ![g].clist = @ \ {c}]
            \/ gc' = [gc EXCEPT ![g].clist = @ \ {c}]
        BY <3>1 DEF GcDeleteChunkRow
      <4>1. ASSUME gc' = [gc EXCEPT ![g].clist = @ \ {c}]
            PROVE  gc'[g].pc = "chunks"
        BY <1>6, <3>1, <4>1 DEF GcDeleteChunkRow, Pass, BaseTypes
      <4>2. ASSUME gc' = [gc EXCEPT ![g].pc = "bytes", ![g].cur = {c},
                                    ![g].clist = @ \ {c}]
            PROVE  gc'[g].cur = {c}
        BY <1>6, <4>2 DEF Pass, BaseTypes
      <4> QED BY <4>1, <4>2
    <3>2. CASE ~GcDeleteChunkRow(g)
      <4>1. gc'[g].pc # "bytes"
        BY <1>6, <3>2 DEF GcStep, GcListManifests, GcDeleteManifest,
           GcListChunks, GcDeleteBytes, GcEnd, GcAbort, Pass, BaseTypes, IdlePass
      <4> QED BY <4>1
    <3> QED BY <3>1, <3>2
  <2> QED BY <1>5, <2>1, <2>2 DEF QuietInv, RowsBeforeBytes
<1>9. RowsBeforeBytes'
  BY <1>5, <1>8 DEF QuietInv, RowsBeforeBytes
<1> QED BY <1>3, <1>4, <1>7, <1>9 DEF QuietInv

\* A repair step keeps the quiet invariant.
LEMMA QuietFsckStep ==
  ASSUME ~Overlap, BaseTypes, QuietInv, FsckStep
  PROVE  QuietInv'
<1>1. UNCHANGED <<req, gc, chunks>>
  BY DEF FsckStep, FsckLoad, FsckWalk, FsckDelete, FsckEnd
<1>2. WritersIdle
  BY DEF FsckStep, FsckLoad, FsckWalk, FsckDelete, FsckEnd, QuietInv,
     Exclusive, MaintenanceIdle
<1>3. WritersIdle' /\ Exclusive'
  BY <1>1, <1>2 DEF WritersIdle, Exclusive
<1>4. \A w \in Writer : BytesBeforeRows(w)'
  BY <1>3 DEF WritersIdle, BytesBeforeRows
<1>5. chunks' \subseteq bytes' /\ RowsBeforeBytes'
  <2> USE <1>1 DEF QuietInv, RowsBeforeBytes, BaseTypes, FsckRun
  <2>1. CASE FsckLoad
    BY <2>1 DEF FsckLoad
  <2>2. CASE FsckWalk
    BY <2>2 DEF FsckWalk
  <2>3. CASE FsckDelete
    BY <2>3 DEF FsckDelete
  <2>4. CASE FsckEnd
    BY <2>4 DEF FsckEnd, IdleFsck
  <2> QED BY <2>1, <2>2, <2>3, <2>4 DEF FsckStep
<1> QED BY <1>3, <1>4, <1>5 DEF QuietInv

\* When the collector and fsck --repair run only while no request is writing,
\* no version ever references a chunk without bytes, whatever fails or crashes
\* in between.
THEOREM QuietNoHoles ==
  ASSUME ~Overlap
  PROVE  Spec => []NoHoles
<1>1. Init => QuietInv
  BY DEF Init, QuietInv, Exclusive, MaintenanceIdle, WritersIdle,
     RowsBeforeBytes, BytesBeforeRows, IdleReq, IdlePass, IdleFsck
<1>2. BaseTypes /\ QuietInv /\ [Next]_vars => QuietInv'
  <2> SUFFICES ASSUME BaseTypes, QuietInv, [Next]_vars PROVE QuietInv'
    OBVIOUS
  <2>1. ASSUME NEW w \in Writer, RequestStep(w) PROVE QuietInv'
    BY <2>1, QuietRequestStep
  <2>2. ASSUME NEW g \in Collector, GcStep(g) PROVE QuietInv'
    BY <2>2, QuietGcStep
  <2>3. CASE FsckStep
    BY <2>3, QuietFsckStep
  <2>4. CASE UNCHANGED <<bytes, chunks, req, gc, fsck>>
    BY <2>4 DEF QuietInv, Exclusive, MaintenanceIdle, WritersIdle,
       RowsBeforeBytes, BytesBeforeRows
  <2> QED BY <2>1, <2>2, <2>3, <2>4
        DEF Next, vars, DeleteVersions, RestoreVersion, Age
<1>3. QuietInv /\ ForeignKeys => NoHoles
  BY DEF QuietInv, ForeignKeys, NoHoles, RowsOf
<1> QED BY <1>1, <1>2, <1>3, BaseTypesCorrect, RowsCorrect, PTL DEF Spec
-----------------------------------------------------------------------------
(* Manifests are true                                                      *)

\* What a request carries: but for a list that is still to be verified, it is of the
\* content that it says it is.
ContentsTrue == \A w \in Writer : req[w].pc # "verify" => Plain[req[w].list] = req[w].content
OneRow == \A r, s \in manifests : r.id = s.id => r = s
TrueInv == ContentsTrue /\ OneRow /\ HonestManifests /\ HeldManifestMatches

LEMMA IdleReqTrue == IdleReq.pc = "idle" /\ Plain[IdleReq.list] = IdleReq.content
<1>1. PICK x \in Content : x = CHOOSE y \in Content : TRUE
  BY ContentAssumption
<1>2. IdleReq.list = Split[x] /\ IdleReq.content = x /\ IdleReq.pc = "idle"
  BY <1>1 DEF IdleReq
<1> QED BY <1>1, <1>2, SplitAssumption

\* A manifest that is inserted has the rows of its list and no others.
LEMMA InsertManifestTrue ==
  ASSUME BaseTypes, ForeignKeys, TrueInv, NEW m \in Manifest, NEW x \in Content, NEW l \in List,
         ~HasRow(m), InsertManifest(m, x, l), Plain[l] = x
  PROVE  /\ OneRow' /\ HonestManifests'
         /\ \A r \in manifests' : r.id = m => r.content_hash = x
<1>1. PICK row : row = [id |-> m, content_hash |-> x, chunk_count |-> Len(l)]
  OBVIOUS
<1>2. /\ manifests' = manifests \cup {row} /\ row.id = m /\ row.content_hash = x
      /\ manifest_chunks' = manifest_chunks \cup RefRows(m, l)
  BY <1>1 DEF InsertManifest
<1>3. \A r \in manifests : r.id # m
  BY DEF HasRow
<1>4. OneRow'
  BY <1>2, <1>3 DEF TrueInv, OneRow
<1>5. \A r \in RefRows(m, l) : r.manifest_id = m
  BY RefRowsFacts
<1>6. \A r \in manifest_chunks : r.manifest_id # m
  BY <1>3 DEF ForeignKeys, HasRow
<1>7. RowsOf(m)' = RefRows(m, l)
  BY <1>2, <1>5, <1>6 DEF RowsOf
<1>8. ASSUME NEW n, n # m PROVE RowsOf(n)' = RowsOf(n)
  BY <1>2, <1>5, <1>8 DEF RowsOf
<1>9. ASSUME NEW r \in manifests'
      PROVE  \E k \in List : RowsOf(r.id)' = RefRows(r.id, k) /\ Plain[k] = r.content_hash
  <2>1. CASE r = row
    BY <1>2, <1>7, <2>1
  <2>2. CASE r \in manifests
    <3>1. PICK k \in List : RowsOf(r.id) = RefRows(r.id, k) /\ Plain[k] = r.content_hash
      BY <2>2 DEF TrueInv, HonestManifests
    <3>2. PICK n : n = r.id
      OBVIOUS
    <3>3. RowsOf(n)' = RowsOf(n)
      BY <1>3, <1>8, <2>2, <3>2
    <3> QED BY <3>1, <3>2, <3>3
  <2> QED BY <1>2, <2>1, <2>2
<1>10. HonestManifests'
  BY <1>9 DEF HonestManifests, RowsOf
<1> QED BY <1>2, <1>3, <1>4, <1>10

\* One that goes takes its own rows only.
LEMMA DeleteManifestTrue ==
  ASSUME TrueInv, NEW m, DeleteManifestRow(m)
  PROVE  OneRow' /\ HonestManifests' /\ manifests' \subseteq manifests
<1>1. CASE Referenced(m)
  BY <1>1 DEF DeleteManifestRow, TrueInv, OneRow, HonestManifests, RowsOf
<1>2. CASE ~Referenced(m)
  <2>1. /\ manifests' = {r \in manifests : r.id # m}
        /\ manifest_chunks' = manifest_chunks \ RowsOf(m)
    BY <1>2 DEF DeleteManifestRow, DropManifest
  <2>2. ASSUME NEW n, n # m PROVE RowsOf(n)' = RowsOf(n)
    BY <2>1, <2>2 DEF RowsOf
  <2>3. ASSUME NEW r \in manifests'
        PROVE  \E k \in List : RowsOf(r.id)' = RefRows(r.id, k) /\ Plain[k] = r.content_hash
    <3>1. PICK k \in List : RowsOf(r.id) = RefRows(r.id, k) /\ Plain[k] = r.content_hash
      BY <2>1 DEF TrueInv, HonestManifests
    <3>2. PICK n : n = r.id
      OBVIOUS
    <3>3. RowsOf(n)' = RowsOf(n)
      BY <2>1, <2>2, <3>2
    <3> QED BY <3>1, <3>2, <3>3
  <2>4. HonestManifests'
    BY <2>3 DEF HonestManifests, RowsOf
  <2> QED BY <2>1, <2>4 DEF TrueInv, OneRow
<1> QED BY <1>1, <1>2

\* The tables rest, and requests go on with what they carry.
LEMMA RestTrue ==
  ASSUME TrueInv, UNCHANGED <<manifests, manifest_chunks>>
  PROVE  OneRow' /\ HonestManifests'
BY DEF TrueInv, OneRow, HonestManifests, RowsOf

\* One request goes on.
LEMMA RequestTrue ==
  ASSUME BaseTypes, ForeignKeys, TrueInv, NEW w \in Writer, RequestStep(w)
  PROVE  TrueInv'
<1> DEFINE Good(q) == q.pc # "verify" => Plain[q.list] = q.content
           Matches(q) == \A r \in manifests' : q.pc = "putfile" /\ r.id \in q.held
                                                 => r.content_hash = q.content
<1>0. req[w] \in Request /\ req \in [Writer -> Request]
  BY DEF BaseTypes
<1>1. Good(req[w])
  BY DEF TrueInv, ContentsTrue
<1>2. \A v \in Writer : v # w => req'[v] = req[v]
  BY <1>0 DEF RequestStep, WriteBegin, WritePut, LookupManifest, WriteInsert,
     PutFile, PutFileFails, DropOrphanManifest, Fail, PutChunkBytes,
     PutChunkRow, CommitBegin, CommitVerify, CommitInsert
<1>3. SUFFICES /\ OneRow' /\ HonestManifests' /\ Good(req'[w]) /\ Matches(req'[w])
               /\ \A v \in Writer : v # w => \A r \in manifests' \ manifests : r.id \notin req[v].held
  BY <1>2 DEF TrueInv, ContentsTrue, HeldManifestMatches
<1>4. Good(IdleReq) /\ Matches(IdleReq)
  BY IdleReqTrue
<1>5. CASE WriteInsert(w) \/ CommitInsert(w)
  <2>1. PICK m \in Manifest :
          /\ FreshManifest(m)
          /\ InsertManifest(m, req[w].content, req[w].list)
          /\ req' = [req EXCEPT ![w].pc = "putfile", ![w].held = {m}]
    BY <1>5 DEF WriteInsert, CommitInsert
  <2>2. PICK x \in Content, l \in List : x = req[w].content /\ l = req[w].list
    BY <1>0 DEF Request
  <2>3. Plain[l] = x
    BY <1>1, <1>5, <2>2 DEF WriteInsert, CommitInsert
  <2>4. ~HasRow(m) /\ \A v \in Writer : m \notin req[v].held
    BY <2>1 DEF FreshManifest
  <2>5. InsertManifest(m, x, l)
    BY <2>1, <2>2
  <2>6. /\ OneRow' /\ HonestManifests'
        /\ \A r \in manifests' : r.id = m => r.content_hash = x
    BY <2>3, <2>4, <2>5, InsertManifestTrue
  <2>7. /\ req'[w].pc = "putfile" /\ req'[w].held = {m}
        /\ req'[w].content = x /\ req'[w].list = l
    BY <1>0, <2>1, <2>2 DEF Request
  <2>8. \A r \in manifests' \ manifests : r.id = m
    BY <2>5 DEF InsertManifest
  <2> QED BY <2>3, <2>4, <2>6, <2>7, <2>8
<1>6. CASE DropOrphanManifest(w)
  <2>1. req'[w] = IdleReq
    BY <1>0, <1>6 DEF DropOrphanManifest
  <2>2. OneRow' /\ HonestManifests' /\ manifests' \subseteq manifests
    BY <1>6, DeleteManifestTrue DEF DropOrphanManifest
  <2> QED BY <1>4, <2>1, <2>2
<1>7. CASE ~WriteInsert(w) /\ ~CommitInsert(w) /\ ~DropOrphanManifest(w)
  <2>1. UNCHANGED <<manifests, manifest_chunks>>
    BY <1>7 DEF RequestStep, WriteBegin, WritePut, LookupManifest, PutFile, PutFileFails, Fail,
       PutChunkBytes, PutChunkRow, CommitBegin, CommitVerify
  <2>2. OneRow' /\ HonestManifests' /\ manifests' = manifests
    BY <2>1, RestTrue
  <2>3. Good(req'[w]) /\ Matches(req'[w])
    <3>1. ASSUME NEW x \in Content, WriteBegin(w, x) PROVE Good(req'[w]) /\ Matches(req'[w])
      <4>1. req'[w].pc = "put" /\ req'[w].list = Split[x] /\ req'[w].content = x
        BY <1>0, <3>1, IdleReqType DEF WriteBegin, Request
      <4> QED BY <4>1, SplitAssumption
    <3>2. CASE WritePut(w)
      <4>1. /\ req'[w].pc = "put" /\ req'[w].list = req[w].list
            /\ req'[w].content = req[w].content /\ req[w].pc = "put"
        BY <1>0, <3>2 DEF WritePut, Request
      <4> QED BY <1>1, <4>1
    <3>3. CASE LookupManifest(w)
      <4>1. /\ req[w].pc \in {"put", "lookup"}
            /\ \/ \E m \in ReusableManifests(req[w].content, req[w].list) :
                    req' = [req EXCEPT ![w].pc = "putfile", ![w].held = {m}, ![w].reused = TRUE]
               \/ req' = [req EXCEPT ![w].pc = "insert"]
        BY <3>3 DEF LookupManifest
      <4>2. ASSUME NEW m \in ReusableManifests(req[w].content, req[w].list),
                   req' = [req EXCEPT ![w].pc = "putfile", ![w].held = {m}, ![w].reused = TRUE]
            PROVE  Good(req'[w]) /\ Matches(req'[w])
        <5>1. /\ req'[w].pc = "putfile" /\ req'[w].held = {m}
              /\ req'[w].content = req[w].content /\ req'[w].list = req[w].list
          BY <1>0, <4>2 DEF Request
        <5>2. PICK s \in manifests : s.id = m /\ s.content_hash = req[w].content
          BY <4>2 DEF ReusableManifests
        <5>3. \A r \in manifests : r.id = m => r = s
          BY <5>2 DEF TrueInv, OneRow
        <5> QED BY <1>1, <2>2, <4>1, <5>1, <5>2, <5>3
      <4>3. ASSUME req' = [req EXCEPT ![w].pc = "insert"]
            PROVE  Good(req'[w]) /\ Matches(req'[w])
        <5>1. req'[w].pc = "insert" /\ req'[w].content = req[w].content /\ req'[w].list = req[w].list
          BY <1>0, <4>3 DEF Request
        <5> QED BY <1>1, <4>1, <5>1
      <4> QED BY <4>1, <4>2, <4>3
    <3>4. CASE PutFile(w) \/ Fail(w) \/ PutChunkRow(w)
      <4>1. req'[w] = IdleReq
        BY <1>0, <3>4 DEF PutFile, Fail, PutChunkRow
      <4> QED BY <1>4, <4>1
    <3>5. CASE PutFileFails(w)
      <4>1. \/ req'[w] = IdleReq
            \/ /\ req'[w].pc = "drop" /\ req'[w].content = req[w].content
               /\ req'[w].list = req[w].list /\ req[w].pc = "putfile"
        BY <1>0, <3>5 DEF PutFileFails, Request
      <4> QED BY <1>1, <1>4, <4>1
    <3>6. ASSUME NEW c \in Chunk, PutChunkBytes(w, c) PROVE Good(req'[w]) /\ Matches(req'[w])
      <4>1. req'[w].pc = "row" /\ req'[w].content = IdleReq.content /\ req'[w].list = IdleReq.list
        BY <1>0, <3>6, IdleReqType DEF PutChunkBytes, Request
      <4> QED BY <4>1, IdleReqTrue
    <3>7. ASSUME NEW x \in Content, NEW l \in List, CommitBegin(w, x, l)
          PROVE  Good(req'[w]) /\ Matches(req'[w])
      <4>1. req'[w].pc = "verify"
        BY <1>0, <3>7, IdleReqType DEF CommitBegin, Request
      <4> QED BY <4>1
    <3>8. CASE CommitVerify(w)
      <4>1. CASE ContentVerified(req[w].content, req[w].list)
        <5>1. req'[w].pc = "lookup" /\ req'[w].content = req[w].content /\ req'[w].list = req[w].list
          BY <1>0, <3>8, <4>1 DEF CommitVerify, Request
        <5> QED BY <4>1, <5>1 DEF ContentVerified
      <4>2. CASE ~ContentVerified(req[w].content, req[w].list)
        <5>1. req'[w] = IdleReq
          BY <1>0, <3>8, <4>2 DEF CommitVerify
        <5> QED BY <1>4, <5>1
      <4> QED BY <4>1, <4>2
    <3> HIDE DEF Good, Matches
    <3> QED BY <1>7, <3>1, <3>2, <3>3, <3>4, <3>5, <3>6, <3>7, <3>8 DEF RequestStep
  <2> QED BY <2>2, <2>3
<1> QED BY <1>5, <1>6, <1>7

LEMMA TrueInvStep ==
  ASSUME BaseTypes, ForeignKeys, TrueInv, [Next]_vars
  PROVE  TrueInv'
<1>1. ASSUME NEW w \in Writer, RequestStep(w) PROVE TrueInv'
  BY <1>1, RequestTrue
<1>2. ASSUME NEW g \in Collector, GcDeleteManifest(g) PROVE TrueInv'
  <2>1. OneRow' /\ HonestManifests' /\ manifests' \subseteq manifests /\ req' = req
    BY <1>2, DeleteManifestTrue DEF GcDeleteManifest
  <2> QED BY <2>1 DEF TrueInv, ContentsTrue, HeldManifestMatches
<1>3. CASE UNCHANGED <<manifests, manifest_chunks, req>>
  BY <1>3, RestTrue DEF TrueInv, ContentsTrue, HeldManifestMatches
<1> QED BY <1>1, <1>2, <1>3
      DEF Next, vars, DeleteVersions, RestoreVersion, Age, FsckStep, FsckLoad, FsckWalk, FsckDelete,
          FsckEnd, GcStep, GcListManifests, GcListChunks, GcDeleteChunkRow, GcDeleteBytes, GcEnd, GcAbort

\* Every manifest has exactly the rows of one list that reassembles to the content it is
\* said to be of, and a request links the manifest of what it was given, whether it built
\* that manifest, verified it or found it, and however requests, collectors and repair
\* interleave.
THEOREM ManifestsStayTrue == Spec => []ManifestsTrue
<1>1. Init => TrueInv
  <2> SUFFICES ASSUME Init PROVE TrueInv
    OBVIOUS
  <2>1. \A w \in Writer : req[w] = IdleReq
    BY DEF Init
  <2> QED BY <2>1, IdleReqTrue
        DEF Init, TrueInv, ContentsTrue, OneRow, HonestManifests, HeldManifestMatches
<1>2. BaseTypes /\ ForeignKeys /\ TrueInv /\ [Next]_vars => TrueInv'
  BY TrueInvStep
<1>3. TrueInv => ManifestsTrue
  BY DEF TrueInv, ManifestsTrue
<1> QED BY <1>1, <1>2, <1>3, BaseTypesCorrect, RowsCorrect, PTL DEF Spec
=============================================================================
