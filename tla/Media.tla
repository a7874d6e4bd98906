------------------------------- MODULE Media -------------------------------
(***************************************************************************)
(* Metadata, thumbnails and previews of one picture (media/handler.go,      *)
(* files/media.go, files/mediaadapter.go, the sweep in files/service.go,    *)
(* migration 00019).  What is derived belongs to the content: nodes of the  *)
(* same content share it, workers analyse them at the same time, and a      *)
(* sweep takes it away when the last version is gone.  Every statement and  *)
(* every write or removal of bytes is a step.  The jobs themselves are the  *)
(* subject of JobQueue: here one is queued, runs, and is run again if the   *)
(* worker dies.                                                             *)
(***************************************************************************)
EXTENDS Naturals

CONSTANTS
  Picture,       \* nodes with that content, over time
  Rendition,     \* the variants expected of a picture of its size
  MediaWorker,
  BlobKey,       \* names a blob may get, each random and so never the name of another; a
                 \* bound, unless it is infinite
  LostAnswer,    \* may a statement be committed and its answer be lost?
  MaxMediaOps,   \* bound on what users and operators do
  MaxMediaFaults

ASSUME MediaAssumption ==
  LostAnswer \in BOOLEAN /\ MaxMediaOps \in Nat /\ MaxMediaFaults \in Nat

VARIABLES
  picture,       \* "absent", "live" or "trashed"
  queued,        \* nodes with a media job that is not completed
  meta,          \* is there a row of media_meta?
  variant,       \* media_variant: the storage key of each row
  bytes,         \* blobs in the store
  at,            \* what each worker does
  collector,     \* what the collector does
  lapsed,        \* history: nodes whose job was completed with something left undone
  mediaOps, mediaFaults

mediaVars == <<picture, queued, meta, variant, bytes, at, collector, lapsed, mediaOps, mediaFaults>>
derived == <<meta, variant, bytes>>
counts == <<mediaOps, mediaFaults>>

NotWorking == [step |-> "idle"]
NotSweeping == [step |-> "idle"]
NoKey == {}

Referenced == \E n \in Picture : picture[n] # "absent"

\* A key that no row, no file and nobody's memory has.
Mentioned(w) ==
  (IF at[w].step \in {"put", "upsert", "remove"} THEN at[w].key ELSE NoKey)
    \cup (IF at[w].step = "upsert" THEN at[w].old ELSE NoKey)
FreshKeys ==
  {k \in BlobKey :
    /\ k \notin bytes /\ \A v \in DOMAIN variant : variant[v] # k
    /\ \A w \in MediaWorker : k \notin Mentioned(w)
    /\ collector # NotSweeping => \A v \in DOMAIN collector.list : collector.list[v] # k}
FreshKey == CHOOSE k \in FreshKeys : TRUE

Without1(f, v) == [x \in DOMAIN f \ {v} |-> f[x]]
With1(f, v, k) == [x \in DOMAIN f \cup {v} |-> IF x = v THEN k ELSE f[x]]

(***************************************************************************)
(* Users and operators                                                     *)
(***************************************************************************)
Acts == mediaOps < MaxMediaOps /\ mediaOps' = mediaOps + 1 /\ UNCHANGED mediaFaults
MediaFault == mediaFaults < MaxMediaFaults /\ mediaFaults' = mediaFaults + 1 /\ UNCHANGED mediaOps

\* A new node, and its job, which is queued after the upload and as best effort.
Upload(n) ==
  /\ picture[n] = "absent" /\ n \notin queued
  /\ \A w \in MediaWorker : at[w] # NotWorking => at[w].node # n
  /\ picture' = [picture EXCEPT ![n] = "live"]
  /\ \/ /\ Acts
        /\ queued' = queued \cup {n} /\ lapsed' = lapsed \ {n}
     \/ /\ MediaFault
        /\ lapsed' = lapsed \cup {n} /\ UNCHANGED queued
  /\ UNCHANGED <<derived, at, collector>>

Becomes(n, from, to) ==
  /\ picture[n] = from /\ Acts
  /\ picture' = [picture EXCEPT ![n] = to]
  /\ UNCHANGED <<queued, derived, at, collector, lapsed>>

TrashPicture(n) == Becomes(n, "live", "trashed")
RestorePicture(n) == Becomes(n, "trashed", "live")
PurgePicture(n) == Becomes(n, "trashed", "absent")

\* cloudctl jobs reindex --kind=media; a job that is queued or runs is not added again.
EnqueueForAllMediaFiles ==
  /\ Acts
  /\ LET live == {n \in Picture : picture[n] = "live"} IN
       /\ queued' = queued \cup live
       /\ lapsed' = lapsed \ (live \ queued)
  /\ UNCHANGED <<picture, derived, at, collector>>

(***************************************************************************)
(* The handler                                                             *)
(***************************************************************************)
Goes(w, s) == at' = [at EXCEPT ![w] = s]
Completed(w, undone) ==
  /\ Goes(w, NotWorking)
  /\ queued' = queued \ {at[w].node}
  /\ lapsed' = IF undone THEN lapsed \cup {at[w].node} ELSE lapsed

\* A node that is not live now is a completed job, and is not looked at when it comes back.
OpenForMedia(w, n) ==
  /\ at[w] = NotWorking /\ n \in queued
  /\ \A x \in MediaWorker : at[x] # NotWorking => at[x].node # n
  /\ \/ /\ picture[n] = "live"
        /\ Goes(w, [step |-> "state", node |-> n])
        /\ UNCHANGED <<queued, lapsed>>
     \/ /\ picture[n] # "live"
        /\ queued' = queued \ {n} /\ lapsed' = lapsed \cup {n}
        /\ UNCHANGED at
  /\ UNCHANGED <<picture, derived, collector, counts>>

\* Wrong: what has metadata is done.
AnalysedIsDone == IF meta THEN {} ELSE Rendition

\* The rows are found through the metadata; without it everything is rendered anew.
missingVariants == IF meta THEN Rendition \ DOMAIN variant ELSE Rendition

MediaState(w) ==
  /\ at[w].step = "state"
  /\ \/ /\ meta /\ missingVariants = {}
        /\ Completed(w, FALSE)
     \/ /\ ~(meta /\ missingVariants = {})
        /\ Goes(w, [step |-> IF meta THEN "render" ELSE "meta", node |-> at[w].node,
                    missing |-> missingVariants])
        /\ UNCHANGED <<queued, lapsed>>
  /\ UNCHANGED <<picture, derived, collector, counts>>

PutMediaMeta(w) ==
  /\ at[w].step = "meta"
  /\ meta' = TRUE
  /\ Goes(w, [at[w] EXCEPT !.step = "render"])
  /\ UNCHANGED <<picture, queued, variant, bytes, collector, lapsed, counts>>

\* Wrong: does not strike off what it has rendered.
StrikesNothing(w, v) == at[w].missing

StillMissing(w, v) == at[w].missing \ {v}

PutBytes(w, v) ==
  /\ at[w].step = "render" /\ v \in at[w].missing /\ FreshKeys # {}
  /\ bytes' = bytes \cup {FreshKey}
  /\ Goes(w, [step |-> "put", node |-> at[w].node, missing |-> StillMissing(w, v),
              variant |-> v, key |-> {FreshKey}])
  /\ UNCHANGED <<picture, queued, meta, variant, collector, lapsed, counts>>

Now(v) == IF v \in DOMAIN variant THEN {variant[v]} ELSE NoKey

\* PutMediaVariant begins: its snapshot has the key that is there now ...
ReadOld(w) ==
  /\ at[w].step = "put"
  /\ Goes(w, [step |-> "upsert", node |-> at[w].node, missing |-> at[w].missing,
              variant |-> at[w].variant, key |-> at[w].key, old |-> Now(at[w].variant)])
  /\ UNCHANGED <<picture, queued, derived, collector, lapsed, counts>>

\* Wrong: returns the key that is in the row after the update.
ReturnsNew(w) == at[w].key

Displaced(w) == at[w].old \ at[w].key

\* ... and its update may follow that of another worker, whose bytes then stay behind.
PutMediaVariant(w) ==
  /\ at[w].step = "upsert"
  /\ variant' = With1(variant, at[w].variant, CHOOSE k \in at[w].key : TRUE)
  /\ Goes(w, [step |-> "remove", node |-> at[w].node, missing |-> at[w].missing,
              key |-> Displaced(w)])
  /\ UNCHANGED <<picture, queued, meta, bytes, collector, lapsed, counts>>

\* The superseded bytes go, or it is not possible to remove them.
RemoveSuperseded(w) ==
  /\ at[w].step = "remove"
  /\ \/ bytes' = bytes \ at[w].key /\ UNCHANGED counts
     \/ at[w].key # NoKey /\ MediaFault /\ UNCHANGED bytes
  /\ Goes(w, [step |-> "render", node |-> at[w].node, missing |-> at[w].missing])
  /\ UNCHANGED <<picture, queued, meta, variant, collector, lapsed>>

\* The statement fails: the new bytes are removed and the job is completed all the same.
PutVariantFails(w) ==
  /\ at[w].step = "upsert" /\ MediaFault
  /\ \E committed \in {FALSE, LostAnswer} :
       variant' = IF committed
                  THEN With1(variant, at[w].variant, CHOOSE k \in at[w].key : TRUE) ELSE variant
  /\ bytes' = bytes \ at[w].key
  /\ Completed(w, TRUE)
  /\ UNCHANGED <<picture, meta, collector>>

\* The picture cannot be rendered, or its bytes not written.
RenderFails(w) ==
  /\ at[w].step = "render" /\ at[w].missing # {} /\ MediaFault
  /\ Completed(w, TRUE)
  /\ UNCHANGED <<picture, derived, collector>>

Handled(w) ==
  /\ at[w].step = "render" /\ at[w].missing = {}
  /\ Completed(w, FALSE)
  /\ UNCHANGED <<picture, derived, collector, counts>>

\* The worker dies, or its read or a statement fails before it renders: the job is run
\* again, when its lease is over or after a while.
WorkerDies(w) ==
  /\ at[w] # NotWorking /\ MediaFault
  /\ Goes(w, NotWorking)
  /\ UNCHANGED <<picture, queued, derived, collector, lapsed>>

(***************************************************************************)
(* Collection                                                              *)
(***************************************************************************)
\* A content that a version refers to yields an empty list.
UnreferencedMediaVariants ==
  /\ collector = NotSweeping /\ ~Referenced /\ (meta \/ DOMAIN variant # {})
  /\ collector' = [step |-> "rows", list |-> variant]
  /\ UNCHANGED <<picture, queued, derived, at, lapsed, counts>>

\* Wrong: relies on the list.
DeletesListed(v) == v \in DOMAIN variant

Deletable(v) == v \in DOMAIN variant /\ ~Referenced

\* The row of a variant on the list, if the content is still not referred to ...
DeleteMediaVariantRow(v) ==
  /\ collector.step = "rows" /\ v \in DOMAIN collector.list
  /\ \/ /\ Deletable(v)
        /\ variant' = Without1(variant, v)
        /\ collector' = [step |-> "bytes", list |-> collector.list, taken |-> v]
     \/ /\ ~Deletable(v)
        /\ collector' = [collector EXCEPT !.list = Without1(collector.list, v)]
        /\ UNCHANGED variant
  /\ UNCHANGED <<picture, queued, meta, bytes, at, lapsed, counts>>

\* ... and then the bytes that the list has for it, or they cannot be removed.
CollectBytes ==
  /\ collector.step = "bytes"
  /\ \/ bytes' = bytes \ {collector.list[collector.taken]} /\ UNCHANGED counts
     \/ MediaFault /\ UNCHANGED bytes
  /\ collector' = [step |-> "rows", list |-> Without1(collector.list, collector.taken)]
  /\ UNCHANGED <<picture, queued, meta, variant, at, lapsed>>

\* Wrong: keeps the metadata.
KeepsMeta == FALSE

Prunable == ~Referenced

PruneMediaMeta ==
  /\ collector.step = "rows" /\ DOMAIN collector.list = {}
  /\ meta' = (meta /\ ~Prunable)
  /\ collector' = NotSweeping
  /\ UNCHANGED <<picture, queued, variant, bytes, at, lapsed, counts>>

CollectorDies ==
  /\ collector # NotSweeping /\ MediaFault
  /\ collector' = NotSweeping
  /\ UNCHANGED <<picture, queued, derived, at, lapsed>>

\* cloudctl fsck --repair, with the workers stopped: what no row names goes.
Fsck ==
  /\ collector = NotSweeping /\ \A w \in MediaWorker : at[w] = NotWorking
  /\ bytes # {variant[v] : v \in DOMAIN variant}
  /\ bytes' = bytes \cap {variant[v] : v \in DOMAIN variant}
  /\ UNCHANGED <<picture, queued, meta, variant, at, collector, lapsed, counts>>

-----------------------------------------------------------------------------
MediaInit ==
  /\ picture = [n \in Picture |-> "absent"] /\ queued = {}
  /\ meta = FALSE /\ variant = [v \in {} |-> 0] /\ bytes = {}
  /\ at = [w \in MediaWorker |-> NotWorking] /\ collector = NotSweeping
  /\ lapsed = {} /\ mediaOps = 0 /\ mediaFaults = 0

HandleMedia(w) ==
  \/ \E n \in Picture : OpenForMedia(w, n)
  \/ MediaState(w) \/ PutMediaMeta(w) \/ \E v \in Rendition : PutBytes(w, v)
  \/ ReadOld(w) \/ PutMediaVariant(w) \/ RemoveSuperseded(w) \/ Handled(w)

collectMediaVariants ==
  \/ UnreferencedMediaVariants \/ \E v \in Rendition : DeleteMediaVariantRow(v)
  \/ CollectBytes \/ PruneMediaMeta

MediaNext ==
  \/ \E n \in Picture : Upload(n) \/ TrashPicture(n) \/ RestorePicture(n) \/ PurgePicture(n)
  \/ EnqueueForAllMediaFiles
  \/ \E w \in MediaWorker : HandleMedia(w) \/ PutVariantFails(w) \/ RenderFails(w) \/ WorkerDies(w)
  \/ collectMediaVariants \/ CollectorDies \/ Fsck

\* Workers take what is due, and the collector runs on its ticker.
MediaFairness ==
  /\ \A w \in MediaWorker : WF_mediaVars(HandleMedia(w))
  /\ WF_mediaVars(collectMediaVariants)

MediaSpec == MediaInit /\ [][MediaNext]_mediaVars /\ MediaFairness

-----------------------------------------------------------------------------
\* Types, and: a worker that has the bytes of a variant in hand renders nothing it has
\* done already, and two workers never run one job (media/handler.go, renderVariants).
MediaTypeOK ==
  /\ picture \in [Picture -> {"absent", "live", "trashed"}]
  /\ DOMAIN variant \subseteq Rendition /\ bytes \subseteq BlobKey
  /\ \A w \in MediaWorker : at[w] # NotWorking => at[w].node \in queued
  /\ \A w \in MediaWorker : at[w].step \in {"put", "upsert"} => at[w].variant \notin at[w].missing
  /\ \A v, u \in DOMAIN variant : v # u => variant[v] # variant[u]

\* A row of a variant has its bytes: no re-rendering, no failed statement and no sweep
\* takes the bytes that a row names, whatever the workers do at the same time
\* (files/media.go, PutMediaVariant; files/service.go, collectMediaVariants).
VariantsKept == \A v \in DOMAIN variant : variant[v] \in bytes

\* A content that a version refers to before and after loses nothing that was derived from
\* it, not even one that was on the list of the sweep when it was uploaded again
\* (files/media.go, DeleteMediaVariantRow, PruneMediaMeta).
DerivedStays ==
  [][Referenced /\ Referenced'
       => (meta => meta') /\ DOMAIN variant \subseteq DOMAIN variant']_mediaVars

\* A live picture comes to have its metadata and every variant, although workers die and
\* nodes of the same content come and go; unless its own job was completed with
\* something left undone (media/handler.go, Handle).
PictureComplete ==
  <>[](\A n \in Picture : picture[n] = "live" /\ n \notin lapsed
         => meta /\ DOMAIN variant = Rendition)

\* What was derived from a content that nothing refers to is taken away in the end, even
\* what a worker writes after the content is gone (files/service.go, CollectGarbage).
DerivedReclaimed == <>[](Referenced \/ (~meta /\ DOMAIN variant = {}))
=============================================================================
