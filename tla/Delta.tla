------------------------------- MODULE Delta -------------------------------
(***************************************************************************)
(* The delta protocol between a user's devices and the server               *)
(* (httpapi/delta.go, files/delta.go, cas/delta.go; client internal/api,    *)
(* engine/transfer.go and internal/chunk).  One path of one user: a device  *)
(* that uploads reads its file, asks which chunks to send, reads the file   *)
(* again to send them and commits the order it read first; a device that    *)
(* downloads asks for the manifest and then for one chunk after another.    *)
(* A text is the sequence of its chunks and stands for its hash too.  The   *)
(* statements inside a put and a commit are the subject of CasStore.        *)
(***************************************************************************)
EXTENDS Integers, Sequences, FiniteSets

CONSTANTS
  Chunk,
  Text,          \* texts the user writes
  Small,         \* those below WholeFileThreshold: sent and stored whole
  Uploader, Downloader,
  Foreign,       \* chunks another user's files have at the start
  MaxWrites,     \* bound on the edits of a local file
  MaxMishaps     \* bound on what goes wrong, and on what else happens to the node

ASSUME DeltaAssumption ==
  /\ Text \subseteq Seq(Chunk) \ {<<>>} /\ Small \subseteq Text /\ Foreign \subseteq Chunk
  /\ MaxWrites \in Nat /\ MaxMishaps \in Nat

VARIABLES
  local,         \* the file on each uploading device
  recorded,      \* the text its state database has for it, <<>> before the first push
  sending,       \* the upload under way
  token,         \* "none", "valid", or "dead": cached, and refused by the server
  live, trash,   \* the versions of the node at the path, and of one in the trash
  foreign,       \* chunks another user's files refer to
  kept,        \* chunks with a row and bytes
  rotten,        \* those whose bytes no longer hash to their address
  old,           \* those older than BlobGCGrace
  fetching,      \* the download under way
  placed,        \* the file on each downloading device
  been,          \* history: texts current since the download under way began
  writes, mishaps

deltaVars == <<local, recorded, sending, token, live, trash, foreign, kept, rotten, old,
               fetching, placed, been, writes, mishaps>>
nodeVars == <<live, trash, foreign>>
storeVars == <<kept, rotten, old>>
sendVars == <<local, recorded, sending, writes>>
fetchVars == <<fetching, placed>>

NotSending == [at |-> "idle"]
NotFetching == [at |-> "idle"]

Contents(t) == {t[i] : i \in 1..Len(t)}
Whole(t) == [text |-> t, chunked |-> FALSE]
Chunked(t) == [text |-> t, chunked |-> TRUE]
ChunksOf(vs) == UNION {Contents(vs[i].text) : i \in {j \in 1..Len(vs) : vs[j].chunked}}
Current == IF live = <<>> THEN {} ELSE {live[Len(live)]}

(***************************************************************************)
(* The client's requests                                                   *)
(***************************************************************************)
\* Wrong: keeps the token that was refused.
KeepsToken(x, replayable) == IF token[x] = "dead" THEN "dead" ELSE "valid"

\* The token after a request: a missing one is fetched first, and one that is refused is
\* forgotten and fetched anew if the request has no body.
do(x, replayable) == IF token[x] = "dead" /\ ~replayable THEN "dead" ELSE "valid"

Requests(x, replayable) == token' = [token EXCEPT ![x] = do(x, replayable)]
Accepted(x, replayable) == do(x, replayable) = "valid"

(***************************************************************************)
(* What the server answers                                                 *)
(***************************************************************************)
\* Wrong: a chunk belongs to whoever stored it first.
OwnedByFirst(c) == c \in ChunksOf(live) \ foreign

\* A version of a node of this user that is not in the trash refers to the chunk.
UserReferencesChunk(c) == c \in ChunksOf(live)

Readable(c) == c \in kept \ rotten

handleHaveChunks(hashes) == {c \in hashes : ~UserReferencesChunk(c)}
handleGetChunk(c) == UserReferencesChunk(c) /\ Readable(c)

\* A chunk that is there already keeps its bytes and its age.
handlePutChunk(c) == /\ kept' = kept \cup {c}
                     /\ old' = IF c \in kept THEN old ELSE old \ {c}
                     /\ UNCHANGED rotten

\* Wrong: relies on the answer the client got before it uploaded.
CommitsUnchecked(t) == \A c \in Contents(t) : c \notin rotten

\* Every chunk has a row, and its bytes still hash to its address.
CommitManifest(t) == \A c \in Contents(t) : Readable(c)

PutFile(v) == live' = Append(live, v)

(***************************************************************************)
(* Uploading                                                               *)
(***************************************************************************)
Abandoned(u) == sending' = [sending EXCEPT ![u] = NotSending]

EditFile(u, t) ==
  /\ writes < MaxWrites /\ t # local[u]
  /\ local' = [local EXCEPT ![u] = t]
  /\ writes' = writes + 1
  /\ UNCHANGED <<recorded, sending, token, nodeVars, storeVars, fetchVars, mishaps>>

\* The poll ticker's request, which has no body.
Poll(u) ==
  /\ token[u] # "valid"
  /\ Requests(u, TRUE)
  /\ UNCHANGED <<sendVars, nodeVars, storeVars, fetchVars, mishaps>>

uploadFile(u) ==
  /\ sending[u] = NotSending /\ local[u] # recorded[u]
  /\ sending' = [sending EXCEPT ![u] =
       IF local[u] \in Small THEN [at |-> "whole"] ELSE [at |-> "hash", order |-> <<>>]]
  /\ UNCHANGED <<local, recorded, writes, token, nodeVars, storeVars, fetchVars, mishaps>>

\* The size decided, the file is read after: the server chunks what turns out larger.
uploadWhole(u) ==
  /\ sending[u].at = "whole"
  /\ Requests(u, FALSE) /\ Abandoned(u)
  /\ \/ /\ Accepted(u, FALSE)
        /\ PutFile(IF local[u] \in Small THEN Whole(local[u]) ELSE Chunked(local[u]))
        /\ kept' = kept \cup (IF local[u] \in Small THEN {} ELSE Contents(local[u]))
        /\ old' = old \ (kept' \ kept)
        /\ recorded' = [recorded EXCEPT ![u] = local[u]]
     \/ /\ ~Accepted(u, FALSE)
        /\ UNCHANGED <<live, kept, old, recorded>>
  /\ UNCHANGED <<local, writes, trash, foreign, rotten, fetchVars, mishaps>>

\* One chunk of the file as it is now: an edit in place tears the read.
hashChunks(u) ==
  /\ sending[u].at = "hash" /\ Len(sending[u].order) < Len(local[u])
  /\ sending' = [sending EXCEPT ![u].order = Append(@, local[u][Len(@) + 1])]
  /\ UNCHANGED <<local, recorded, writes, token, nodeVars, storeVars, fetchVars, mishaps>>

HaveChunks(u) ==
  /\ sending[u].at = "hash" /\ Len(sending[u].order) >= Len(local[u])
  /\ Requests(u, FALSE)
  /\ sending' = [sending EXCEPT ![u] =
       IF Accepted(u, FALSE)
       THEN [at |-> "send", order |-> @.order, next |-> 1,
             need |-> handleHaveChunks(Contents(@.order))]
       ELSE NotSending]
  /\ UNCHANGED <<local, recorded, writes, nodeVars, storeVars, fetchVars, mishaps>>

\* The second read: a chunk that the first one did not see is not sent.
PutChunk(u) ==
  /\ sending[u].at = "send" /\ sending[u].need # {} /\ sending[u].next <= Len(local[u])
  /\ LET c == local[u][sending[u].next] IN
       \/ /\ c \notin sending[u].need
          /\ sending' = [sending EXCEPT ![u].next = @ + 1]
          /\ UNCHANGED <<storeVars, token>>
       \/ /\ c \in sending[u].need /\ Accepted(u, FALSE)
          /\ handlePutChunk(c)
          /\ sending' = [sending EXCEPT ![u].next = @ + 1, ![u].need = @ \ {c}]
          /\ Requests(u, FALSE)
       \/ /\ c \in sending[u].need /\ ~Accepted(u, FALSE)
          /\ Abandoned(u)
          /\ UNCHANGED <<storeVars, token>>
  /\ UNCHANGED <<local, recorded, writes, nodeVars, fetchVars, mishaps>>

handleCommitManifest(u) ==
  /\ sending[u].at = "send"
  /\ sending[u].need = {} \/ sending[u].next > Len(local[u])
  /\ Requests(u, FALSE) /\ Abandoned(u)
  /\ LET t == sending[u].order IN
       \/ /\ Accepted(u, FALSE) /\ CommitManifest(t)
          /\ PutFile(Chunked(t))
          /\ recorded' = [recorded EXCEPT ![u] = t]
       \/ /\ ~(Accepted(u, FALSE) /\ CommitManifest(t))
          /\ UNCHANGED <<live, recorded>>
  /\ UNCHANGED <<local, writes, trash, foreign, storeVars, fetchVars, mishaps>>

(***************************************************************************)
(* Downloading                                                             *)
(***************************************************************************)
Stopped(d) == fetching' = [fetching EXCEPT ![d] = NotFetching]

handleFileManifest(d) ==
  /\ fetching[d] = NotFetching
  /\ \E v \in Current :
       /\ v.text # placed[d]
       /\ fetching' = [fetching EXCEPT ![d] =
            [at |-> IF v.chunked THEN "chunks" ELSE "content", order |-> v.text, got |-> <<>>]]
  /\ Requests(d, TRUE)
  /\ UNCHANGED <<sendVars, nodeVars, storeVars, placed, mishaps>>

\* Wrong: goes on after a chunk the server refuses.
SkipsRefused(d) ==
  /\ fetching[d].at = "chunks" /\ fetching[d].order # <<>>
  /\ LET c == Head(fetching[d].order) IN
       fetching' = [fetching EXCEPT ![d] =
         [at |-> "chunks", order |-> Tail(@.order),
          got |-> IF handleGetChunk(c) THEN Append(@.got, c) ELSE @.got]]
  /\ Requests(d, TRUE)
  /\ UNCHANGED <<sendVars, nodeVars, storeVars, placed, mishaps>>

\* The next chunk of the manifest, decompressed and hashed again on arrival.
GetChunk(d) ==
  /\ fetching[d].at = "chunks" /\ fetching[d].order # <<>>
  /\ LET c == Head(fetching[d].order) IN
       \/ /\ handleGetChunk(c)
          /\ fetching' = [fetching EXCEPT ![d] =
               [at |-> "chunks", order |-> Tail(@.order), got |-> Append(@.got, c)]]
       \/ ~handleGetChunk(c) /\ Stopped(d)
  /\ Requests(d, TRUE)
  /\ UNCHANGED <<sendVars, nodeVars, storeVars, placed, mishaps>>

\* GET /content serves the version that is current then.
GetContent(d) ==
  /\ fetching[d].at = "content" /\ fetching[d].order # <<>>
  /\ \/ \E v \in Current :
          /\ v.chunked => \A c \in Contents(v.text) : Readable(c)
          /\ fetching' = [fetching EXCEPT ![d] =
               [at |-> "content", order |-> <<>>, got |-> v.text]]
     \/ /\ \A v \in Current : v.chunked /\ \E c \in Contents(v.text) : ~Readable(c)
        /\ Stopped(d)
  /\ Requests(d, TRUE)
  /\ UNCHANGED <<sendVars, nodeVars, storeVars, placed, mishaps>>

\* The rename of the temporary file over the destination.
downloadFile(d) ==
  /\ fetching[d] # NotFetching /\ fetching[d].order = <<>>
  /\ placed' = [placed EXCEPT ![d] = fetching[d].got]
  /\ Stopped(d)
  /\ UNCHANGED <<sendVars, token, nodeVars, storeVars, mishaps>>

(***************************************************************************)
(* Everything else that happens                                            *)
(***************************************************************************)
Mishap == mishaps < MaxMishaps /\ mishaps' = mishaps + 1

\* A token nears its expiry, or the server revokes its session.
LoseToken(x) ==
  /\ Mishap /\ token[x] = "valid"
  /\ \E t \in {"none", "dead"} : token' = [token EXCEPT ![x] = t]
  /\ UNCHANGED <<sendVars, nodeVars, storeVars, fetchVars>>

\* The connection breaks or the client stops; what the server did stays done.
CutOff(x) ==
  /\ Mishap
  /\ \/ /\ x \in Uploader /\ sending[x] # NotSending
        /\ sending' = [sending EXCEPT ![x] = NotSending] /\ UNCHANGED fetching
     \/ /\ x \in Downloader /\ fetching[x] # NotFetching
        /\ fetching' = [fetching EXCEPT ![x] = NotFetching] /\ UNCHANGED sending
  /\ UNCHANGED <<local, recorded, writes, token, nodeVars, storeVars, placed>>

\* A commit whose answer is lost: the client does not learn of the version.
AnswerLost(u) ==
  /\ Mishap /\ sending[u].at = "send" /\ sending[u].need = {}
  /\ Accepted(u, FALSE) /\ CommitManifest(sending[u].order)
  /\ PutFile(Chunked(sending[u].order)) /\ Abandoned(u)
  /\ UNCHANGED <<local, recorded, writes, token, trash, foreign, storeVars, fetchVars>>

ChangeNode(l, t) ==
  /\ Mishap
  /\ live' = l /\ trash' = t
  /\ UNCHANGED <<sendVars, token, foreign, storeVars, fetchVars>>

Trash == live # <<>> /\ trash = <<>> /\ ChangeNode(<<>>, live)
Restore == live = <<>> /\ trash # <<>> /\ ChangeNode(trash, <<>>)
Purge == trash # <<>> /\ ChangeNode(live, <<>>)
PruneVersions == Len(live) > 1 /\ ChangeNode(<<live[Len(live)]>>, trash)

OtherDeletes ==
  /\ Mishap /\ foreign # {}
  /\ foreign' = {}
  /\ UNCHANGED <<sendVars, token, live, trash, storeVars, fetchVars>>

\* A device tries many times within the grace: no chunk of a text it has yet to commit
\* grows old meanwhile.  It may have been old before.
Age(c) ==
  /\ c \in kept \ old
  /\ \A u \in Uploader :
       /\ local[u] # recorded[u] => c \notin Contents(local[u])
       /\ sending[u].at = "send" => c \notin Contents(sending[u].order)
  /\ old' = old \cup {c}
  /\ UNCHANGED <<sendVars, token, nodeVars, kept, rotten, fetchVars, mishaps>>

CollectGarbage(c) ==
  /\ c \in kept \cap old /\ c \notin ChunksOf(live) \cup ChunksOf(trash) \cup foreign
  /\ kept' = kept \ {c} /\ rotten' = rotten \ {c} /\ old' = old \ {c}
  /\ UNCHANGED <<sendVars, token, nodeVars, fetchVars, mishaps>>

Rot(c) ==
  /\ Mishap /\ c \in kept \ rotten
  /\ rotten' = rotten \cup {c}
  /\ UNCHANGED <<sendVars, token, nodeVars, kept, old, fetchVars>>

-----------------------------------------------------------------------------
DeltaInit ==
  /\ local \in [Uploader -> Text] /\ recorded = [u \in Uploader |-> <<>>]
  /\ sending = [u \in Uploader |-> NotSending]
  /\ token = [x \in Uploader \cup Downloader |-> "none"]
  /\ live = <<>> /\ trash = <<>> /\ foreign = Foreign
  /\ kept = Foreign /\ rotten = {} /\ old = {}
  /\ fetching = [d \in Downloader |-> NotFetching] /\ placed = [d \in Downloader |-> <<>>]
  /\ been = [d \in Downloader |-> {}]
  /\ writes = 0 /\ mishaps = 0

Pushes(u) == \/ uploadFile(u) \/ uploadWhole(u) \/ hashChunks(u) \/ HaveChunks(u)
             \/ PutChunk(u) \/ handleCommitManifest(u)
Pulls(d) == handleFileManifest(d) \/ GetChunk(d) \/ GetContent(d) \/ downloadFile(d)

DeltaStep ==
  \/ \E u \in Uploader : \/ Pushes(u) \/ Poll(u) \/ AnswerLost(u)
                         \/ \E t \in Text : EditFile(u, t)
  \/ \E d \in Downloader : Pulls(d)
  \/ \E x \in Uploader \cup Downloader : LoseToken(x) \/ CutOff(x)
  \/ \E c \in Chunk : Age(c) \/ CollectGarbage(c) \/ Rot(c)
  \/ Trash \/ Restore \/ Purge \/ PruneVersions \/ OtherDeletes

Remembered ==
  been' = [d \in Downloader |->
    IF fetching'[d] = NotFetching THEN {}
    ELSE been[d] \cup {v.text : v \in Current} \cup {v.text : v \in Current'}]

DeltaNext == DeltaStep /\ Remembered

\* The daemon polls and retries on its tickers (engine/run.go).
DeltaFairness ==
  /\ \A u \in Uploader : /\ WF_deltaVars(Pushes(u) /\ Remembered)
                         /\ WF_deltaVars(Poll(u) /\ Remembered)
  /\ \A d \in Downloader : WF_deltaVars(Pulls(d) /\ Remembered)

DeltaSpec == DeltaInit /\ [][DeltaNext]_deltaVars /\ DeltaFairness

-----------------------------------------------------------------------------
SendType == {NotSending, [at |-> "whole"]}
              \cup [at : {"hash"}, order : Seq(Chunk)]
              \cup [at : {"send"}, order : Seq(Chunk), need : SUBSET Chunk, next : Nat \ {0}]

\* Types, and: the chunks a client still has to send are of the text it will commit, only
\* stored chunks rot or grow old (transfer.go, uploadChunked).
DeltaTypeOK ==
  /\ local \in [Uploader -> Text] /\ recorded \in [Uploader -> Seq(Chunk)]
  /\ token \in [Uploader \cup Downloader -> {"none", "valid", "dead"}]
  /\ rotten \cup old \subseteq kept /\ kept \cup foreign \subseteq Chunk
  /\ \A u \in Uploader :
       /\ sending[u] \in SendType
       /\ sending[u].at = "send" => sending[u].need \subseteq Contents(sending[u].order)
  /\ \A d \in Downloader : fetching[d].at \in {"idle", "chunks", "content"}

\* Every chunk of every version of the user, in the tree or in the trash, has its row and
\* bytes, whatever was purged and collected between the answer to /chunks/have and the
\* commit (cas/delta.go, CommitManifest).
CommitsStored == ChunksOf(live) \cup ChunksOf(trash) \subseteq kept

\* A complete download is a text that was the node's current version at some time since
\* the download began: never a mixture, never a part (transfer.go, downloadFile).
PlacedWasCurrent ==
  \A d \in Downloader : fetching[d] # NotFetching /\ fetching[d].order = <<>>
                          => fetching[d].got \in been[d]

\* What a device starts to upload is on record as committed in the end, or what the user
\* has made of it since: a refused token, a stale answer or a collected chunk costs an
\* attempt and no more.  A chunk that rots in storage is the exception, for a put does
\* not replace it (transfer.go, uploadFile).
UploadCompletes ==
  \A u \in Uploader :
    sending[u] # NotSending ~> (rotten # {} \/ recorded[u] = local[u])

\* A device that downloads ends with the current version, if there is one and none of its
\* chunks rots (httpapi/delta.go, handleGetChunk).
DownloadCompletes ==
  <>[](rotten # {} \/ \A d \in Downloader : \A v \in Current : placed[d] = v.text)
=============================================================================
