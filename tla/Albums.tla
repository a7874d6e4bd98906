------------------------------- MODULE Albums -------------------------------
(***************************************************************************)
(* Albums (files/albums.go, httpapi/albums.go, migration 00020): one album  *)
(* of one user, the files in it and the order the user gave them.  A        *)
(* request first reads the album (or the cover's node), then executes its   *)
(* statement; other requests, and the tree, move in between.  Of the rows of *)
(* album_items the positions are kept: rows that share one are listed by    *)
(* added_at and id, and nothing is promised of those.                       *)
(***************************************************************************)
EXTENDS Integers, Sequences, FiniteSets

CONSTANTS
  FileNode,      \* files of the album's owner
  Stranger,      \* files of somebody else
  NodeLists,     \* lists of ids that requests name
  AlbumRequest,  \* requests in flight
  Racing,        \* may two statements of concurrent requests overlap?
  MaxAlbumOps

ASSUME AlbumAssumption ==
  NodeLists \subseteq Seq(FileNode \cup Stranger) /\ Racing \in BOOLEAN /\ MaxAlbumOps \in Nat

VARIABLES
  photo,         \* "live", "trashed" or "gone"
  album,         \* is there one?
  cover,         \* its cover_node_id, as a set
  items,         \* album_items: the position of each node in the album
  albumReq,
  asked,         \* history: <<a, b>> when the user asked for a before b
  albumOps

albumVars == <<photo, album, cover, items, albumReq, asked, albumOps>>

NotAsking == [at |-> "idle"]
NoItems == [n \in {} |-> 0]
Members == DOMAIN items
Positions == {items[n] : n \in Members}
Named(list) == {list[i] : i \in 1..Len(list)}
Precedes(list, a, b) == \A i, j \in 1..Len(list) : list[i] = a /\ list[j] = b => i < j
Without(n) == [x \in Members \ {n} |-> items[x]]
AskedWithout(named) == {p \in asked : p[1] \notin named /\ p[2] \notin named}

assertOwnedLive(n) == n \in FileNode /\ photo[n] = "live"

(***************************************************************************)
(* Statements                                                              *)
(***************************************************************************)
\* Wrong: counts the rows instead.
CountsRows == Cardinality(Members)

\* coalesce(max(position), 0)
HighestPosition ==
  CHOOSE p \in {0} \cup Positions : \A q \in {0} \cup Positions : q <= p

\* WITH ORDINALITY: the place of every id in the list, and of an id that is named twice
\* either one.
Ordinals(list) ==
  {ord \in [Named(list) -> 1..Len(list)] : \A n \in Named(list) : list[ord[n]] = n}

\* The ids of the list to insert: the caller's own live files that are not in the album.
Incoming(list) == {n \in Named(list) \ Members : assertOwnedLive(n)}

\* The rows after the insert.
Rows(list, ord, base) ==
  [n \in Members \cup Incoming(list) |-> IF n \in Members THEN items[n] ELSE base + ord[n]]

Reordered(list, ord) ==
  [n \in Members |-> IF n \in Named(list) THEN ord[n] ELSE items[n]]

\* Wrong: takes every id that names a node.
CoverAnyNode(n) == TRUE

CoverAllowed(n) == assertOwnedLive(n)

(***************************************************************************)
(* Requests                                                                *)
(***************************************************************************)
Asks(r, q) == albumReq' = [albumReq EXCEPT ![r] = q]
Answered(r) == Asks(r, NotAsking)
OpCounted == albumOps < MaxAlbumOps /\ albumOps' = albumOps + 1

\* What has read the album, or the cover's node, and is about to execute its statement.
ReadAlbum(r, q) ==
  /\ albumReq[r] = NotAsking /\ album
  /\ OpCounted /\ Asks(r, q)
  /\ UNCHANGED <<photo, album, cover, items, asked>>

handleCreateAlbum(r) ==
  /\ albumReq[r] = NotAsking /\ ~album /\ OpCounted
  /\ album' = TRUE
  /\ UNCHANGED <<photo, cover, items, albumReq, asked>>

\* The items go with it; the files stay.
handleDeleteAlbum(r) ==
  /\ albumReq[r] = NotAsking /\ album /\ OpCounted
  /\ album' = FALSE /\ cover' = {} /\ items' = NoItems /\ asked' = {}
  /\ UNCHANGED <<photo, albumReq>>

handlePatchAlbum(r, n) ==
  /\ CoverAllowed(n)
  /\ ReadAlbum(r, [at |-> "cover", node |-> n])

\* The foreign key refuses a node that was purged since, the WHERE an album that is gone.
UpdateAlbum(r) ==
  /\ albumReq[r].at = "cover" /\ Answered(r)
  /\ LET n == albumReq[r].node IN
       cover' = IF album /\ (n \in FileNode => photo[n] # "gone") THEN {n} ELSE cover
  /\ UNCHANGED <<photo, album, items, asked, albumOps>>

ClearCover(r) ==
  /\ albumReq[r] = NotAsking /\ album /\ cover # {} /\ OpCounted
  /\ cover' = {}
  /\ UNCHANGED <<photo, album, items, albumReq, asked>>

handleAddAlbumItems(r, list) ==
  ReadAlbum(r, [at |-> "add", list |-> list, base |-> HighestPosition])

\* The statement's snapshot, and with it the highest position, may be as old as its start.
AddAlbumItems(r) ==
  /\ albumReq[r].at = "add" /\ Answered(r)
  /\ LET list == albumReq[r].list
         base == IF Racing THEN albumReq[r].base ELSE HighestPosition
         new == IF album THEN Incoming(list) ELSE {} IN
       /\ \E ord \in Ordinals(list) : items' = IF album THEN Rows(list, ord, base) ELSE items
       /\ asked' = asked \cup (Members \X new)
                         \cup {p \in new \X new : Precedes(list, p[1], p[2])}
  /\ UNCHANGED <<photo, album, cover, albumOps>>

handleRemoveAlbumItem(r, n) == ReadAlbum(r, [at |-> "remove", node |-> n])

RemoveAlbumItem(r) ==
  /\ albumReq[r].at = "remove" /\ Answered(r)
  /\ items' = Without(albumReq[r].node)
  /\ asked' = AskedWithout({albumReq[r].node})
  /\ UNCHANGED <<photo, album, cover, albumOps>>

handleReorderAlbum(r, list) == ReadAlbum(r, [at |-> "order", list |-> list])

\* An item that the list does not name keeps its position.
ReorderAlbum(r) ==
  /\ albumReq[r].at = "order" /\ albumReq[r].list # <<>> /\ Answered(r)
  /\ LET list == albumReq[r].list
         named == Named(list) \cap Members IN
       /\ \E ord \in Ordinals(list) : items' = Reordered(list, ord)
       /\ asked' = AskedWithout(named)
                     \cup {p \in named \X named : Precedes(list, p[1], p[2])}
  /\ UNCHANGED <<photo, album, cover, albumOps>>

(***************************************************************************)
(* The tree                                                                *)
(***************************************************************************)
Trashes(n, s) ==
  /\ s \in {"live", "trashed"} /\ photo[n] \in {"live", "trashed"} \ {s}
  /\ OpCounted
  /\ photo' = [photo EXCEPT ![n] = s]
  /\ UNCHANGED <<album, cover, items, albumReq, asked>>

\* ON DELETE CASCADE for the items, SET NULL for the cover.
PurgeFileNode(n) ==
  /\ photo[n] = "trashed" /\ OpCounted
  /\ photo' = [photo EXCEPT ![n] = "gone"]
  /\ items' = Without(n)
  /\ asked' = AskedWithout({n})
  /\ cover' = cover \ {n}
  /\ UNCHANGED <<album, albumReq>>

-----------------------------------------------------------------------------
AlbumInit ==
  /\ photo = [n \in FileNode |-> "live"]
  /\ album = TRUE /\ cover = {} /\ items = NoItems /\ asked = {}
  /\ albumReq = [r \in AlbumRequest |-> NotAsking]
  /\ albumOps = 0

AlbumNext ==
  \/ \E r \in AlbumRequest :
       \/ handleCreateAlbum(r) \/ handleDeleteAlbum(r) \/ UpdateAlbum(r) \/ ClearCover(r)
       \/ AddAlbumItems(r) \/ RemoveAlbumItem(r) \/ ReorderAlbum(r)
       \/ \E n \in FileNode \cup Stranger : handlePatchAlbum(r, n)
       \/ \E n \in FileNode : handleRemoveAlbumItem(r, n)
       \/ \E list \in NodeLists : handleAddAlbumItems(r, list) \/ handleReorderAlbum(r, list)
  \/ \E n \in FileNode : PurgeFileNode(n) \/ \E s \in {"live", "trashed"} : Trashes(n, s)

AlbumSpec == AlbumInit /\ [][AlbumNext]_albumVars

-----------------------------------------------------------------------------
\* What GET /albums/{id} lists.
AlbumItems == {n \in Members \cap FileNode : photo[n] = "live"}

\* ORDER BY position
Before(a, b) == items[a] < items[b]

\* Types, and: a purged node and an album that is gone have no items (the keys of
\* album_items), and a request names what its kind of request does.
AlbumTypeOK ==
  /\ photo \in [FileNode -> {"live", "trashed", "gone"}]
  /\ album \in BOOLEAN /\ albumOps \in Nat
  /\ cover \subseteq FileNode \cup Stranger
  /\ Members \subseteq {n \in FileNode : photo[n] # "gone"}
  /\ items \in [Members -> Nat]
  /\ asked \subseteq Members \X Members
  /\ ~album => Members = {} /\ cover = {}
  /\ DOMAIN albumReq = AlbumRequest
  /\ \A r \in AlbumRequest :
       \/ albumReq[r] = NotAsking
       \/ albumReq[r] \in [at : {"cover", "remove"}, node : FileNode \cup Stranger]
       \/ albumReq[r] \in [at : {"add"}, list : NodeLists, base : Nat]
       \/ albumReq[r] \in [at : {"order"}, list : NodeLists]

\* The cover is a file of the album's owner that still exists, whatever happens to it
\* between the check and the update (files/albums.go, UpdateAlbum).
CoverStands == \A n \in cover : n \in FileNode /\ photo[n] # "gone"

\* What a reorder named is listed in that order, and what is added after all that was in
\* the album, in the order it was added, through removals, other reorders, the trash and
\* the way back from it (files/albums.go, AlbumItems, AddAlbumItems, ReorderAlbum).
OrderKept == \A p \in asked : {p[1], p[2]} \subseteq AlbumItems => Before(p[1], p[2])

\* An album looks the way its owner left it (files/albums.go).
AlbumSound == CoverStands /\ OrderKept
=============================================================================
