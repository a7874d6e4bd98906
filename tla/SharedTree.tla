---------------------------- MODULE SharedTree ------------------------------
(***************************************************************************)
(* The nodes of several owners as sharing sees them: rows with an owner, a  *)
(* parent, a materialised path and a place in the trash.  FileTree models   *)
(* how one owner's requests change them; here each of those changes is one  *)
(* operator on the whole table, equal to the table when the request is      *)
(* refused.                                                                 *)
(***************************************************************************)
EXTENDS Naturals, FiniteSets, Sequences, SequencesExt

CONSTANTS
  User, Node, Name,
  RootOf,      \* EnsureRoot: the root of each user
  Start,       \* the tables a behaviour may start with
  SamePath     \* whether a folder may be moved while rows deleted with an earlier
               \* folder of its path are in the trash (see FileTree)

Live == "live"
NoNode == [there |-> FALSE]
NodeRow ==
  [there : {TRUE}, owner : User, kind : {"file", "folder"}, parent : Node, name : Name \cup {""},
   path : Seq(Name), trash : Node \cup {Live}]

VARIABLE node   \* table nodes

Roots == {RootOf[u] : u \in User}

IsLive(t, i) == t[i].there /\ t[i].trash = Live
Owns(t, u, i) == t[i].there /\ t[i].owner = u

\* GetLive(owner, id)
GetLive(t, u, i) == Owns(t, u, i) /\ IsLive(t, i)

\* $path = p OR starts_with($path, p || '/')
Covers(p, path) == IsPrefix(p, path)

\* nodes_sibling_name_key
FreeNames(t) ==
  \A i, j \in Node \ Roots :
    i # j /\ IsLive(t, i) /\ IsLive(t, j) => t[i].parent # t[j].parent \/ t[i].name # t[j].name

OrRefused(t, new) == IF FreeNames(new) THEN new ELSE t

\* The node and the folders above it: what every set with it that is closed under
\* parent_id contains.
Above(t, i) ==
  LET closed == {S \in SUBSET Node : \A k \in S : t[k].there => t[k].parent \in S}
  IN {j \in Node : \A S \in closed : i \in S => j \in S}

\* The rows at and below i: ON DELETE CASCADE.
Family(t, i) == {j \in Node : t[j].there /\ i \in Above(t, j)}

\* CreateFolder and Upload: the row belongs to the owner of the folder.
Created(t, u, i, p, n, kind) ==
  IF GetLive(t, u, p) /\ t[p].kind = "folder"
    THEN OrRefused(t, [t EXCEPT ![i] = [there |-> TRUE, owner |-> u, kind |-> kind, parent |-> p,
                                         name |-> n, path |-> Append(t[p].path, n), trash |-> Live]])
    ELSE t

Beneath(t, u, path) == {j \in Node : Owns(t, u, j) /\ IsStrictPrefix(path, t[j].path)}

\* MoveOrRename: both ends are the owner's, and the subtree's paths are rewritten.
Moved(t, u, i, p, n) ==
  LET old == t[i].path
      new == Append(t[p].path, n)
      below == IF t[i].kind = "folder" THEN Beneath(t, u, old) ELSE {}
      rewritten == [j \in Node |->
        CASE j = i -> [t[j] EXCEPT !.parent = p, !.name = n, !.path = new]
          [] j \in below -> [t[j] EXCEPT !.path = new \o SubSeq(@, Len(old) + 1, Len(@))]
          [] OTHER -> t[j]]
  IN IF /\ GetLive(t, u, i) /\ i \notin Roots
        /\ GetLive(t, u, p) /\ t[p].kind = "folder"
        /\ ~(t[i].kind = "folder" /\ IsPrefix(old, t[p].path))
        /\ SamePath \/ below \subseteq Family(t, i)
     THEN OrRefused(t, rewritten) ELSE t

\* Trash: the node and the live rows below it, marked as one deletion.
Trashed(t, u, i) ==
  IF GetLive(t, u, i) /\ i \notin Roots
    THEN [j \in Node |-> IF j = i \/ (j \in Beneath(t, u, t[i].path) /\ IsLive(t, j))
                           THEN [t[j] EXCEPT !.trash = i] ELSE t[j]]
    ELSE t

\* Restore: only the root of a deletion, and only into a live folder.
Restored(t, u, i) ==
  IF Owns(t, u, i) /\ t[i].trash = i /\ IsLive(t, t[i].parent)
    THEN OrRefused(t, [j \in Node |-> IF t[j].there /\ t[j].trash = i
                                        THEN [t[j] EXCEPT !.trash = Live] ELSE t[j]])
    ELSE t

\* Purge: a trashed node of the owner, with all below it.
Purged(t, u, i) ==
  IF Owns(t, u, i) /\ ~IsLive(t, i)
    THEN [j \in Node |-> IF j \in Family(t, i) THEN NoNode ELSE t[j]]
    ELSE t

\* uuid v7: ids are interchangeable, so a new row takes one of those that are left.
FreshNode == LET free == {i \in Node : ~node[i].there}
             IN IF free = {} THEN {} ELSE {CHOOSE i \in free : TRUE}

RootRow(u) == [there |-> TRUE, owner |-> u, kind |-> "folder", parent |-> RootOf[u], name |-> "",
               path |-> <<>>, trash |-> Live]
NewUsers == [i \in Node |-> IF i \in Roots THEN RootRow(CHOOSE u \in User : RootOf[u] = i) ELSE NoNode]

\* A node is in a folder of its own owner, and its path is that of the folder and its name.
InFolders(t) ==
  \A i \in Node \ Roots : t[i].there =>
    LET p == t[t[i].parent]
    IN /\ p.there /\ p.owner = t[i].owner /\ p.kind = "folder"
       /\ t[i].name \in Name /\ t[i].path = Append(p.path, t[i].name)

\* A live node is in a live folder, and what was deleted together still hangs together
\* below the node whose deletion it was.
Units(t) ==
  \A i \in Node \ Roots : t[i].there =>
    LET d == t[i].trash
        p == t[i].parent
    IN IF d = Live THEN t[p].trash = Live
       ELSE t[d].there /\ t[d].trash = d /\ (i # d => t[p].trash = d)

\* A table that keeps what the schema and the requests promise.
SoundTree(t) ==
  /\ t \in [Node -> NodeRow \cup {NoNode}]
  /\ \A u \in User : t[RootOf[u]] = RootRow(u)
  /\ InFolders(t) /\ Units(t) /\ FreeNames(t)

ASSUME SharedTreeAssumption ==
  /\ RootOf \in [User -> Node] /\ \A u, v \in User : RootOf[u] = RootOf[v] => u = v
  /\ Live \notin Node /\ SamePath \in BOOLEAN
  /\ \A t \in Start : SoundTree(t)

TreeInit == node \in Start

\* Whatever requests come and go, the table keeps it.
TreeTypeOK == SoundTree(node)
=============================================================================
