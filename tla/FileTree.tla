------------------------------ MODULE FileTree ------------------------------
(***************************************************************************)
(* The tree of one owner in table nodes: parents, materialised paths and   *)
(* the trash, as files/store.go changes them.                              *)
(*                                                                         *)
(* A request reads with statements of their own and then writes.  The      *)
(* trigger that journals a change of a node locks the owner's row of       *)
(* sync_state until the commit, so from its first write on a transaction   *)
(* is one step; what it read before may be stale by then.  The contents of *)
(* files are left to CasStore.                                             *)
(***************************************************************************)
EXTENDS Integers, Sequences, SequencesExt

CONSTANTS
  Id,        \* node ids (uuids)
  Root,      \* the id of the owner's root
  Name,
  Fold,      \* strings.ToLower, on names
  Request,
  Hazards    \* "interleave": a request writes between the reads and the write of
             \*   another one
             \* "samepath": a folder is moved while nodes that were deleted with an
             \*   earlier folder of the same path are in the trash
             \* "recase": a file is uploaded over one whose name differs in case

ASSUME TreeAssumption == /\ Root \in Id /\ "live" \notin Id /\ Fold \in [Name -> Name]
                         /\ Hazards \subseteq {"interleave", "samepath", "recase"}

VARIABLES
  node,      \* node[i]: the row of table nodes with id i
  req        \* req[r]: where request r stands and what it has read

vars == <<node, req>>

-----------------------------------------------------------------------------
Live == "live"
Path == Seq(Name)

\* trash: Live, or trashed_root_id; rows with an id there have trashed_at set.
Row == [there : BOOLEAN, kind : {"folder", "file"}, parent : Id,
        name : Name \cup {""}, fold : Name \cup {""}, path : Path,
        trash : Id \cup {Live}]
NoRow == [there |-> FALSE, kind |-> "file", parent |-> Root, name |-> "", fold |-> "",
          path |-> <<>>, trash |-> Live]
RootRow == [NoRow EXCEPT !.there = TRUE, !.kind = "folder"]

ReqPc == {"idle", "mkdir", "sibling", "new", "head", "move", "rewrite", "trash",
          "restore", "untrash", "purge"}
Req == [pc : ReqPc, id : Id, seen : Row, parent : Id, ppath : Path,
        name : Name \cup {""}]
Idle == [pc |-> "idle", id |-> Root, seen |-> NoRow, parent |-> Root,
         ppath |-> <<>>, name |-> ""]

TypeOK == /\ node \in [Id -> Row]
          /\ req \in [Request -> Req]

\* EnsureRoot has run.
Init == /\ node = [i \in Id |-> IF i = Root THEN RootRow ELSE NoRow]
        /\ req = [r \in Request |-> Idle]

IsLive(i) == node[i].there /\ node[i].trash = Live
IsTrashed(i) == node[i].there /\ node[i].trash # Live
IsFolder(i) == node[i].kind = "folder"

\* Wrong: a file and a folder may share a name.
SiblingNames_ByKind(t) ==
  \A i, j \in Id : /\ i # j /\ i # Root /\ j # Root
                   /\ t[i].there /\ t[j].there /\ t[i].trash = Live /\ t[j].trash = Live
                   => \/ t[i].parent # t[j].parent \/ t[i].fold # t[j].fold
                      \/ t[i].kind # t[j].kind

\* nodes_sibling_name_key, as a property of a whole table.
SiblingNames(t) ==
  \A i, j \in Id : /\ i # j /\ i # Root /\ j # Root
                   /\ t[i].there /\ t[j].there /\ t[i].trash = Live /\ t[j].trash = Live
                   => t[i].parent # t[j].parent \/ t[i].fold # t[j].fold

\* A uuid is never given twice.
Fresh == {i \in Id : /\ ~node[i].there
                     /\ \A j \in Id : node[j].there => node[j].trash # i
                     /\ \A r \in Request : req[r].pc # "idle" => i \notin {req[r].id, req[r].parent}}

\* What goes with the rows S: ON DELETE CASCADE along parent_id.
Cascade(S) ==
  {i \in Id : \A T \in SUBSET Id :
     S \subseteq T /\ (\A j \in Id : node[j].there /\ j # Root /\ node[j].parent \in T
                                        => j \in T)
       => i \in T}

\* A request may start: nothing else is under way, or anything may be.
Starts(r) == /\ req[r].pc = "idle"
             /\ "interleave" \in Hazards \/ \A q \in Request : req[q].pc = "idle"

Ends(r) == req' = [req EXCEPT ![r] = Idle]

-----------------------------------------------------------------------------
(* CreateFolder and PutFile                                                *)

\* The parent must be live and a folder.
ReadParent(r, p, n, pc) ==
  /\ Starts(r) /\ IsLive(p) /\ IsFolder(p)
  /\ req' = [req EXCEPT ![r] = [Idle EXCEPT !.pc = pc, !.parent = p, !.name = n,
                                            !.ppath = node[p].path]]
  /\ UNCHANGED node

JoinPath(parent, n) == Append(parent, n)

NewRow(r, k) ==
  [there |-> TRUE, kind |-> k, parent |-> req[r].parent, name |-> req[r].name,
   fold |-> Fold[req[r].name], path |-> JoinPath(req[r].ppath, req[r].name),
   trash |-> Live]

\* INSERT INTO nodes: the foreign key wants the parent's row, live or not, and the
\* index a free name; else the request fails.
Insert(r, k) ==
  /\ \E i \in Fresh :
       LET t == [node EXCEPT ![i] = NewRow(r, k)] IN
       node' = IF node[req[r].parent].there /\ SiblingNames(t) THEN t ELSE node
  /\ Ends(r)

CreateFolder(r) == req[r].pc = "mkdir" /\ Insert(r, "folder")

\* The live sibling of that name gets a version; a folder there fails the upload.
FindSibling(r) ==
  LET sibling == {i \in Id \ {Root} : /\ IsLive(i) /\ node[i].parent = req[r].parent
                                      /\ node[i].fold = Fold[req[r].name]}
  IN
  /\ req[r].pc = "sibling"
  /\ \/ /\ sibling = {}
        /\ req' = [req EXCEPT ![r].pc = "new"]
     \/ \E i \in sibling :
          /\ ~IsFolder(i)
          /\ "recase" \in Hazards \/ node[i].name = req[r].name
          /\ req' = [req EXCEPT ![r].pc = "head", ![r].id = i]
     \/ \E i \in sibling : IsFolder(i) /\ Ends(r)
  /\ UNCHANGED node

PutNewFile(r) == req[r].pc = "new" /\ Insert(r, "file")

\* The head moves and the name is that of this upload, wherever the node is by then.
PutVersion(r) ==
  LET i == req[r].id IN
  /\ req[r].pc = "head"
  /\ node' = IF node[i].there THEN [node EXCEPT ![i].name = req[r].name] ELSE node
  /\ Ends(r)

-----------------------------------------------------------------------------
(* MoveOrRename                                                            *)

GetForMove(r, i, p, n) ==
  /\ Starts(r) /\ IsLive(i) /\ i # Root
  /\ req' = [req EXCEPT ![r] = [Idle EXCEPT !.pc = "move", !.id = i, !.seen = node[i],
                                            !.parent = p, !.name = n]]
  /\ UNCHANGED node

\* ErrCycle: strings.HasPrefix(parentPath+"/", node.Path+"/").
IntoItself(r, p) == /\ req[r].seen.kind = "folder"
                    /\ p = req[r].id \/ IsPrefix(req[r].seen.path, node[p].path)

CheckMove(r) ==
  LET p == req[r].parent IN
  /\ req[r].pc = "move"
  /\ IF /\ IsLive(p) /\ IsFolder(p) /\ ~IntoItself(r, p)
        /\ \/ p # req[r].seen.parent
           \/ JoinPath(node[p].path, req[r].name) # req[r].seen.path
       THEN req' = [req EXCEPT ![r].pc = "rewrite", ![r].ppath = node[p].path]
       ELSE Ends(r)
  /\ UNCHANGED node

\* path LIKE old || '/%'
Beneath(old, row) == row.there /\ IsStrictPrefix(old, row.path)

\* Wrong: substring starts one further.
Spliced_OneFurther(old, new, row) ==
  IF Beneath(old, row)
    THEN [row EXCEPT !.path = new \o SubSeq(row.path, Len(old) + 2, Len(row.path))]
    ELSE row

\* path = new || substring(path from len(old) + 1)
Spliced(old, new, row) ==
  IF Beneath(old, row)
    THEN [row EXCEPT !.path = new \o SubSeq(row.path, Len(old) + 1, Len(row.path))]
    ELSE row

\* UPDATE the node, whatever became of it, and then all that has its old path as a
\* prefix, trashed or not.
MoveOrRename(r) ==
  LET i == req[r].id
      old == req[r].seen.path
      new == JoinPath(req[r].ppath, req[r].name)
      moved == [node EXCEPT ![i] = IF @.there THEN [@ EXCEPT !.parent = req[r].parent,
                                          !.name = req[r].name, !.fold = Fold[req[r].name],
                                          !.path = new] ELSE @]
      below == IF req[r].seen.kind = "folder"
                 THEN [j \in Id |-> Spliced(old, new, moved[j])] ELSE moved
  IN
  /\ req[r].pc = "rewrite"
  /\ "samepath" \in Hazards \/ {j \in Id : Beneath(old, node[j])} \subseteq Cascade({i})
  /\ node' = IF node[req[r].parent].there /\ SiblingNames(moved) THEN below ELSE node
  /\ Ends(r)

-----------------------------------------------------------------------------
(* Trash, Restore and the purges                                           *)

GetForTrash(r, i) ==
  /\ Starts(r) /\ IsLive(i) /\ i # Root
  /\ req' = [req EXCEPT ![r] = [Idle EXCEPT !.pc = "trash", !.id = i, !.seen = node[i]]]
  /\ UNCHANGED node

\* Wrong: the rows of an earlier deletion are stamped again.
Stamped_Again(r) ==
  {j \in Id : j = req[r].id \/ Beneath(req[r].seen.path, node[j])}

\* The rows of one deletion: the node and the live ones with its path as a prefix.
Stamped(r) ==
  {j \in Id : j = req[r].id \/ /\ req[r].seen.kind = "folder" /\ IsLive(j)
                               /\ Beneath(req[r].seen.path, node[j])}

Trash(r) ==
  LET i == req[r].id IN
  /\ req[r].pc = "trash"
  /\ node' = IF IsLive(i)
               THEN [j \in Id |-> IF j \in Stamped(r) THEN [node[j] EXCEPT !.trash = i]
                                                      ELSE node[j]]
               ELSE node
  /\ Ends(r)

\* Only the root of a deletion can be restored.
GetForRestore(r, i) ==
  /\ Starts(r) /\ IsTrashed(i) /\ node[i].trash = i
  /\ req' = [req EXCEPT ![r] = [Idle EXCEPT !.pc = "restore", !.id = i, !.seen = node[i]]]
  /\ UNCHANGED node

\* Wrong: it is enough that the parent is there.
HasHome_Exists(r) == node[req[r].seen.parent].there

HasHome(r) == IsLive(req[r].seen.parent)

RestoreParent(r) ==
  /\ req[r].pc = "restore"
  /\ IF HasHome(r) THEN req' = [req EXCEPT ![r].pc = "untrash"] ELSE Ends(r)
  /\ UNCHANGED node

Restore(r) ==
  LET i == req[r].id
      t == [j \in Id |-> IF node[j].there /\ node[j].trash = i
                           THEN [node[j] EXCEPT !.trash = Live] ELSE node[j]]
  IN
  /\ req[r].pc = "untrash"
  /\ node' = IF SiblingNames(t) THEN t ELSE node
  /\ Ends(r)

Without(S) == [i \in Id |-> IF i \in Cascade(S) THEN NoRow ELSE node[i]]

MayPurge(i) == IsTrashed(i)

GetForPurge(r, i) ==
  /\ Starts(r) /\ MayPurge(i)
  /\ req' = [req EXCEPT ![r] = [Idle EXCEPT !.pc = "purge", !.id = i, !.seen = node[i]]]
  /\ UNCHANGED node

\* DELETE ... WHERE id, whatever its state by then.
Purge(r) ==
  /\ req[r].pc = "purge"
  /\ node' = IF node[req[r].id].there THEN Without({req[r].id}) ELSE node
  /\ Ends(r)

TrashRoots == {i \in Id : IsTrashed(i) /\ node[i].trash = i}

EmptyTrash(r) ==
  /\ Starts(r) /\ TrashRoots # {}
  /\ node' = Without(TrashRoots)
  /\ UNCHANGED req

\* The background loop: those roots that are past the retention.
AutoPurgeTrash ==
  /\ "interleave" \in Hazards \/ \A q \in Request : req[q].pc = "idle"
  /\ \E S \in SUBSET TrashRoots : S # {} /\ node' = Without(S)
  /\ UNCHANGED req

\* An error or a crash before the commit.
Fail(r) == req[r].pc # "idle" /\ Ends(r) /\ UNCHANGED node

-----------------------------------------------------------------------------
Begin(r) ==
  \/ \E p \in Id, n \in Name : ReadParent(r, p, n, "mkdir") \/ ReadParent(r, p, n, "sibling")
  \/ \E i, p \in Id, n \in Name : GetForMove(r, i, p, n)
  \/ \E i \in Id : GetForTrash(r, i) \/ GetForRestore(r, i) \/ GetForPurge(r, i)

Step(r) == \/ CreateFolder(r) \/ FindSibling(r) \/ PutNewFile(r) \/ PutVersion(r)
           \/ CheckMove(r) \/ MoveOrRename(r)
           \/ Trash(r) \/ RestoreParent(r) \/ Restore(r) \/ Purge(r)

Next == \/ \E r \in Request : Begin(r) \/ Step(r) \/ EmptyTrash(r) \/ Fail(r)
        \/ AutoPurgeTrash

Spec == Init /\ [][Next]_vars

-----------------------------------------------------------------------------
(* Properties                                                              *)

\* A live node is in a live folder ("a live node under a trashed parent, which no
\* other query is prepared for").
LiveParents ==
  \A i \in Id \ {Root} : IsLive(i) => IsLive(node[i].parent) /\ IsFolder(node[i].parent)

\* Every materialised path, in the trash too, is that of the parent and the name
\* (MoveOrRename's rewrite of descendants).
PathsTrue ==
  \A i \in Id \ {Root} :
    node[i].there => /\ node[node[i].parent].there
                     /\ node[i].path = Append(node[node[i].parent].path, node[i].name)

\* The same of what a user sees (MoveOrRename: "a partial application would leave
\* children whose path no longer matches their parent chain, and every prefix query
\* would then return the wrong subtree").
LivePathsTrue ==
  \A i \in Id \ {Root} :
    IsLive(i) => node[i].path = Append(node[node[i].parent].path, node[i].name)

\* The rows of one deletion stay together: they hang together below the node that was
\* deleted, which is in the trash with them and can be restored or purged.
TrashUnits ==
  \A i \in Id : IsTrashed(i) =>
    LET t == node[i].trash IN
    /\ node[t].there /\ node[t].trash = t
    /\ i # t => node[node[i].parent].trash = t

\* The tree is one: live nodes hang in live folders under the paths their rows say, and
\* what is in the trash can be taken back or purged as it was deleted (files/store.go).
TreeSound == LiveParents /\ PathsTrue /\ TrashUnits

\* What the live paths say is a file system: the abstract specification.
PathAt(p) == CHOOSE i \in Id : IsLive(i) /\ node[i].path = p
Visible == [p \in {node[i].path : i \in {j \in Id : IsLive(j)}} |-> node[PathAt(p)].kind]
FileSystem == INSTANCE PathTree WITH fs <- Visible
PathTreeSpec == FileSystem!Spec
=============================================================================
