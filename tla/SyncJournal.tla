---------------------------- MODULE SyncJournal ----------------------------
(***************************************************************************)
(* One owner's files on the server and the journal a sync client follows:  *)
(* the node table (files/store.go), the trigger that journals it           *)
(* (00010_changes.sql) and the statements of GET /changes                  *)
(* (httpapi/changes.go, files/changes.go).                                 *)
(*                                                                         *)
(* The tree is flat: every file lies in the owner's root folder.  A        *)
(* content is the number of the write that made it, so two contents are    *)
(* equal exactly when their hashes are.                                    *)
(***************************************************************************)
EXTENDS Naturals, Sequences, FiniteSets, SequencesExt

CONSTANTS Names,       \* the file names users give
          Synced,      \* the names that exist, in sync, when the model starts
          MaxCopies,   \* bound: conflict names tried for one file
          MaxWrites,   \* bound: contents users write
          MaxOps       \* bound: operations from other devices

ASSUME SyncConstants ==
    /\ Synced \subseteq Names
    /\ IsFiniteSet(Names)
    /\ {MaxCopies, MaxWrites, MaxOps} \subseteq Nat

VARIABLES node,     \* the node table; a node's id is its index
          log,      \* every journal row ever appended; a row's seq is its index
          pruned,   \* the rows up to this seq have been pruned
          stored,   \* the contents the server has accepted as versions of nodes
          written,  \* how many contents users have written
          ops       \* how many operations other devices have done

Path == [name : Names, copy : 0..MaxCopies]
Node == [path : Path, content : Nat, live : BOOLEAN]
Row == [node : Nat, kind : {"upsert", "delete"}]

\* A node as the API sends it, and a journal row with the node it may carry.
Item == [id : Nat, path : Path, content : Nat]
Change == [seq : Nat, node : Nat, kind : {"upsert", "delete"}, now : SUBSET Item]

Named(x) == [name |-> x, copy |-> 0]

---------------------------------------------------------------------------
(* The tree.                                                               *)

\* The live node at a path, as a set: the unique index keeps it to one.
At(p) == {n \in DOMAIN node : node[n].live /\ node[n].path = p}

\* PutFile: a live sibling of the name gets a version and a new head, else a
\* node is inserted and then given its head, which the trigger sees twice.
PutFile(p, c) ==
    /\ stored' = stored \cup {c}
    /\ UNCHANGED pruned
    /\ IF At(p) = {}
       THEN LET up == [node |-> Len(node) + 1, kind |-> "upsert"] IN
            /\ node' = Append(node, [path |-> p, content |-> c, live |-> TRUE])
            /\ log' = log \o <<up, up>>
       ELSE \E n \in At(p) :
            /\ node' = [node EXCEPT ![n].content = c]
            /\ log' = Append(log, [node |-> n, kind |-> "upsert"])

\* MoveOrRename: refused when the name is taken.
MoveOrRename(n, p) ==
    /\ node[n].live /\ node[n].path # p
    /\ At(p) = {}
    /\ node' = [node EXCEPT ![n].path = p]
    /\ log' = Append(log, [node |-> n, kind |-> "upsert"])
    /\ UNCHANGED <<pruned, stored>>

Trash(n) ==
    /\ node[n].live
    /\ node' = [node EXCEPT ![n].live = FALSE]
    /\ log' = Append(log, [node |-> n, kind |-> "delete"])
    /\ UNCHANGED <<pruned, stored>>

\* Restore from the trash: refused when the name is taken.
Restore(n) ==
    /\ ~node[n].live
    /\ At(node[n].path) = {}
    /\ node' = [node EXCEPT ![n].live = TRUE]
    /\ log' = Append(log, [node |-> n, kind |-> "upsert"])
    /\ UNCHANGED <<pruned, stored>>

---------------------------------------------------------------------------
(* The journal.                                                            *)

LatestSeq == Len(log)

\* The smallest seq still in the journal, 0 when it is empty.
EarliestSeq == IF pruned = Len(log) THEN 0 ELSE pruned + 1

\* The cursor endpoint's rule for refusing a delta.
Reset(since) ==
    /\ LatestSeq > since
    /\ EarliestSeq = 0 \/ EarliestSeq > since + 1

\* GetLive: the state of a node that is still live, for an upsert row.
GetLive(n) ==
    IF n \in DOMAIN node /\ node[n].live
    THEN {[id |-> n, path |-> node[n].path, content |-> node[n].content]}
    ELSE {}

\* A row as the client receives it, with the node's present state.
ChangeOf(seq) ==
    [seq |-> seq, node |-> log[seq].node, kind |-> log[seq].kind,
     now |-> IF log[seq].kind = "upsert" THEN GetLive(log[seq].node) ELSE {}]

\* ChangesSince: the surviving rows past the cursor, at most limit of them.
ChangesSince(since, limit) ==
    LET from == IF since > pruned THEN since ELSE pruned
        rows == IF limit < Len(log) - from THEN limit ELSE Len(log) - from
    IN  [i \in 1..rows |-> ChangeOf(from + i)]

\* PruneChanges: retention removes the oldest rows, never the counter.
PruneChanges ==
    /\ pruned < Len(log)
    /\ pruned' = pruned + 1
    /\ UNCHANGED <<node, log, stored>>

---------------------------------------------------------------------------
(* The start: the files named in Synced, each with its two journal rows.   *)

Start == SetToSeq(Synced)

StartNodes == [i \in DOMAIN Start |->
                 [path |-> Named(Start[i]), content |-> i, live |-> TRUE]]

StartLog == [s \in 1..(2 * Len(Start)) |->
               [node |-> (s + 1) \div 2, kind |-> "upsert"]]

ServerInit ==
    /\ node = StartNodes
    /\ log = StartLog
    /\ pruned = 0
    /\ stored = DOMAIN Start
    /\ written = Len(Start)
    /\ ops = 0

---------------------------------------------------------------------------
(* The other devices of the owner, and the web client: whole requests.     *)

RemotePut(p) ==
    /\ written' = written + 1
    /\ PutFile(p, written + 1)

RemoteOp(mayMove) ==
    /\ ops < MaxOps
    /\ ops' = ops + 1
    /\ \/ /\ written < MaxWrites
          /\ \E x \in Names : RemotePut(Named(x))
       \/ /\ \E n \in {m \in DOMAIN node : node[m].path.copy = 0} :
                \/ Trash(n)
                \/ Restore(n)
                \/ mayMove /\ \E x \in Names : MoveOrRename(n, Named(x))
          /\ UNCHANGED written

\* The database is put back to the backup taken at the start.
RestoreBackup ==
    /\ node' = StartNodes
    /\ log' = StartLog
    /\ pruned' = 0
    /\ UNCHANGED stored
=============================================================================
