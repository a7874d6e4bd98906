----------------------------- MODULE SyncClient -----------------------------
(***************************************************************************)
(* The desktop client's sync engine (client/internal/engine) over its      *)
(* state database (client/internal/state), one user's synced folder and    *)
(* the server of SyncJournal.                                              *)
(*                                                                         *)
(* Run serialises the passes: a poll pulls, a debounced event pushes, a    *)
(* rescan pulls and then pushes.  Within a pass every server call, every   *)
(* change of the folder and every statement of the state database is a     *)
(* step of its own, so that the user, the other devices, retention and a   *)
(* failure or crash may come between any two of them.                      *)
(*                                                                         *)
(* Hazards names what the environment may do beyond editing a synced file  *)
(* while no pass runs: write a file the client does not track              *)
(* ("untracked"), touch files during a pass ("midpass"), edit within the   *)
(* mtime second and size of the synced copy ("samestamp"), move files from *)
(* another device ("move"), prune the journal ("prune"), also between two  *)
(* statements of one poll ("race"), fail the read of a node in a poll      *)
(* ("lostread") and restore the server from a backup ("backup").           *)
(***************************************************************************)
EXTENDS SyncJournal

CONSTANTS Hazards,    \* see above
          PageLimit,  \* changePageLimit
          MaxFaults   \* bound: passes that fail or crash midway

ASSUME ClientConstants ==
    /\ Hazards \subseteq {"untracked", "midpass", "samestamp", "move", "prune",
                          "race", "lostread", "backup"}
    /\ PageLimit \in Nat \ {0}
    /\ MaxFaults \in Nat

VARIABLES disk,    \* the synced folder
          entry,   \* the synced table of the state database
          cursor,  \* the journal position in its meta table
          pass,    \* the pass that is running
          mine,    \* contents the user wrote here and has not replaced or removed
          asked,   \* paths whose file the user has removed here
          faults   \* passes that failed or crashed

vars == <<node, log, pruned, stored, written, ops, disk, entry, cursor, pass,
          mine, asked, faults>>

NoFile == [content |-> 0, stamp |-> 0]
NoEntry == [node |-> 0, stamp |-> 0, hash |-> 0, remote |-> 0]

\* A stamp stands for the size and the whole-second mtime: a write makes a new
\* one, unless it falls in the second of the previous write and keeps the size.
File == [content : Nat, stamp : Nat]
Entry == [node : Nat, stamp : Nat, hash : Nat, remote : Nat]
Record == [path : Path, entry : Entry]

\* What a pass holds in memory: where it is, whether it pushes after its pull,
\* the page of changes left to apply, the cursor to save, whether to poll again,
\* the nodes and the paths left to visit, the paths seen, the node in transfer
\* and its content, and the state writes that come next.
Idle == [pc |-> "idle", thenPush |-> FALSE, page |-> <<>>, next |-> 0,
         more |-> FALSE, nodes |-> {}, paths |-> {}, seen |-> {}, item |-> {},
         got |-> 0, writes |-> <<>>]

Pass == [pc : {"idle", "head", "poll", "rows", "apply", "upsert", "fetch", "place",
               "stat", "list", "mat", "vanish", "walk", "push", "commit", "record",
               "trash"},
         thenPush : BOOLEAN, page : Seq(Change), next : Nat, more : BOOLEAN,
         nodes : SUBSET Item, paths : SUBSET Path, seen : SUBSET Path,
         item : SUBSET Item, got : Nat, writes : Seq(Record)]

Put(p, e) == [path |-> p, entry |-> e]
Forget(p) == Put(p, NoEntry)

ClientInit ==
    /\ disk = [p \in Path |->
                 LET n == {i \in DOMAIN Start : Named(Start[i]) = p} IN
                 IF n = {} THEN NoFile
                 ELSE LET i == CHOOSE k \in n : TRUE
                      IN  [content |-> i, stamp |-> i]]
    /\ entry = [p \in Path |->
                  IF disk[p] = NoFile THEN NoEntry
                  ELSE LET c == disk[p].content
                       IN  [node |-> c, stamp |-> c, hash |-> c, remote |-> c]]
    /\ cursor = Len(log)
    /\ pass = Idle

Init ==
    /\ ServerInit
    /\ ClientInit
    /\ mine = {}
    /\ asked = {}
    /\ faults = 0

---------------------------------------------------------------------------
(* What the steps of a pass have in common.                                *)

On(pc) == pass.pc = pc /\ pass.writes = <<>>

LeavesServer == UNCHANGED <<node, log, pruned, stored>>
LeavesState == UNCHANGED <<entry, cursor>>
LeavesFolder == UNCHANGED disk

\* localStatus: size and mtime first, the hash only when one of them moved.
Exists(p) == disk[p] # NoFile
Changed(p) ==
    /\ Exists(p)
    /\ disk[p].stamp # entry[p].stamp
    /\ disk[p].content # entry[p].hash

Known(p) == entry[p] # NoEntry
GetByNodeID(n) == {p \in Path : Known(p) /\ entry[p].node = n}

\* One statement on the state database.
StateWrite ==
    /\ pass.writes # <<>>
    /\ LET w == Head(pass.writes) IN entry' = [entry EXCEPT ![w.path] = w.entry]
    /\ pass' = [pass EXCEPT !.writes = Tail(@)]
    /\ LeavesFolder /\ LeavesServer /\ UNCHANGED cursor

\* conflictCopy: the local edit takes the first conflict name that is free.
FreeCopies(p) ==
    {q \in Path : q.name = p.name /\ q.copy > p.copy /\ ~Exists(q)}
ConflictCopy(p) ==
    \E q \in FreeCopies(p) :
        /\ \A r \in FreeCopies(p) : q.copy <= r.copy
        /\ disk' = [disk EXCEPT ![q] = disk[p], ![p] = NoFile]

\* Mutant: the delete is honoured whatever the user did to the file.
Discard_Removes(p) == disk' = [disk EXCEPT ![p] = NoFile]

\* applyDelete and removeVanished of a file: an edit is set aside, anything
\* else is removed.
Discard(p) ==
    IF Changed(p) THEN ConflictCopy(p) ELSE disk' = [disk EXCEPT ![p] = NoFile]

---------------------------------------------------------------------------
(* Beginning a pass.                                                       *)

\* pull: the whole tree when nothing is recorded, else the journal.
BeginPull(thenPush) ==
    /\ On("idle")
    /\ pass' = [Idle EXCEPT !.pc = IF \E p \in Path : Known(p) THEN "poll" ELSE "head",
                            !.thenPush = thenPush]
    /\ LeavesFolder /\ LeavesState /\ LeavesServer

BeginPush ==
    /\ On("idle")
    /\ pass' = [Idle EXCEPT !.pc = "walk"]
    /\ LeavesFolder /\ LeavesState /\ LeavesServer

\* The pull is over; Sync goes on to the push.
Pulled == IF pass.thenPush THEN [Idle EXCEPT !.pc = "walk"] ELSE Idle

---------------------------------------------------------------------------
(* applyRemote: pages of the journal.                                      *)

\* latestSeq, before the first walk of the tree.
LatestHead ==
    /\ On("head")
    /\ pass' = [pass EXCEPT !.pc = "list", !.next = LatestSeq]
    /\ LeavesFolder /\ LeavesState /\ LeavesServer

PollHead ==
    /\ On("poll")
    /\ pass' = IF Reset(cursor)
               THEN [pass EXCEPT !.pc = "list", !.next = LatestSeq]
               ELSE [pass EXCEPT !.pc = "rows"]
    /\ LeavesFolder /\ LeavesState /\ LeavesServer

Received(page) ==
    pass' = [pass EXCEPT !.pc = "apply", !.page = page,
                         !.next = IF page = <<>> THEN cursor ELSE Last(page).seq,
                         !.more = Len(page) = PageLimit]

PollRows ==
    /\ On("rows")
    /\ Received(ChangesSince(cursor, PageLimit))
    /\ LeavesFolder /\ LeavesState /\ LeavesServer

\* The read of one row's node fails; the row is sent without it.
PollRowsLost ==
    /\ On("rows")
    /\ LET page == ChangesSince(cursor, PageLimit) IN
       \E i \in DOMAIN page : /\ page[i].now # {}
                              /\ Received([page EXCEPT ![i].now = {}])
    /\ LeavesFolder /\ LeavesState /\ LeavesServer

\* Mutant: the head of the journal is adopted after every page.
SavePage_Head ==
    /\ On("apply") /\ pass.page = <<>>
    /\ cursor' = LatestSeq
    /\ pass' = IF pass.more THEN [pass EXCEPT !.pc = "poll", !.more = FALSE, !.next = 0]
                            ELSE Pulled
    /\ LeavesFolder /\ LeavesServer /\ UNCHANGED entry

\* The page is applied: its cursor is saved.
SavePage ==
    /\ On("apply") /\ pass.page = <<>>
    /\ cursor' = pass.next
    /\ pass' = IF pass.more THEN [pass EXCEPT !.pc = "poll", !.more = FALSE, !.next = 0]
                            ELSE Pulled
    /\ LeavesFolder /\ LeavesServer /\ UNCHANGED entry

---------------------------------------------------------------------------
(* applyChange.                                                            *)

NextRow(writes) == [pass EXCEPT !.page = Tail(@), !.writes = writes]

ApplyDelete ==
    /\ On("apply") /\ pass.page # <<>>
    /\ LET ch == Head(pass.page) IN
       /\ ch.kind = "delete"
       /\ \/ /\ GetByNodeID(ch.node) = {}
             /\ pass' = NextRow(<<>>)
             /\ LeavesFolder
          \/ \E p \in GetByNodeID(ch.node) :
               /\ Discard(p)
               /\ pass' = NextRow(<<Forget(p)>>)
    /\ LeavesState /\ LeavesServer

\* An upsert without its node is left to a later row.
SkipChange ==
    /\ On("apply") /\ pass.page # <<>>
    /\ Head(pass.page).kind = "upsert" /\ Head(pass.page).now = {}
    /\ pass' = NextRow(<<>>)
    /\ LeavesFolder /\ LeavesState /\ LeavesServer

\* moveLocal: a missing source is no error, an existing target is replaced.
MoveLocal(p, q) ==
    /\ disk' = IF Exists(p) THEN [disk EXCEPT ![q] = disk[p], ![p] = NoFile] ELSE disk
    /\ pass' = [pass EXCEPT !.pc = "upsert", !.item = Head(pass.page).now,
                            !.writes = <<Forget(p), Put(q, entry[p])>>]

ApplyUpsert ==
    /\ On("apply") /\ pass.page # <<>>
    /\ \E it \in Head(pass.page).now :
         \/ \E p \in GetByNodeID(it.id) \ {it.path} : MoveLocal(p, it.path)
         \/ /\ GetByNodeID(it.id) = {} \/ it.path \in GetByNodeID(it.id)
            /\ pass' = [pass EXCEPT !.pc = "upsert", !.item = {it}]
            /\ LeavesFolder
    /\ LeavesState /\ LeavesServer

\* The node in transfer is dealt with: the next row, or the next of the walk.
NextItem(writes) ==
    [pass EXCEPT !.pc = IF pass.page = <<>> THEN "mat" ELSE "apply",
                 !.page = IF @ = <<>> THEN @ ELSE Tail(@),
                 !.item = {}, !.got = 0, !.writes = writes]

\* applyFileUpsert: nothing to do, a download, or a conflict and a download.
ApplyFileUpsert ==
    /\ On("upsert")
    /\ \E it \in pass.item :
       LET p == it.path
           same == entry[p].remote = it.content
       IN
       \/ /\ Known(p) /\ same /\ Exists(p)
          /\ pass' = NextItem(<<>>)
          /\ LeavesFolder
       \/ /\ ~Known(p) \/ (same /\ ~Exists(p)) \/ (~same /\ ~Changed(p))
          /\ pass' = [pass EXCEPT !.pc = "fetch"]
          /\ LeavesFolder
       \/ /\ Known(p) /\ ~same /\ Changed(p)
          /\ ConflictCopy(p)
          /\ pass' = [pass EXCEPT !.pc = "fetch", !.writes = <<Forget(p)>>]
    /\ LeavesState /\ LeavesServer

---------------------------------------------------------------------------
(* pullDown: the content into a temporary file, the rename, the stat.      *)

\* A node that has left the tree since is a 404 and ends the pass.
Fetch ==
    /\ On("fetch")
    /\ \E it \in pass.item :
         pass' = IF it.id \in DOMAIN node /\ node[it.id].live
                 THEN [pass EXCEPT !.pc = "place", !.got = node[it.id].content]
                 ELSE Idle
    /\ LeavesFolder /\ LeavesState /\ LeavesServer

Place ==
    /\ On("place")
    /\ \E it \in pass.item :
         disk' = [disk EXCEPT ![it.path] = [content |-> pass.got, stamp |-> pass.got]]
    /\ pass' = [pass EXCEPT !.pc = "stat"]
    /\ LeavesState /\ LeavesServer

\* Mutant: the hash on record is computed from the folder after the transfer.
RecordOf_Rehash(it) ==
    Put(it.path, [node |-> it.id, stamp |-> disk[it.path].stamp,
                  hash |-> disk[it.path].content, remote |-> it.content])

\* The record after a transfer: the stamp is read from the folder now.
RecordOf(it) ==
    Put(it.path, [node |-> it.id, stamp |-> disk[it.path].stamp,
                  hash |-> pass.got, remote |-> it.content])

StatPlaced ==
    /\ On("stat")
    /\ \E it \in pass.item :
         pass' = IF Exists(it.path) THEN NextItem(<<RecordOf(it)>>) ELSE Idle
    /\ LeavesFolder /\ LeavesState /\ LeavesServer

---------------------------------------------------------------------------
(* reconcileTree.                                                          *)

ListChildren ==
    /\ On("list")
    /\ LET live == UNION {GetLive(n) : n \in DOMAIN node} IN
       pass' = [pass EXCEPT !.pc = "mat", !.nodes = live,
                            !.seen = {it.path : it \in live}]
    /\ LeavesFolder /\ LeavesState /\ LeavesServer

\* materializeFile: a download unless this very version lies there untouched.
MaterializeFile ==
    /\ On("mat")
    /\ \E it \in pass.nodes :
         LET have == /\ entry[it.path].remote = it.content
                     /\ Exists(it.path) /\ ~Changed(it.path)
             rest == [pass EXCEPT !.nodes = @ \ {it}]
         IN  pass' = IF have THEN rest ELSE [rest EXCEPT !.pc = "fetch", !.item = {it}]
    /\ LeavesFolder /\ LeavesState /\ LeavesServer

ListEntries ==
    /\ On("mat") /\ pass.nodes = {}
    /\ pass' = [pass EXCEPT !.pc = "vanish",
                            !.paths = {p \in Path : Known(p) /\ p \notin pass.seen}]
    /\ LeavesFolder /\ LeavesState /\ LeavesServer

RemoveVanished ==
    /\ On("vanish")
    /\ \E p \in pass.paths :
         /\ Discard(p)
         /\ pass' = [pass EXCEPT !.paths = @ \ {p}, !.writes = <<Forget(p)>>]
    /\ LeavesState /\ LeavesServer

\* The head adopted is the one read before the walk.
SaveHead ==
    /\ On("vanish") /\ pass.paths = {}
    /\ cursor' = pass.next
    /\ pass' = Pulled
    /\ LeavesFolder /\ LeavesServer /\ UNCHANGED entry

---------------------------------------------------------------------------
(* push.                                                                   *)

\* Mutant: a file without an entry is not looked at.
Walk_KnownOnly ==
    /\ On("walk")
    /\ pass' = [pass EXCEPT !.pc = "push", !.paths = {p \in Path : Exists(p) /\ Known(p)},
                            !.seen = {p \in Path : Exists(p)}]
    /\ LeavesFolder /\ LeavesState /\ LeavesServer

\* pushExisting: the directory is read once; what is in it counts as seen.
Walk ==
    /\ On("walk")
    /\ pass' = [pass EXCEPT !.pc = "push", !.paths = {p \in Path : Exists(p)},
                            !.seen = {p \in Path : Exists(p)}]
    /\ LeavesFolder /\ LeavesState /\ LeavesServer

\* pushFile up to the read of the file; one that is new and gone again fails
\* the pass.
PushFile ==
    /\ On("push")
    /\ \E p \in pass.paths :
         LET rest == [pass EXCEPT !.paths = @ \ {p}] IN
         \/ /\ Known(p) /\ ~Changed(p)
            /\ pass' = rest
         \/ /\ ~Known(p) /\ ~Exists(p)
            /\ pass' = Idle
         \/ /\ Exists(p) /\ (Known(p) => Changed(p))
            /\ pass' = [rest EXCEPT !.pc = "commit", !.got = disk[p].content,
                                    !.item = {[id |-> 0, path |-> p, content |-> 0]}]
    /\ LeavesFolder /\ LeavesState /\ LeavesServer

\* The upload takes effect on the server.
Commit ==
    /\ On("commit")
    /\ \E it \in pass.item :
       LET ids == IF At(it.path) = {} THEN {Len(node) + 1} ELSE At(it.path) IN
       /\ PutFile(it.path, pass.got)
       /\ pass' = [pass EXCEPT !.pc = "record",
                     !.item = {[id |-> n, path |-> it.path, content |-> pass.got] : n \in ids}]
    /\ LeavesFolder /\ LeavesState

StatPushed ==
    /\ On("record")
    /\ \E it \in pass.item :
         pass' = IF Exists(it.path)
                 THEN [pass EXCEPT !.pc = "push", !.item = {}, !.got = 0,
                                   !.writes = <<RecordOf(it)>>]
                 ELSE Idle
    /\ LeavesFolder /\ LeavesState /\ LeavesServer

ListGone ==
    /\ On("push") /\ pass.paths = {}
    /\ pass' = [pass EXCEPT !.pc = "trash",
                            !.paths = {p \in Path : Known(p) /\ p \notin pass.seen}]
    /\ LeavesFolder /\ LeavesState /\ LeavesServer

\* pushDeletions: a node that is not live answers 404, which is tolerated.
PushDeletion ==
    /\ On("trash")
    /\ \E p \in pass.paths :
         LET n == entry[p].node IN
         /\ IF n \in DOMAIN node /\ node[n].live THEN Trash(n) ELSE LeavesServer
         /\ pass' = [pass EXCEPT !.paths = @ \ {p}, !.writes = <<Forget(p)>>]
    /\ LeavesFolder /\ LeavesState

PushEnds ==
    /\ On("trash") /\ pass.paths = {}
    /\ pass' = Idle
    /\ LeavesFolder /\ LeavesState /\ LeavesServer

---------------------------------------------------------------------------
(* The environment.                                                        *)

\* An error from any call ends the pass; a crash does too, and what the pass
\* held in memory is gone either way.
PassFails ==
    /\ pass.pc # "idle"
    /\ pass' = Idle
    /\ LeavesFolder /\ LeavesState /\ LeavesServer

UserMay == pass.pc = "idle" \/ "midpass" \in Hazards

UserWrites(p, stamp) ==
    /\ UserMay /\ written < MaxWrites
    /\ Known(p) \/ "untracked" \in Hazards
    /\ written' = written + 1
    /\ disk' = [disk EXCEPT ![p] = [content |-> written + 1, stamp |-> stamp]]
    /\ mine' = (mine \ {disk[p].content}) \cup {written + 1}
    /\ UNCHANGED <<entry, cursor, pass, asked>>
    /\ LeavesServer

UserRemoves(p) ==
    /\ UserMay /\ Exists(p) /\ p \notin asked
    /\ disk' = [disk EXCEPT ![p] = NoFile]
    /\ mine' = mine \ {disk[p].content}
    /\ asked' = asked \cup {p}
    /\ UNCHANGED <<entry, cursor, pass, written>>
    /\ LeavesServer

---------------------------------------------------------------------------

Pull == \/ LatestHead \/ PollHead \/ PollRows \/ SavePage
        \/ ApplyDelete \/ SkipChange \/ ApplyUpsert \/ ApplyFileUpsert
        \/ Fetch \/ Place \/ StatPlaced
        \/ ListChildren \/ MaterializeFile \/ ListEntries \/ RemoveVanished \/ SaveHead

Push == \/ Walk \/ PushFile \/ Commit \/ StatPushed
        \/ ListGone \/ PushDeletion \/ PushEnds

Step == (Pull \/ Push \/ StateWrite)
        /\ UNCHANGED <<written, ops, mine, asked, faults>>

Sync == BeginPull(TRUE) /\ UNCHANGED <<written, ops, mine, asked, faults>>

Tick == (BeginPull(FALSE) \/ BeginPush)
        /\ UNCHANGED <<written, ops, mine, asked, faults>>

Fault == /\ faults < MaxFaults
         /\ faults' = faults + 1
         /\ PassFails \/ ("lostread" \in Hazards /\ PollRowsLost)
         /\ UNCHANGED <<written, ops, mine, asked>>

User == /\ \E x \in Names : LET p == Named(x) IN
             \/ UserWrites(p, written + 1)
             \/ "samestamp" \in Hazards /\ Exists(p) /\ UserWrites(p, disk[p].stamp)
             \/ UserRemoves(p)
        /\ UNCHANGED <<ops, faults>>

Others == /\ RemoteOp("move" \in Hazards)
          /\ UNCHANGED <<disk, entry, cursor, pass, mine, asked, faults>>

Operator ==
    /\ \/ /\ "prune" \in Hazards
          /\ "race" \in Hazards \/ pass.pc # "rows"
          /\ PruneChanges
          /\ UNCHANGED faults
       \/ /\ "backup" \in Hazards /\ pass.pc = "idle" /\ faults < MaxFaults
          /\ RestoreBackup
          /\ faults' = faults + 1
    /\ UNCHANGED <<disk, entry, cursor, pass, mine, asked, written, ops>>

Next == Step \/ Sync \/ Tick \/ Fault \/ User \/ Others \/ Operator

Spec == Init /\ [][Next]_vars

\* A pass runs to its end, and the rescan ticker starts a full sync again and
\* again: Run's select picks among the ready cases at random.
FairSpec == Spec /\ WF_vars(Step) /\ SF_vars(Sync)

---------------------------------------------------------------------------
(* Properties.                                                             *)

\* The node table, the journal, the folder, the state database and the pass
\* hold values of their kinds, and no path has two live nodes.
TypeOK ==
    /\ node \in Seq(Node) /\ log \in Seq(Row)
    /\ pruned \in Nat /\ stored \subseteq Nat /\ written \in Nat
    /\ disk \in [Path -> File] /\ entry \in [Path -> Entry]
    /\ cursor \in Nat /\ pass \in Pass
    /\ \A m, n \in DOMAIN node :
         node[m].live /\ node[n].live /\ node[m].path = node[n].path => m = n

\* No edit of the user is lost by the client: what the user wrote into the
\* folder and has neither replaced nor removed is still in the folder, under its
\* name or a conflict name, or was accepted by the server as a version.
EditsKept ==
    \A c \in mine : c \in stored \/ \E p \in Path : disk[p].content = c

\* What the state database calls synced was accepted by the server: the hash on
\* record is that of the bytes transferred, whatever lies in the folder by the
\* time the record is written.
SyncedIsStored ==
    \A p \in Path : Known(p) => entry[p].hash \in stored

Local(p) == disk[p].content
Remote(p) == IF At(p) = {} THEN 0 ELSE node[CHOOSE n \in At(p) : TRUE].content
InSync == \A p \in Path : Local(p) = Remote(p)

\* A client that has applied the whole journal, and whose folder shows it
\* nothing to push, holds exactly the server's tree.
CaughtUp ==
    (/\ pass.pc = "idle" /\ cursor = LatestSeq
     /\ \A p \in Path : IF Known(p) THEN Exists(p) /\ ~Changed(p) ELSE ~Exists(p))
    => InSync

\* Once users and faults are done the folder and the server agree for good.
Converge == <>[]InSync

\* The client trashes a node only for a file that the user has removed.
TrashAsked ==
    [][\A p \in Path :
         (/\ pass.pc = "trash" /\ p \in pass.paths \ pass'.paths
          /\ entry[p].node \in DOMAIN node /\ node' # node) => p \in asked]_vars

\* An upload replaces the version its edit was made from, never one that
\* another device has put on top of it.
UploadsOnBase ==
    [][\A p \in Path : \A n \in At(p) :
         (pass.pc = "commit" /\ node'[n].content # node[n].content)
            => node[n].content = entry[p].remote]_vars
=============================================================================
