------------------------- MODULE SyncClient_proofs -------------------------
(***************************************************************************)
(* Type correctness of SyncClient, the truth of its state database (what   *)
(* an entry calls synced is a content the server has accepted) and, with   *)
(* none of the hazards that Calm names, that no edit of the user is lost   *)
(* and that a client that caught up holds the server's tree: for any       *)
(* names, page size and number of faults.                                  *)
(***************************************************************************)
EXTENDS SyncClient, FiniteSetTheorems, SequenceTheorems, TLAPS

\* Every version of a node was accepted, those of the backup included.
NodesStored ==
    /\ DOMAIN Start \subseteq stored
    /\ \A n \in DOMAIN node : node[n].content \in stored

\* Every entry about to be written records an accepted content.
WritesStored ==
    \A i \in DOMAIN pass.writes :
        pass.writes[i].entry # NoEntry => pass.writes[i].entry.hash \in stored

\* The bytes of a download, and of an upload that has returned, were accepted.
TransferStored == pass.pc \in {"place", "stat", "record"} => pass.got \in stored

Accounted == NodesStored /\ SyncedIsStored /\ WritesStored /\ TransferStored

Inv == TypeOK /\ Accounted

---------------------------------------------------------------------------
(* The start.                                                              *)

LEMMA StartIsSeq ==
    /\ Start \in Seq(Names)
    /\ \A i, j \in DOMAIN Start : Start[i] = Start[j] => i = j
<1>1. IsFiniteSet(Synced)
  BY FS_Subset, SyncConstants
<1>2. /\ Cardinality(Synced) \in Nat
      /\ ExistsBijection(1..Cardinality(Synced), Synced)
  BY <1>1, FS_CardinalityType
<1>3. \E f \in [1..Cardinality(Synced) -> Synced] : IsInjective(f)
  BY <1>2 DEF ExistsBijection, Bijection, Injection
<1>4. /\ Start \in [1..Cardinality(Synced) -> Synced]
      /\ IsInjective(Start)
  BY <1>3 DEF Start, SetToSeq
<1>5. DOMAIN Start = 1..Cardinality(Synced)
  BY <1>4
<1>6. Start \in Seq(Names)
  BY <1>2, <1>4, <1>5, SyncConstants
<1> QED
  BY <1>4, <1>6 DEF IsInjective

LEMMA NamedIsPath == \A x \in Names : Named(x) \in Path
BY SyncConstants DEF Named, Path

LEMMA NodesAtStart ==
    /\ StartNodes \in Seq(Node)
    /\ \A m, n \in DOMAIN StartNodes :
         StartNodes[m].path = StartNodes[n].path => m = n
    /\ DOMAIN StartNodes = DOMAIN Start
    /\ \A n \in DOMAIN StartNodes : StartNodes[n].content = n
<1>1. Len(Start) \in Nat /\ DOMAIN Start = 1..Len(Start)
  BY StartIsSeq
<1>2. \A i \in DOMAIN Start : Named(Start[i]) \in Path /\ i \in Nat
  BY <1>1, StartIsSeq, NamedIsPath
<1>3. \A i \in DOMAIN Start :
        [path |-> Named(Start[i]), content |-> i, live |-> TRUE] \in Node
  BY <1>2 DEF Node
<1>4. StartNodes \in [1..Len(Start) -> Node]
  BY <1>1, <1>3 DEF StartNodes
<1>5. StartNodes \in Seq(Node)
  BY <1>1, <1>4
<1>6. \A m, n \in DOMAIN StartNodes :
        StartNodes[m].path = StartNodes[n].path => m = n
  BY StartIsSeq DEF StartNodes, Named
<1> QED
  BY <1>5, <1>6 DEF StartNodes

LEMMA LogAtStart == StartLog \in Seq(Row)
<1>1. Len(Start) \in Nat
  BY StartIsSeq
<1>2. 2 * Len(Start) \in Nat
  BY <1>1
<1>3. \A s \in Nat : (s + 1) \div 2 \in Nat
  OBVIOUS
<1>4. \A s \in 1..(2 * Len(Start)) :
        [node |-> (s + 1) \div 2, kind |-> "upsert"] \in Row
  BY <1>2, <1>3 DEF Row
<1> QED
  BY <1>2, <1>4 DEF StartLog

LEMMA NoneTyped == NoFile \in File /\ NoEntry \in Entry /\ Idle \in Pass
<1>1. <<>> \in Seq(Change) /\ <<>> \in Seq(Record)
  OBVIOUS
<1> QED
  BY <1>1 DEF NoFile, File, NoEntry, Entry, Idle, Pass

LEMMA InitInv == Init => Inv
<1> SUFFICES ASSUME Init PROVE Inv
  OBVIOUS
<1> USE DEF Init, ServerInit, ClientInit
<1>1. Len(Start) \in Nat /\ DOMAIN Start = 1..Len(Start)
  BY StartIsSeq
<1>3. \A p \in Path : disk[p] \in File /\ (disk[p] # NoFile => disk[p].content \in DOMAIN Start)
  <2> SUFFICES ASSUME NEW p \in Path
               PROVE  /\ disk[p] \in File 
                      /\ disk[p] # NoFile => disk[p].content \in DOMAIN Start
    OBVIOUS
  <2> DEFINE n == {i \in DOMAIN Start : Named(Start[i]) = p}
  <2>1. CASE n = {}
    BY <2>1, NoneTyped
  <2>2. CASE n # {}
    <3>1. PICK k \in n : disk[p] = [content |-> k, stamp |-> k]
      BY <2>2
    <3> QED
      BY <1>1, <3>1 DEF File
  <2> QED
    BY <2>1, <2>2
<1>4. disk \in [Path -> File]
  BY <1>3
<1>5. \A p \in Path : entry[p] \in Entry /\ (Known(p) => entry[p].hash \in DOMAIN Start)
  <2> SUFFICES ASSUME NEW p \in Path
               PROVE  entry[p] \in Entry /\ (Known(p) => entry[p].hash \in DOMAIN Start)
    OBVIOUS
  <2>1. CASE disk[p] = NoFile
    BY <2>1, NoneTyped DEF Known
  <2>2. CASE disk[p] # NoFile
    BY <2>2, <1>3, <1>1 DEF Known, Entry
  <2> QED
    BY <2>1, <2>2
<1>6. entry \in [Path -> Entry]
  BY <1>5
<1>7. node = StartNodes /\ stored = DOMAIN Start /\ pass = Idle
  OBVIOUS
<1>8. log \in Seq(Row) /\ pruned \in Nat /\ written \in Nat
  BY <1>1, LogAtStart
<1>9. cursor \in Nat
  BY <1>8
<1> HIDE DEF Init, ServerInit, ClientInit
<1>10. TypeOK
  BY <1>1, <1>4, <1>6, <1>7, <1>8, <1>9, NodesAtStart, NoneTyped DEF TypeOK
<1>11. NodesStored
  BY <1>7, NodesAtStart DEF NodesStored
<1>12. SyncedIsStored
  BY <1>5, <1>7 DEF SyncedIsStored
<1>13. WritesStored /\ TransferStored
  BY <1>7 DEF WritesStored, TransferStored, Idle
<1> QED
  BY <1>10, <1>11, <1>12, <1>13 DEF Inv, Accounted

---------------------------------------------------------------------------
(* The server's operations.                                                *)

ServerInv ==
    /\ node \in Seq(Node) /\ log \in Seq(Row) /\ pruned \in Nat /\ stored \subseteq Nat
    /\ \A m, n \in DOMAIN node :
         node[m].live /\ node[n].live /\ node[m].path = node[n].path => m = n
    /\ NodesStored

\* What the server's operations do to what the client relies on.
ServerKeeps == ServerInv' /\ stored \subseteq stored'

LEMMA PutFileKeeps ==
    ASSUME ServerInv, NEW p \in Path, NEW c \in Nat, PutFile(p, c)
    PROVE  ServerKeeps /\ c \in stored'
<1> USE DEF ServerInv
<1>1. stored' = stored \cup {c} /\ pruned' = pruned
  BY DEF PutFile
<1>2. CASE At(p) = {}
  <2> DEFINE new == [path |-> p, content |-> c, live |-> TRUE]
             up == [node |-> Len(node) + 1, kind |-> "upsert"]
  <2>1. node' = Append(node, new) /\ log' = log \o <<up, up>>
    BY <1>2 DEF PutFile
  <2>2. new \in Node /\ up \in Row
    BY DEF Node, Row
  <2>3. node' \in Seq(Node) /\ log' \in Seq(Row)
    BY <2>1, <2>2
  <2>4. /\ DOMAIN node' = 1..(Len(node) + 1) /\ DOMAIN node = 1..Len(node)
        /\ \A n \in DOMAIN node : node'[n] = node[n]
        /\ node'[Len(node) + 1] = new
    BY <2>1, <2>2
  <2>5. \A n \in DOMAIN node : ~(node[n].live /\ node[n].path = p)
    BY <1>2 DEF At
  <2>6. \A m, n \in DOMAIN node' :
          node'[m].live /\ node'[n].live /\ node'[m].path = node'[n].path => m = n
    BY <2>4, <2>5
  <2>7. NodesStored'
    BY <1>1, <2>4 DEF NodesStored
  <2> QED
    BY <1>1, <2>3, <2>6, <2>7 DEF ServerKeeps
<1>3. CASE At(p) # {}
  <2>1. PICK k \in At(p) : /\ node' = [node EXCEPT ![k].content = c]
                           /\ log' = Append(log, [node |-> k, kind |-> "upsert"])
    BY <1>3 DEF PutFile
  <2>2. k \in DOMAIN node /\ k \in Nat
    BY DEF At
  <2>3. [node |-> k, kind |-> "upsert"] \in Row
    BY <2>2 DEF Row
  <2>4. log' \in Seq(Row)
    BY <2>1, <2>3
  <2>5. [node[k] EXCEPT !.content = c] \in Node
    <3>1. node[k] \in Node
      BY <2>2
    <3> QED
      BY <3>1 DEF Node
  <2>6. node' \in Seq(Node)
    <3>1. node \in [1..Len(node) -> Node] /\ Len(node) \in Nat
      OBVIOUS
    <3>2. node' = [node EXCEPT ![k] = [node[k] EXCEPT !.content = c]]
      BY <2>1
    <3>3. node' \in [1..Len(node) -> Node]
      BY <3>1, <3>2, <2>5
    <3> QED
      BY <3>1, <3>3
  <2>7. /\ DOMAIN node' = DOMAIN node
        /\ \A n \in DOMAIN node : /\ node'[n].live = node[n].live
                                  /\ node'[n].path = node[n].path
                                  /\ node'[n].content \in {node[n].content, c}
    BY <2>1, <2>2 DEF Node
  <2>8. NodesStored'
    BY <1>1, <2>7 DEF NodesStored
  <2> QED
    BY <1>1, <2>4, <2>6, <2>7, <2>8 DEF ServerKeeps
<1> QED
  BY <1>1, <1>2, <1>3

\* Moving, trashing and restoring change one node's path or state, so that no
\* live node shares its path, and append one row.
LEMMA OneNodeKeeps ==
    ASSUME ServerInv, NEW n \in DOMAIN node, NEW r \in Node, NEW row \in Row,
           node' = [node EXCEPT ![n] = r], r.content = node[n].content,
           r.live => \A m \in At(r.path) : m = n,
           log' = Append(log, row), UNCHANGED <<pruned, stored>>
    PROVE  ServerKeeps
<1> USE DEF ServerInv
<1>1. log' \in Seq(Row)
  OBVIOUS
<1>2. /\ node' \in Seq(Node) /\ DOMAIN node' = DOMAIN node
      /\ \A m \in DOMAIN node \ {n} : node'[m] = node[m]
      /\ node'[n] = r
  <2>1. node \in [1..Len(node) -> Node] /\ Len(node) \in Nat /\ DOMAIN node = 1..Len(node)
    OBVIOUS
  <2>2. node' \in [1..Len(node) -> Node]
    BY <2>1
  <2> QED
    BY <2>1, <2>2
<1>3. \A k, m \in DOMAIN node' :
        node'[k].live /\ node'[m].live /\ node'[k].path = node'[m].path => k = m
  BY <1>2 DEF At
<1>4. NodesStored'
  BY <1>2 DEF NodesStored
<1> QED
  BY <1>1, <1>2, <1>3, <1>4 DEF ServerKeeps

LEMMA MoveKeeps ==
    ASSUME ServerInv, NEW n \in DOMAIN node, NEW p \in Path, MoveOrRename(n, p)
    PROVE  ServerKeeps
<1>1. node[n] \in Node /\ n \in Nat
  BY DEF ServerInv
<1> DEFINE r == [node[n] EXCEPT !.path = p]
           row == [node |-> n, kind |-> "upsert"]
<1>2. /\ r \in Node /\ r.content = node[n].content /\ r.path = p
      /\ row \in Row
  BY <1>1 DEF Node, Row
<1>3. /\ node' = [node EXCEPT ![n] = r] /\ log' = Append(log, row)
      /\ UNCHANGED <<pruned, stored>> /\ At(p) = {}
  BY DEF MoveOrRename
<1> HIDE DEF r, row
<1> QED
  BY <1>2, <1>3, OneNodeKeeps

LEMMA TrashKeeps ==
    ASSUME ServerInv, NEW n \in DOMAIN node, Trash(n)
    PROVE  ServerKeeps
<1>1. node[n] \in Node /\ n \in Nat
  BY DEF ServerInv
<1> DEFINE r == [node[n] EXCEPT !.live = FALSE]
           row == [node |-> n, kind |-> "delete"]
<1>2. /\ r \in Node /\ r.content = node[n].content /\ ~r.live
      /\ row \in Row
  BY <1>1 DEF Node, Row
<1>3. /\ node' = [node EXCEPT ![n] = r] /\ log' = Append(log, row)
      /\ UNCHANGED <<pruned, stored>>
  BY DEF Trash
<1> HIDE DEF r, row
<1> QED
  BY <1>2, <1>3, OneNodeKeeps

LEMMA RestoreKeeps ==
    ASSUME ServerInv, NEW n \in DOMAIN node, Restore(n)
    PROVE  ServerKeeps
<1>1. node[n] \in Node /\ n \in Nat
  BY DEF ServerInv
<1> DEFINE r == [node[n] EXCEPT !.live = TRUE]
           row == [node |-> n, kind |-> "upsert"]
<1>2. /\ r \in Node /\ r.content = node[n].content /\ r.path = node[n].path
      /\ row \in Row
  BY <1>1 DEF Node, Row
<1>3. /\ node' = [node EXCEPT ![n] = r] /\ log' = Append(log, row)
      /\ UNCHANGED <<pruned, stored>> /\ At(node[n].path) = {}
  BY DEF Restore
<1> HIDE DEF r, row
<1> QED
  BY <1>2, <1>3, OneNodeKeeps

LEMMA BackupKeeps ==
    ASSUME ServerInv, RestoreBackup
    PROVE  ServerKeeps
BY NodesAtStart, LogAtStart DEF RestoreBackup, ServerInv, ServerKeeps, NodesStored

---------------------------------------------------------------------------
(* The steps of a pass.                                                    *)

PassInv == pass \in Pass /\ WritesStored /\ TransferStored

\* The state of a pass in which nothing is being written or in transfer.
Harmless(q) == /\ q \in Pass /\ q.writes = <<>>
               /\ q.pc \notin {"place", "stat", "record"}

LEMMA HarmlessKeeps ==
    ASSUME Harmless(pass')
    PROVE  PassInv'
BY DEF Harmless, PassInv, WritesStored, TransferStored

LEMMA IdleHarmless == Harmless(Idle)
BY NoneTyped DEF Harmless, Idle

LEMMA WalkHarmless == Harmless([Idle EXCEPT !.pc = "walk"])
BY NoneTyped DEF Harmless, Idle, Pass

LEMMA PulledHarmless == Harmless(Pulled)
BY IdleHarmless, WalkHarmless DEF Pulled

\* One forgotten path, or one record of the content in transfer.
LEMMA ForgetKeeps ==
    ASSUME NEW p \in Path, NEW q \in Pass, pass' = q, q.writes = <<Forget(p)>>,
           q.pc \notin {"place", "stat", "record"}
    PROVE  PassInv'
<1>1. \A i \in DOMAIN q.writes : q.writes[i].entry = NoEntry
  BY DEF Forget, Put
<1> QED
  BY <1>1 DEF PassInv, WritesStored, TransferStored

LEMMA ForgetIsRecord == \A p \in Path : <<Forget(p)>> \in Seq(Record)
<1> TAKE p \in Path
<1>1. Forget(p) \in Record
  BY NoneTyped DEF Forget, Put, Record
<1> QED
  BY <1>1

LEMMA RecordKeeps ==
    ASSUME NEW p \in Path, NEW e \in Entry, NEW q \in Pass, pass' = q,
           q.writes = <<Put(p, e)>>, e.hash \in stored',
           q.pc \notin {"place", "stat", "record"}
    PROVE  PassInv'
<1>1. \A i \in DOMAIN q.writes : q.writes[i].entry = e
  BY DEF Put
<1> QED
  BY <1>1 DEF PassInv, WritesStored, TransferStored

StateInv == entry \in [Path -> Entry] /\ cursor \in Nat /\ SyncedIsStored
FolderInv == disk \in [Path -> File]

\* The invariant without the count of writes.
StepInv == ServerInv /\ FolderInv /\ StateInv /\ PassInv

LEMMA InvSplits ==
    /\ Inv <=> StepInv /\ written \in Nat
    /\ (Inv <=> StepInv /\ written \in Nat)'
BY DEF Inv, StepInv, TypeOK, Accounted, ServerInv, FolderInv, StateInv, PassInv

LEMMA ServerRests ==
    ASSUME StepInv, LeavesServer
    PROVE  ServerInv' /\ stored' = stored
BY DEF StepInv, ServerInv, LeavesServer, NodesStored

LEMMA StateRests ==
    ASSUME StepInv, LeavesState, stored \subseteq stored'
    PROVE  StateInv'
BY DEF StepInv, StateInv, LeavesState, SyncedIsStored, Known

LEMMA FolderRests ==
    ASSUME StepInv, LeavesFolder
    PROVE  FolderInv'
BY DEF StepInv, FolderInv, LeavesFolder

\* A step that touches the pass alone.
LEMMA PassAlone ==
    ASSUME StepInv, LeavesFolder, LeavesState, LeavesServer, PassInv'
    PROVE  StepInv'
BY ServerRests, StateRests, FolderRests DEF StepInv

\* A step that touches the folder and the pass.
LEMMA FolderAlone ==
    ASSUME StepInv, FolderInv', LeavesState, LeavesServer, PassInv'
    PROVE  StepInv'
BY ServerRests, StateRests DEF StepInv

LEMMA BeginKeeps ==
    ASSUME StepInv, BeginPush \/ \E b \in BOOLEAN : BeginPull(b)
    PROVE  StepInv'
<1>1. CASE BeginPush
  BY <1>1, WalkHarmless, HarmlessKeeps, PassAlone DEF BeginPush
<1>2. ASSUME NEW b \in BOOLEAN, BeginPull(b) PROVE StepInv'
  <2>1. Harmless(pass')
    BY <1>2, NoneTyped DEF BeginPull, Harmless, Idle, Pass
  <2> QED
    BY <1>2, <2>1, HarmlessKeeps, PassAlone DEF BeginPull
<1> QED
  BY <1>1, <1>2

LEMMA ChangesTyped ==
    ASSUME ServerInv, NEW since \in Nat, NEW limit \in Nat
    PROVE  ChangesSince(since, limit) \in Seq(Change)
<1> DEFINE from == IF since > pruned THEN since ELSE pruned
           rows == IF limit < Len(log) - from THEN limit ELSE Len(log) - from
<1>1. from \in Nat /\ rows \in Int /\ from + rows <= Len(log) /\ Len(log) \in Nat
  <2>1. pruned \in Nat /\ Len(log) \in Nat
    BY DEF ServerInv
  <2>2. from \in Nat
    BY <2>1
  <2> HIDE DEF from
  <2> QED
    BY <2>1, <2>2
<1>2. \A i \in 1..rows : from + i \in DOMAIN log /\ from + i \in Nat
  BY <1>1 DEF ServerInv
<1>3. \A n \in Nat : GetLive(n) \in SUBSET Item
  <2> TAKE n \in Nat
  <2>1. CASE n \in DOMAIN node /\ node[n].live
    <3>1. node[n] \in Node
      BY <2>1 DEF ServerInv
    <3> QED
      BY <2>1, <3>1 DEF GetLive, Node, Item
  <2>2. CASE ~(n \in DOMAIN node /\ node[n].live)
    BY <2>2 DEF GetLive
  <2> QED
    BY <2>1, <2>2
<1>4. \A k \in DOMAIN log : k \in Nat => ChangeOf(k) \in Change
  <2> TAKE k \in DOMAIN log
  <2> HAVE k \in Nat
  <2>1. log[k] \in Row
    BY DEF ServerInv
  <2>2. /\ log[k].node \in Nat /\ log[k].kind \in {"upsert", "delete"}
    BY <2>1 DEF Row
  <2> QED
    BY <2>2, <1>3 DEF ChangeOf, Change
<1>5. ChangesSince(since, limit) = [i \in 1..rows |-> ChangeOf(from + i)]
  BY DEF ChangesSince
<1> HIDE DEF from, rows
<1>6. \A i \in 1..rows : ChangeOf(from + i) \in Change
  BY <1>2, <1>4
<1>7. CASE rows \in Nat
  BY <1>5, <1>6, <1>7
<1>8. CASE rows \notin Nat
  <2>1. 1..rows = 1..0
    BY <1>1, <1>8
  <2>2. ChangesSince(since, limit) \in [1..0 -> Change]
    BY <1>5, <1>6, <2>1
  <2> QED
    BY <2>2
<1> QED
  BY <1>7, <1>8

LEMMA ReceivedHarmless ==
    ASSUME StepInv, On("rows"), NEW page \in Seq(Change), Received(page)
    PROVE  Harmless(pass')
<1>1. page # <<>> => Last(page) \in Change
  BY DEF Last
<1>2. page # <<>> => Last(page).seq \in Nat
  BY <1>1 DEF Change
<1> QED
  BY <1>2 DEF StepInv, StateInv, PassInv, Received, On, Harmless, Pass

LEMMA PollKeeps ==
    ASSUME StepInv, LatestHead \/ PollHead \/ PollRows \/ PollRowsLost
    PROVE  StepInv'
<1> USE DEF StepInv
<1>1. CASE LatestHead \/ PollHead
  <2>1. LatestSeq \in Nat
    BY DEF LatestSeq, ServerInv
  <2>2. /\ pass \in Pass /\ pass.writes = <<>>
        /\ \/ pass' = [pass EXCEPT !.pc = "list", !.next = LatestSeq]
           \/ pass' = [pass EXCEPT !.pc = "rows"]
    BY <1>1 DEF LatestHead, PollHead, On, PassInv
  <2>3. Harmless(pass')
    BY <2>1, <2>2 DEF Harmless, Pass
  <2> QED
    BY <1>1, <2>3, HarmlessKeeps, PassAlone DEF LatestHead, PollHead
<1>2. ChangesSince(cursor, PageLimit) \in Seq(Change)
  BY ChangesTyped, ClientConstants DEF StateInv
<1>3. CASE PollRows
  BY <1>2, <1>3, ReceivedHarmless, HarmlessKeeps, PassAlone DEF PollRows
<1>4. CASE PollRowsLost
  <2> DEFINE page == ChangesSince(cursor, PageLimit)
  <2>1. PICK i \in DOMAIN page : Received([page EXCEPT ![i].now = {}])
    BY <1>4 DEF PollRowsLost
  <2>2. [page EXCEPT ![i].now = {}] \in Seq(Change)
    <3> HIDE DEF page
    <3>1. page \in [1..Len(page) -> Change] /\ Len(page) \in Nat
      BY <1>2 DEF page
    <3>2. page[i] \in Change
      BY <3>1
    <3>3. [page[i] EXCEPT !.now = {}] \in Change
      BY <3>2 DEF Change
    <3>4. [page EXCEPT ![i].now = {}] \in [1..Len(page) -> Change]
      BY <3>1, <3>3
    <3> QED
      BY <3>1, <3>4
  <2> QED
    BY <1>4, <2>1, <2>2, ReceivedHarmless, HarmlessKeeps, PassAlone DEF PollRowsLost
<1> QED
  BY <1>1, <1>3, <1>4

LEMMA StateWriteKeeps ==
    ASSUME StepInv, StateWrite
    PROVE  StepInv'
<1> USE DEF StepInv
<1> DEFINE w == Head(pass.writes)
<1>1. pass \in Pass /\ pass.writes \in Seq(Record) /\ pass.writes # <<>>
  BY DEF PassInv, Pass, StateWrite
<1>2. w = pass.writes[1] /\ 1 \in DOMAIN pass.writes /\ w \in Record
  BY <1>1
<1>3. w.path \in Path /\ w.entry \in Entry /\ (w.entry # NoEntry => w.entry.hash \in stored)
  BY <1>2 DEF Record, PassInv, WritesStored
<1>4. /\ entry' = [entry EXCEPT ![w.path] = w.entry]
      /\ pass' = [pass EXCEPT !.writes = Tail(pass.writes)]
      /\ LeavesFolder /\ LeavesServer /\ cursor' = cursor
  BY DEF StateWrite
<1>5. ServerInv' /\ FolderInv' /\ stored' = stored
  BY <1>4, ServerRests, FolderRests
<1> HIDE DEF w
<1>6. StateInv'
  BY <1>3, <1>4, <1>5 DEF StateInv, SyncedIsStored, Known
<1>7. PassInv'
  <2> DEFINE rest == Tail(pass.writes)
  <2>1. rest \in Seq(Record) /\ \A i \in DOMAIN rest : i + 1 \in DOMAIN pass.writes /\ rest[i] = pass.writes[i + 1]
    BY <1>1
  <2> HIDE DEF rest
  <2>2. pass' \in Pass /\ pass'.writes = rest /\ pass'.pc = pass.pc /\ pass'.got = pass.got
    BY <1>1, <1>4, <2>1 DEF Pass, rest
  <2> QED
    BY <1>5, <2>1, <2>2 DEF PassInv, WritesStored, TransferStored
<1> QED
  BY <1>5, <1>6, <1>7

LEMMA SaveKeeps ==
    ASSUME StepInv, SavePage \/ SaveHead
    PROVE  StepInv'
<1> USE DEF StepInv
<1>1. pass \in Pass /\ pass.next \in Nat /\ pass.writes = <<>>
  BY DEF PassInv, Pass, SavePage, SaveHead, On
<1>2. /\ cursor' = pass.next /\ entry' = entry /\ LeavesFolder /\ LeavesServer
      /\ \/ pass' = Pulled
         \/ pass' = [pass EXCEPT !.pc = "poll", !.more = FALSE, !.next = 0]
  BY DEF SavePage, SaveHead
<1>3. Harmless(pass')
  <2>1. CASE pass' = Pulled
    BY <2>1, PulledHarmless
  <2>2. CASE pass' = [pass EXCEPT !.pc = "poll", !.more = FALSE, !.next = 0]
    BY <1>1, <2>2 DEF Harmless, Pass
  <2> QED
    BY <1>2, <2>1, <2>2
<1>4. ServerInv' /\ FolderInv' /\ stored' = stored
  BY <1>2, ServerRests, FolderRests
<1>5. StateInv'
  BY <1>1, <1>2, <1>4 DEF StateInv, SyncedIsStored, Known
<1> QED
  BY <1>3, <1>4, <1>5, HarmlessKeeps

LEMMA ConflictCopyTyped ==
    ASSUME FolderInv, NEW p \in Path, ConflictCopy(p)
    PROVE  FolderInv'
BY NoneTyped DEF FolderInv, ConflictCopy, FreeCopies

LEMMA DiscardTyped ==
    ASSUME FolderInv, NEW p \in Path, Discard(p)
    PROVE  FolderInv'
BY NoneTyped, ConflictCopyTyped DEF FolderInv, Discard

LEMMA PageHead ==
    ASSUME StepInv, pass.page # <<>>
    PROVE  /\ pass \in Pass /\ pass.page \in Seq(Change)
           /\ Head(pass.page) \in Change /\ Tail(pass.page) \in Seq(Change)
           /\ Head(pass.page).now \in SUBSET Item
<1>1. pass \in Pass /\ pass.page \in Seq(Change)
  BY DEF StepInv, PassInv, Pass
<1>2. Head(pass.page) \in Change /\ Tail(pass.page) \in Seq(Change)
  BY <1>1
<1> QED
  BY <1>1, <1>2 DEF Change

LEMMA ApplyDeleteKeeps ==
    ASSUME StepInv, ApplyDelete \/ SkipChange
    PROVE  StepInv'
<1> USE DEF StepInv
<1>1. /\ pass \in Pass /\ pass.writes = <<>> /\ pass.pc = "apply"
      /\ Tail(pass.page) \in Seq(Change)
      /\ LeavesState /\ LeavesServer
  BY PageHead DEF ApplyDelete, SkipChange, On
<1>2. CASE pass' = NextRow(<<>>) /\ LeavesFolder
  <2>1. Harmless(pass')
    BY <1>1, <1>2 DEF NextRow, Harmless, Pass
  <2> QED
    BY <1>1, <1>2, <2>1, HarmlessKeeps, PassAlone
<1>3. ASSUME NEW p \in Path, Discard(p), pass' = NextRow(<<Forget(p)>>)
      PROVE  StepInv'
  <2>1. NextRow(<<Forget(p)>>) \in Pass
    BY <1>1, ForgetIsRecord DEF NextRow, Pass
  <2>2. /\ NextRow(<<Forget(p)>>).writes = <<Forget(p)>>
        /\ NextRow(<<Forget(p)>>).pc = "apply"
    BY <1>1 DEF NextRow, Pass
  <2>3. PassInv'
    BY <1>3, <2>1, <2>2, ForgetKeeps
  <2> QED
    BY <1>1, <1>3, <2>3, DiscardTyped, FolderAlone
<1>4. \/ pass' = NextRow(<<>>) /\ LeavesFolder
      \/ \E p \in Path : Discard(p) /\ pass' = NextRow(<<Forget(p)>>)
  BY DEF ApplyDelete, SkipChange, GetByNodeID
<1> QED
  BY <1>2, <1>3, <1>4

LEMMA ApplyUpsertKeeps ==
    ASSUME StepInv, ApplyUpsert
    PROVE  StepInv'
<1> USE DEF StepInv
<1>1. /\ pass \in Pass /\ pass.writes = <<>> /\ LeavesState /\ LeavesServer
      /\ Head(pass.page).now \in SUBSET Item
  BY PageHead DEF ApplyUpsert, On
<1>2. PICK it \in Head(pass.page).now :
         \/ \E p \in GetByNodeID(it.id) \ {it.path} : MoveLocal(p, it.path)
         \/ /\ pass' = [pass EXCEPT !.pc = "upsert", !.item = {it}]
            /\ LeavesFolder
  BY DEF ApplyUpsert
<1>3. it \in Item /\ it.path \in Path
  BY <1>1 DEF Item
<1>4. CASE pass' = [pass EXCEPT !.pc = "upsert", !.item = {it}] /\ LeavesFolder
  <2>1. Harmless(pass')
    BY <1>1, <1>3, <1>4 DEF Harmless, Pass
  <2> QED
    BY <1>1, <1>4, <2>1, HarmlessKeeps, PassAlone
<1>5. ASSUME NEW p \in GetByNodeID(it.id), MoveLocal(p, it.path) PROVE StepInv'
  <2>1. p \in Path /\ Known(p) /\ entry[p] \in Entry /\ entry[p].hash \in stored
    BY DEF GetByNodeID, StateInv, SyncedIsStored
  <2> DEFINE ws == <<Forget(p), Put(it.path, entry[p])>>
             q == [pass EXCEPT !.pc = "upsert", !.item = Head(pass.page).now, !.writes = ws]
  <2>2. ws \in Seq(Record) /\ DOMAIN ws = 1..2
        /\ ws[1].entry = NoEntry /\ ws[2].entry = entry[p]
    BY <1>3, <2>1, NoneTyped DEF Forget, Put, Record
  <2>3. pass' = q /\ FolderInv'
    BY <1>3, <1>5, <2>1, NoneTyped DEF MoveLocal, FolderInv
  <2> HIDE DEF ws
  <2>4. q \in Pass /\ q.writes = ws /\ q.pc = "upsert"
    BY <1>1, <2>2 DEF Pass
  <2>5. stored' = stored
    BY <1>1, ServerRests
  <2>6. PassInv'
    BY <2>1, <2>2, <2>3, <2>4, <2>5 DEF PassInv, WritesStored, TransferStored
  <2> QED
    BY <1>1, <2>3, <2>6, FolderAlone
<1> QED
  BY <1>2, <1>4, <1>5

LEMMA PassTyped ==
    ASSUME StepInv
    PROVE  /\ pass \in Pass /\ pass.page \in Seq(Change) /\ pass.got \in Nat
           /\ \A it \in pass.item : it \in Item
           /\ \A it \in pass.nodes : it \in Item
           /\ \A it \in Item : it.path \in Path /\ it.id \in Nat /\ it.content \in Nat
           /\ \A p \in pass.paths : p \in Path
BY DEF StepInv, PassInv, Pass, Item

LEMMA NextItemTyped ==
    ASSUME StepInv, NEW ws \in Seq(Record)
    PROVE  /\ NextItem(ws) \in Pass /\ NextItem(ws).writes = ws
           /\ NextItem(ws).pc \in {"mat", "apply"}
<1>1. pass \in Pass /\ pass.page \in Seq(Change)
  BY PassTyped
<1>2. CASE pass.page = <<>>
  <2>1. NextItem(ws) = [pass EXCEPT !.pc = "mat", !.item = {}, !.got = 0, !.writes = ws]
    BY <1>1, <1>2 DEF NextItem, Pass
  <2>2. NextItem(ws).writes = ws /\ NextItem(ws).pc = "mat"
    BY <1>1, <2>1 DEF Pass
  <2>3. [pass EXCEPT !.pc = "mat", !.item = {}, !.got = 0, !.writes = ws] \in Pass
    BY <1>1 DEF Pass
  <2> QED
    BY <2>1, <2>2, <2>3
<1>3. CASE pass.page # <<>>
  <2> DEFINE page == Tail(pass.page)
  <2>1. page \in Seq(Change)
    BY <1>1, <1>3
  <2>2. NextItem(ws) = [pass EXCEPT !.pc = "apply", !.page = page, !.item = {}, !.got = 0,
                                    !.writes = ws]
    BY <1>3 DEF NextItem
  <2> HIDE DEF page
  <2>3. NextItem(ws).writes = ws /\ NextItem(ws).pc = "apply"
    BY <1>1, <2>2 DEF Pass
  <2>4. [pass EXCEPT !.pc = "apply", !.page = page, !.item = {}, !.got = 0,
                     !.writes = ws] \in Pass
    BY <1>1, <2>1 DEF Pass
  <2> QED
    BY <2>2, <2>3, <2>4
<1> QED
  BY <1>2, <1>3

LEMMA ApplyFileUpsertKeeps ==
    ASSUME StepInv, ApplyFileUpsert
    PROVE  StepInv'
<1> USE DEF StepInv
<1>1. /\ pass \in Pass /\ pass.writes = <<>> /\ LeavesState /\ LeavesServer
  BY PassTyped DEF ApplyFileUpsert, On
<1>2. PICK it \in pass.item :
         \/ pass' = NextItem(<<>>) /\ LeavesFolder
         \/ pass' = [pass EXCEPT !.pc = "fetch"] /\ LeavesFolder
         \/ /\ ConflictCopy(it.path)
            /\ pass' = [pass EXCEPT !.pc = "fetch", !.writes = <<Forget(it.path)>>]
  BY DEF ApplyFileUpsert
<1>3. it.path \in Path
  BY PassTyped
<1>4. CASE pass' = NextItem(<<>>) /\ LeavesFolder
  <2>1. <<>> \in Seq(Record)
    OBVIOUS
  <2>2. Harmless(pass')
    BY <1>4, <2>1, NextItemTyped DEF Harmless
  <2> QED
    BY <1>1, <1>4, <2>2, HarmlessKeeps, PassAlone
<1>5. CASE pass' = [pass EXCEPT !.pc = "fetch"] /\ LeavesFolder
  <2>1. Harmless(pass')
    BY <1>1, <1>5 DEF Harmless, Pass
  <2> QED
    BY <1>1, <1>5, <2>1, HarmlessKeeps, PassAlone
<1>6. CASE /\ ConflictCopy(it.path)
           /\ pass' = [pass EXCEPT !.pc = "fetch", !.writes = <<Forget(it.path)>>]
  <2> DEFINE q == [pass EXCEPT !.pc = "fetch", !.writes = <<Forget(it.path)>>]
  <2>1. q \in Pass /\ q.writes = <<Forget(it.path)>> /\ q.pc = "fetch"
    BY <1>1, <1>3, ForgetIsRecord DEF Pass
  <2>2. pass' = q
    BY <1>6
  <2> HIDE DEF q
  <2>3. PassInv'
    BY <1>3, <2>1, <2>2, ForgetKeeps
  <2> QED
    BY <1>1, <1>3, <1>6, <2>3, ConflictCopyTyped, FolderAlone
<1> QED
  BY <1>2, <1>4, <1>5, <1>6

\* A step that leaves the server, the folder and the state database alone and
\* ends in a harmless state of the pass.
LEMMA HarmlessStep ==
    ASSUME StepInv, Harmless(pass'), LeavesFolder, LeavesState, LeavesServer
    PROVE  StepInv'
BY HarmlessKeeps, PassAlone

LEMMA FetchKeeps ==
    ASSUME StepInv, Fetch
    PROVE  StepInv'
<1>1. /\ pass \in Pass /\ pass.writes = <<>>
      /\ LeavesState /\ LeavesServer /\ LeavesFolder
  BY PassTyped DEF Fetch, On
<1>2. CASE pass' = Idle
  BY <1>1, <1>2, IdleHarmless, HarmlessStep
<1>3. ASSUME NEW n \in DOMAIN node,
             pass' = [pass EXCEPT !.pc = "place", !.got = node[n].content]
      PROVE  StepInv'
  <2>1. node[n].content \in Nat /\ node[n].content \in stored
    <3>1. node[n] \in Node
      BY DEF StepInv, ServerInv
    <3> QED
      BY <3>1 DEF StepInv, ServerInv, NodesStored, Node
  <2>2. stored' = stored
    BY <1>1 DEF LeavesServer
  <2>3. /\ pass' \in Pass /\ pass'.writes = <<>> /\ pass'.got = node[n].content
    BY <1>1, <1>3, <2>1 DEF Pass
  <2>4. PassInv'
    BY <2>1, <2>2, <2>3 DEF PassInv, WritesStored, TransferStored
  <2> QED
    BY <1>1, <2>4, PassAlone
<1> QED
  BY <1>2, <1>3 DEF Fetch

LEMMA PlaceKeeps ==
    ASSUME StepInv, Place
    PROVE  StepInv'
<1>1. PICK it \in pass.item :
        disk' = [disk EXCEPT ![it.path] = [content |-> pass.got, stamp |-> pass.got]]
  BY DEF Place
<1>2. /\ pass \in Pass /\ pass.writes = <<>> /\ LeavesState /\ LeavesServer
      /\ pass.pc = "place" /\ pass' = [pass EXCEPT !.pc = "stat"]
  BY PassTyped DEF Place, On
<1>3. FolderInv'
  <2>1. [content |-> pass.got, stamp |-> pass.got] \in File
    BY PassTyped DEF File
  <2> QED
    BY <1>1, <2>1 DEF StepInv, FolderInv
<1>4. pass.got \in stored
  BY <1>2 DEF StepInv, PassInv, TransferStored
<1>5. stored' = stored
  BY <1>2 DEF LeavesServer
<1>6. pass' \in Pass /\ pass'.writes = <<>> /\ pass'.got = pass.got
  BY <1>2 DEF Pass
<1>7. PassInv'
  BY <1>4, <1>5, <1>6 DEF PassInv, WritesStored, TransferStored
<1> QED
  BY <1>2, <1>3, <1>7, FolderAlone

LEMMA RecordOfTyped ==
    ASSUME StepInv, NEW it \in Item
    PROVE  \E e \in Entry : RecordOf(it) = Put(it.path, e) /\ e.hash = pass.got
<1>1. disk[it.path].stamp \in Nat
  BY PassTyped DEF StepInv, FolderInv, File
<1> DEFINE e == [node |-> it.id, stamp |-> disk[it.path].stamp,
                 hash |-> pass.got, remote |-> it.content]
<1>2. e \in Entry
  BY <1>1, PassTyped DEF Entry
<1> QED
  BY <1>2 DEF RecordOf

LEMMA PutIsRecord ==
    \A p \in Path : \A e \in Entry : <<Put(p, e)>> \in Seq(Record)
<1> TAKE p \in Path
<1> TAKE e \in Entry
<1>1. Put(p, e) \in Record
  BY DEF Put, Record
<1> QED
  BY <1>1

LEMMA StatKeeps ==
    ASSUME StepInv, StatPlaced \/ StatPushed
    PROVE  StepInv'
<1>1. /\ pass \in Pass /\ pass.pc \in {"stat", "record"}
      /\ LeavesState /\ LeavesServer /\ LeavesFolder
  BY PassTyped DEF StatPlaced, StatPushed, On
<1>2. pass.got \in stored /\ stored' = stored
  BY <1>1 DEF StepInv, PassInv, TransferStored, LeavesServer
<1>3. CASE pass' = Idle
  BY <1>1, <1>3, IdleHarmless, HarmlessStep
<1>4. ASSUME NEW it \in pass.item,
             \/ pass' = NextItem(<<RecordOf(it)>>)
             \/ pass' = [pass EXCEPT !.pc = "push", !.item = {}, !.got = 0,
                                     !.writes = <<RecordOf(it)>>]
      PROVE  StepInv'
  <2>1. it \in Item /\ it.path \in Path
    BY PassTyped
  <2>2. PICK e \in Entry : RecordOf(it) = Put(it.path, e) /\ e.hash = pass.got
    BY <2>1, RecordOfTyped
  <2>3. <<Put(it.path, e)>> \in Seq(Record)
    BY <2>1, PutIsRecord
  <2>4. /\ pass' \in Pass /\ pass'.writes = <<Put(it.path, e)>>
        /\ pass'.pc \in {"mat", "apply", "push"}
    <3> DEFINE ws == <<Put(it.path, e)>>
    <3>1. /\ ws \in Seq(Record)
          /\ \/ pass' = NextItem(ws)
             \/ pass' = [pass EXCEPT !.pc = "push", !.item = {}, !.got = 0, !.writes = ws]
      BY <1>4, <2>2, <2>3
    <3> HIDE DEF ws
    <3>2. CASE pass' = NextItem(ws)
      BY <3>1, <3>2, NextItemTyped DEF ws
    <3>3. CASE pass' = [pass EXCEPT !.pc = "push", !.item = {}, !.got = 0, !.writes = ws]
      <4>1. pass' \in Pass /\ pass'.writes = ws /\ pass'.pc = "push"
        BY <1>1, <3>1, <3>3 DEF Pass
      <4> QED
        BY <4>1 DEF ws
    <3> QED
      BY <3>1, <3>2, <3>3
  <2>5. e.hash \in stored'
    BY <1>2, <2>2
  <2>6. PassInv'
    BY <2>1, <2>4, <2>5, RecordKeeps
  <2> QED
    BY <1>1, <2>6, PassAlone
<1> QED
  BY <1>3, <1>4 DEF StatPlaced, StatPushed

\* The lists of a walk: the tree, the folder and the state database.
LEMMA WalksKeep ==
    ASSUME StepInv,
           \/ ListChildren \/ MaterializeFile \/ ListEntries \/ Walk \/ PushFile
           \/ ListGone \/ PushEnds
    PROVE  StepInv'
<1>1. /\ pass \in Pass /\ pass.writes = <<>>
      /\ LeavesState /\ LeavesServer /\ LeavesFolder
  BY PassTyped DEF ListChildren, MaterializeFile, ListEntries, Walk, PushFile,
                   ListGone, PushEnds, On
<1>2. SUFFICES Harmless(pass')
  BY <1>1, HarmlessStep
<1>3. CASE ListChildren
  <2> DEFINE live == UNION {GetLive(n) : n \in DOMAIN node}
             ps == {it.path : it \in live}
  <2>1. live \subseteq Item
    <3>1. \A n \in DOMAIN node : node[n] \in Node /\ n \in Nat
      BY DEF StepInv, ServerInv
    <3>2. \A n \in DOMAIN node : GetLive(n) \subseteq Item
      BY <3>1 DEF GetLive, Node, Item
    <3> QED
      BY <3>2
  <2>2. ps \subseteq Path
    BY <2>1, PassTyped
  <2>3. pass' = [pass EXCEPT !.pc = "mat", !.nodes = live, !.seen = ps]
    BY <1>3 DEF ListChildren
  <2> HIDE DEF live, ps
  <2> QED
    BY <1>1, <2>1, <2>2, <2>3 DEF Harmless, Pass
<1>4. CASE MaterializeFile
  <2>1. PICK it \in pass.nodes :
          \/ pass' = [pass EXCEPT !.nodes = @ \ {it}]
          \/ pass' = [[pass EXCEPT !.nodes = @ \ {it}] EXCEPT !.pc = "fetch", !.item = {it}]
    BY <1>4 DEF MaterializeFile
  <2>2. it \in Item /\ pass.nodes \ {it} \in SUBSET Item /\ pass.pc = "mat"
    BY <1>4, PassTyped DEF MaterializeFile, On
  <2> DEFINE rest == [pass EXCEPT !.nodes = @ \ {it}]
  <2>3. rest \in Pass /\ rest.writes = <<>> /\ rest.pc = "mat"
    BY <1>1, <2>2 DEF Pass
  <2>4. CASE pass' = rest
    BY <2>3, <2>4 DEF Harmless
  <2>5. CASE pass' = [rest EXCEPT !.pc = "fetch", !.item = {it}]
    <3> HIDE DEF rest
    <3> QED
      BY <2>2, <2>3, <2>5 DEF Harmless, Pass
  <2> QED
    BY <2>1, <2>4, <2>5
<1>5. CASE ListEntries \/ ListGone
  <2> DEFINE ps == {p \in Path : Known(p) /\ p \notin pass.seen}
  <2>1. \/ pass' = [pass EXCEPT !.pc = "vanish", !.paths = ps]
        \/ pass' = [pass EXCEPT !.pc = "trash", !.paths = ps]
    BY <1>5 DEF ListEntries, ListGone
  <2>2. ps \in SUBSET Path
    OBVIOUS
  <2> HIDE DEF ps
  <2> QED
    BY <1>1, <2>1, <2>2 DEF Harmless, Pass
<1>6. CASE Walk
  <2> DEFINE ps == {p \in Path : Exists(p)}
  <2>1. pass' = [pass EXCEPT !.pc = "push", !.paths = ps, !.seen = ps]
    BY <1>6 DEF Walk
  <2>2. ps \in SUBSET Path
    OBVIOUS
  <2> HIDE DEF ps
  <2> QED
    BY <1>1, <2>1, <2>2 DEF Harmless, Pass
<1>7. CASE PushFile
  <2>1. PICK p \in pass.paths :
          LET rest == [pass EXCEPT !.paths = @ \ {p}] IN
          \/ pass' = rest
          \/ pass' = Idle
          \/ pass' = [rest EXCEPT !.pc = "commit", !.got = disk[p].content,
                                  !.item = {[id |-> 0, path |-> p, content |-> 0]}]
    BY <1>7 DEF PushFile
  <2> DEFINE rest == [pass EXCEPT !.paths = @ \ {p}]
             it == [id |-> 0, path |-> p, content |-> 0]
  <2>2. p \in Path /\ pass.paths \ {p} \in SUBSET Path /\ pass.pc = "push"
    BY <1>7, PassTyped DEF PushFile, On
  <2>3. it \in Item /\ disk[p].content \in Nat
    BY <2>2 DEF Item, StepInv, FolderInv, File
  <2>4. rest \in Pass /\ rest.writes = <<>> /\ rest.pc = "push"
    BY <1>1, <2>2 DEF Pass
  <2>5. CASE pass' = rest
    BY <2>4, <2>5 DEF Harmless
  <2>6. CASE pass' = [rest EXCEPT !.pc = "commit", !.got = disk[p].content, !.item = {it}]
    <3> HIDE DEF rest, it
    <3> QED
      BY <2>3, <2>4, <2>6 DEF Harmless, Pass
  <2> QED
    BY <2>1, <2>5, <2>6, IdleHarmless
<1>8. CASE PushEnds
  BY <1>8, IdleHarmless DEF PushEnds
<1> QED
  BY <1>3, <1>4, <1>5, <1>6, <1>7, <1>8

LEMMA ForgetOne ==
    ASSUME StepInv, NEW p \in pass.paths, pass.pc \in {"vanish", "trash"},
           pass' = [pass EXCEPT !.paths = @ \ {p}, !.writes = <<Forget(p)>>]
    PROVE  PassInv'
<1>1. p \in Path /\ pass \in Pass /\ pass.paths \ {p} \in SUBSET Path
  BY PassTyped
<1>2. /\ pass' \in Pass /\ pass'.writes = <<Forget(p)>> /\ pass'.pc = pass.pc
  BY <1>1, ForgetIsRecord DEF Pass
<1> QED
  BY <1>1, <1>2, ForgetKeeps

LEMMA RemoveVanishedKeeps ==
    ASSUME StepInv, RemoveVanished
    PROVE  StepInv'
<1>1. PICK p \in pass.paths :
         /\ Discard(p)
         /\ pass' = [pass EXCEPT !.paths = @ \ {p}, !.writes = <<Forget(p)>>]
  BY DEF RemoveVanished
<1>2. LeavesState /\ LeavesServer /\ pass.pc = "vanish" /\ p \in Path
  BY PassTyped DEF RemoveVanished, On
<1>3. PassInv'
  BY <1>1, <1>2, ForgetOne
<1>4. FolderInv'
  BY <1>1, <1>2, DiscardTyped DEF StepInv
<1> QED
  BY <1>2, <1>3, <1>4, FolderAlone

LEMMA PushDeletionKeeps ==
    ASSUME StepInv, PushDeletion
    PROVE  StepInv'
<1>1. PICK p \in pass.paths :
         /\ \/ \E n \in DOMAIN node : Trash(n)
            \/ LeavesServer
         /\ pass' = [pass EXCEPT !.paths = @ \ {p}, !.writes = <<Forget(p)>>]
  BY DEF PushDeletion
<1>2. LeavesState /\ LeavesFolder /\ pass.pc = "trash"
  BY DEF PushDeletion, On
<1>3. PassInv'
  BY <1>1, <1>2, ForgetOne
<1>4. ServerKeeps
  BY <1>1, TrashKeeps, ServerRests DEF StepInv, ServerKeeps
<1> QED
  BY <1>2, <1>3, <1>4, StateRests, FolderRests DEF StepInv, ServerKeeps

LEMMA CommitKeeps ==
    ASSUME StepInv, Commit
    PROVE  StepInv'
<1>1. PICK it \in pass.item :
       LET ids == IF At(it.path) = {} THEN {Len(node) + 1} ELSE At(it.path) IN
       /\ PutFile(it.path, pass.got)
       /\ pass' = [pass EXCEPT !.pc = "record",
                     !.item = {[id |-> n, path |-> it.path, content |-> pass.got] : n \in ids}]
  BY DEF Commit
<1> DEFINE ids == IF At(it.path) = {} THEN {Len(node) + 1} ELSE At(it.path)
           items == {[id |-> n, path |-> it.path, content |-> pass.got] : n \in ids}
<1>2. /\ it.path \in Path /\ pass.got \in Nat /\ pass \in Pass /\ pass.writes = <<>>
      /\ LeavesFolder /\ LeavesState
  BY PassTyped DEF Commit, On
<1>3. ids \subseteq Nat
  BY DEF At, StepInv, ServerInv
<1>4. ServerKeeps /\ pass.got \in stored'
  BY <1>1, <1>2, PutFileKeeps DEF StepInv
<1>5. items \in SUBSET Item
  <2> HIDE DEF ids
  <2> QED
    BY <1>2, <1>3 DEF Item
<1>6. pass' = [pass EXCEPT !.pc = "record", !.item = items]
  BY <1>1
<1> HIDE DEF ids, items
<1>7. pass' \in Pass /\ pass'.writes = <<>> /\ pass'.got = pass.got
  BY <1>2, <1>5, <1>6 DEF Pass
<1>8. PassInv'
  BY <1>4, <1>7 DEF PassInv, WritesStored, TransferStored
<1> QED
  BY <1>2, <1>4, <1>8, StateRests, FolderRests DEF StepInv, ServerKeeps

---------------------------------------------------------------------------
(* The environment, and the whole next-state relation.                     *)

LEMMA StepKeeps ==
    ASSUME StepInv, Pull \/ Push \/ StateWrite
    PROVE  StepInv'
BY PollKeeps, SaveKeeps, ApplyDeleteKeeps, ApplyUpsertKeeps, ApplyFileUpsertKeeps,
   FetchKeeps, PlaceKeeps, StatKeeps, WalksKeep, RemoveVanishedKeeps, CommitKeeps,
   PushDeletionKeeps, StateWriteKeeps DEF Pull, Push

LEMMA FaultKeeps ==
    ASSUME StepInv, PassFails \/ PollRowsLost
    PROVE  StepInv'
<1>1. CASE PassFails
  BY <1>1, IdleHarmless, HarmlessStep DEF PassFails
<1>2. CASE PollRowsLost
  BY <1>2, PollKeeps
<1> QED
  BY <1>1, <1>2

\* The server is served by others while the client's own state rests.
LEMMA ServerAlone ==
    ASSUME StepInv, ServerKeeps, UNCHANGED <<disk, entry, cursor, pass>>
    PROVE  StepInv'
<1>1. PassInv'
  BY DEF StepInv, PassInv, WritesStored, TransferStored, ServerKeeps
<1>2. StateInv'
  BY StateRests DEF LeavesState, ServerKeeps
<1> QED
  BY <1>1, <1>2, FolderRests DEF StepInv, LeavesFolder, ServerKeeps

LEMMA UserKeeps ==
    ASSUME StepInv, written \in Nat, User
    PROVE  StepInv' /\ written' \in Nat
<1>1. /\ UNCHANGED <<entry, cursor, pass>> /\ LeavesServer
      /\ written' \in {written, written + 1}
      /\ \E p \in Path : \E c, s \in Nat :
           disk' \in {[disk EXCEPT ![p] = [content |-> c, stamp |-> s]],
                      [disk EXCEPT ![p] = NoFile]}
  <2>1. PICK x \in Names : LET p == Named(x) IN
             \/ UserWrites(p, written + 1)
             \/ UserWrites(p, disk[p].stamp)
             \/ UserRemoves(p)
    BY DEF User
  <2> DEFINE p == Named(x)
  <2>2. p \in Path
    BY NamedIsPath
  <2> HIDE DEF p
  <2>3. disk[p].stamp \in Nat /\ written + 1 \in Nat
    BY <2>2 DEF StepInv, FolderInv, File
  <2>4. CASE \E s \in Nat : UserWrites(p, s)
    BY <2>2, <2>3, <2>4 DEF UserWrites
  <2>5. CASE UserRemoves(p)
    BY <2>2, <2>3, <2>5 DEF UserRemoves
  <2> QED
    BY <2>1, <2>3, <2>4, <2>5 DEF p
<1>2. FolderInv'
  BY <1>1, NoneTyped DEF StepInv, FolderInv, File
<1>3. StateInv'
  BY <1>1, StateRests DEF LeavesState, LeavesServer
<1>4. PassInv'
  BY <1>1 DEF StepInv, PassInv, WritesStored, TransferStored, LeavesServer
<1> QED
  BY <1>1, <1>2, <1>3, <1>4, ServerRests DEF StepInv

LEMMA OthersKeep ==
    ASSUME StepInv, written \in Nat, Others
    PROVE  StepInv' /\ written' \in Nat
<1>1. ServerKeeps /\ written' \in Nat
  <2>1. CASE \E x \in Names : RemotePut(Named(x))
    BY <2>1, NamedIsPath, PutFileKeeps DEF RemotePut, StepInv
  <2>2. CASE /\ UNCHANGED written
             /\ \E n \in DOMAIN node :
                  \/ Trash(n) \/ Restore(n)
                  \/ \E x \in Names : MoveOrRename(n, Named(x))
    BY <2>2, NamedIsPath, TrashKeeps, RestoreKeeps, MoveKeeps DEF StepInv
  <2> QED
    BY <2>1, <2>2 DEF Others, RemoteOp
<1> QED
  BY <1>1, ServerAlone DEF Others

LEMMA OperatorKeeps ==
    ASSUME StepInv, Operator
    PROVE  StepInv'
<1> SUFFICES ServerKeeps
  BY ServerAlone DEF Operator
<1>2. CASE PruneChanges
  BY <1>2 DEF PruneChanges, ServerKeeps, StepInv, ServerInv, NodesStored
<1>3. CASE RestoreBackup
  BY <1>3, BackupKeeps DEF StepInv
<1> QED
  BY <1>2, <1>3 DEF Operator

LEMMA NextInv == Inv /\ [Next]_vars => Inv'
<1> SUFFICES ASSUME StepInv, written \in Nat, [Next]_vars
             PROVE  StepInv' /\ written' \in Nat
  BY InvSplits
<1>1. CASE Step
  BY <1>1, StepKeeps DEF Step
<1>2. CASE Sync \/ Tick
  BY <1>2, BeginKeeps DEF Sync, Tick
<1>3. CASE Fault
  BY <1>3, FaultKeeps DEF Fault
<1>4. CASE User
  BY <1>4, UserKeeps
<1>5. CASE Others
  BY <1>5, OthersKeep
<1>6. CASE Operator
  BY <1>6, OperatorKeeps DEF Operator
<1>7. CASE UNCHANGED vars
  <2>1. ServerKeeps
    BY <1>7 DEF vars, StepInv, ServerInv, NodesStored, ServerKeeps
  <2> QED
    BY <1>7, <2>1, ServerAlone DEF vars
<1> QED
  BY <1>1, <1>2, <1>3, <1>4, <1>5, <1>6, <1>7 DEF Next

\* The node table, the journal, the folder, the state database and the pass are
\* well formed and no two live nodes share a path, whatever the passes, the
\* user, the other devices, retention and failures do between any two steps.
THEOREM TypeCorrect == Spec => []TypeOK
<1>1. Inv => TypeOK
  BY DEF Inv
<1> QED
  BY <1>1, InitInv, NextInv, PTL DEF Spec

\* What the state database calls synced was accepted by the server, under every
\* interleaving and with every hazard: an edit that races a transfer may hide
\* behind the stamp, but never behind the hash.
THEOREM SyncedTrue == Spec => []SyncedIsStored
<1>1. Inv => SyncedIsStored
  BY DEF Inv, Accounted
<1> QED
  BY <1>1, InitInv, NextInv, PTL DEF Spec

---------------------------------------------------------------------------
(* Edits.  An edit that the server does not have is in a file whose entry  *)
(* it differs from, or in a conflict copy that no entry, node or page      *)
(* names.                                                                  *)

\* The first five hazards are those with which the client loses an edit; after a
\* backup the entries name other nodes than their paths.
Calm == Hazards \cap {"untracked", "midpass", "samestamp", "move", "prune", "backup"} = {}

Lies(n, p) == n \in DOMAIN node /\ node[n].path = p
Safe(p) == disk[p].content \in mine => disk[p].content \in stored

\* A content is the number of a write.
Counted ==
    /\ pruned = 0
    /\ 0 \notin stored /\ 0 \notin mine
    /\ written \in Nat /\ \A c \in stored : c <= written
    /\ \A p \in Path : disk[p].content <= written

\* Nobody writes twice within a second: stamps tell contents apart.
StampsTell ==
    /\ \A p \in Path : disk[p].stamp = disk[p].content
    /\ \A p \in Path : Known(p) => entry[p].stamp = entry[p].hash

\* No row deletes a conflict copy: only this client names one.
RowsLie ==
    \A s \in DOMAIN log : /\ log[s].node \in DOMAIN node
                          /\ log[s].kind = "delete" => node[log[s].node].path.copy = 0

EntriesLie == \A p \in Path : Known(p) => Lies(entry[p].node, p)

Tracked == \A p \in Path : p.copy = 0 /\ ~Known(p) => Safe(p)

\* A conflict copy that the server or the state database knows is the file that lies
\* there, and nothing changes it any more.
NodesSettled ==
    \A n \in DOMAIN node :
      node[n].path.copy # 0 => /\ node[n].live /\ Exists(node[n].path)
                               /\ node[n].content = disk[node[n].path].content
EntriesSettled ==
    \A q \in Path : q.copy # 0 /\ Known(q) => Exists(q) /\ entry[q].hash = disk[q].content

Kept == /\ Counted /\ StampsTell /\ RowsLie /\ EntriesLie
        /\ Tracked /\ NodesSettled /\ EntriesSettled /\ EditsKept

\* What a pass q may be about to do.
WriteFits(w) ==
    IF w.entry = NoEntry THEN w.path.copy = 0 /\ ~Exists(w.path)
    ELSE /\ Lies(w.entry.node, w.path) /\ w.entry.stamp = w.entry.hash
         /\ Exists(w.path) /\ w.entry.hash = disk[w.path].content

ChangeFits(ch) ==
    /\ \A it \in ch.now : Lies(it.id, it.path)
    /\ ch.kind = "delete" => ch.node \in DOMAIN node /\ node[ch.node].path.copy = 0

ItemFits(q, it) ==
    /\ q.pc # "commit" => Lies(it.id, it.path)
    /\ q.pc \in {"fetch", "place", "stat"} => Safe(it.path)
    /\ q.pc = "place" /\ it.path.copy # 0 => q.got = disk[it.path].content
    /\ q.pc \in {"stat", "commit", "record"} =>
         Exists(it.path) /\ q.got = disk[it.path].content

CarriedFits(q) ==
    /\ \A i \in DOMAIN q.writes : WriteFits(q.writes[i])
    /\ \A i \in DOMAIN q.page : ChangeFits(q.page[i])
    /\ \A it \in q.item : ItemFits(q, it)
    /\ \A a, b \in q.item : a = b

\* A walk of the whole tree begins with nothing recorded, so that no edit is in its way.
Unedited == \A p \in Path : p.copy = 0 => Safe(p)

ListFits(q) ==
    /\ \A p \in Path : p.copy # 0 /\ Known(p) => p \in q.seen
    /\ \A it \in q.nodes \cup q.item : Lies(it.id, it.path) /\ it.path \in q.seen
    /\ \A i \in DOMAIN q.writes : q.writes[i].path \in q.seen

Transferring(q) == q.pc \in {"fetch", "place", "stat"}

WalkFits(q) ==
    /\ q.pc \in {"head", "list", "mat", "vanish"} \/ (Transferring(q) /\ q.page = <<>>) => Unedited
    /\ q.pc = "mat" \/ (Transferring(q) /\ q.page = <<>>) => ListFits(q)
    /\ q.pc \in {"head", "list"} => q.item = {}
    /\ q.pc = "upsert" => q.page # <<>>
    /\ q.pc = "vanish" => \A p \in q.paths : p.copy = 0

PushFits(q) ==
    /\ q.pc \in {"push", "commit", "record", "trash"} => \A p \in Path : Exists(p) => p \in q.seen
    /\ q.pc = "trash" => \A p \in q.paths : p.copy = 0 /\ ~Exists(p)

Fits(q) == /\ q.pc = "idle" => q = Idle
           /\ CarriedFits(q) /\ WalkFits(q) /\ PushFits(q)

Keeping == StepInv /\ Kept /\ Fits(pass)

\* ------------------------------------------------------------ what fits

LEMMA IdleFits == Fits(Idle)
BY DEF Fits, Idle, CarriedFits, WalkFits, PushFits, Transferring

LEMMA WalkingFits == Fits([Idle EXCEPT !.pc = "walk"])
BY DEF Fits, Idle, CarriedFits, WalkFits, PushFits, Transferring

LEMMA PulledFits == Fits(Pulled)
BY IdleFits, WalkingFits DEF Pulled

\* Between two rows of a page.
LEMMA PlainFits ==
    ASSUME NEW q, q.pc \in {"poll", "rows", "apply"}, CarriedFits(q)
    PROVE  Fits(q)
BY DEF Fits, WalkFits, PushFits, Transferring

\* Within a row.
LEMMA RowFits ==
    ASSUME NEW q, q.pc \in {"upsert", "fetch", "place", "stat"}, q.page # <<>>, CarriedFits(q)
    PROVE  Fits(q)
BY DEF Fits, WalkFits, PushFits, Transferring

\* Within a walk.
LEMMA ListedFits ==
    ASSUME NEW q, q.pc \in {"mat", "fetch", "place", "stat"}, CarriedFits(q), ListFits(q), Unedited
    PROVE  Fits(q)
BY DEF Fits, WalkFits, PushFits, Transferring

\* The same pass, or another, where nothing that its fit depends on has changed.
LEMMA FitsStill ==
    ASSUME NEW q, Fits(q), pass' = q, UNCHANGED <<node, stored, disk, entry, mine>>
    PROVE  Fits(pass)'
BY DEF Fits, CarriedFits, WriteFits, ChangeFits, ItemFits, Unedited, ListFits, WalkFits, PushFits,
       Transferring, Lies, Safe, Exists, Known

LEMMA KeptStill ==
    ASSUME Kept, UNCHANGED <<node, log, pruned, stored, written, disk, entry, mine>>
    PROVE  Kept'
BY DEF Kept, Counted, StampsTell, RowsLie, EntriesLie, Tracked, NodesSettled, EntriesSettled,
       EditsKept, Lies, Safe, Exists, Known

\* ------------------------------------------------------------ the start

LEMMA InitKeeping == Init => Keeping
<1> SUFFICES ASSUME Init PROVE Keeping
  OBVIOUS
<1>1. StepInv
  BY InitInv, InvSplits
<1>2. /\ Len(Start) \in Nat /\ DOMAIN Start = 1..Len(Start)
      /\ node = StartNodes /\ log = StartLog /\ pruned = 0 /\ stored = DOMAIN Start
      /\ written = Len(Start) /\ mine = {} /\ pass = Idle
  BY StartIsSeq DEF Init, ServerInit, ClientInit
<1>3. ASSUME NEW p \in Path
      PROVE  \/ disk[p] = NoFile /\ entry[p] = NoEntry
             \/ /\ p.copy = 0
                /\ \E i \in DOMAIN Start :
                     /\ Lies(i, p) /\ disk[p] = [content |-> i, stamp |-> i]
                     /\ entry[p] = [node |-> i, stamp |-> i, hash |-> i, remote |-> i]
  <2> DEFINE n == {i \in DOMAIN Start : Named(Start[i]) = p}
  <2>1. CASE n = {}
    BY <2>1 DEF Init, ClientInit
  <2>2. CASE n # {}
    <3>1. PICK i \in n : disk[p] = [content |-> i, stamp |-> i]
      BY <2>2 DEF Init, ClientInit
    <3>2. disk[p] # NoFile
      BY <1>2, <3>1 DEF NoFile
    <3>3. entry[p] = [node |-> i, stamp |-> i, hash |-> i, remote |-> i]
      BY <3>1, <3>2 DEF Init, ClientInit
    <3>4. Lies(i, p) /\ p.copy = 0
      BY <1>2, NodesAtStart DEF Lies, StartNodes, Named
    <3> QED
      BY <3>1, <3>3, <3>4
  <2> QED
    BY <2>1, <2>2
<1>9. ASSUME NEW p \in Path
      PROVE  /\ disk[p].stamp = disk[p].content /\ disk[p].content <= Len(Start)
             /\ Known(p) => entry[p].stamp = entry[p].hash /\ Lies(entry[p].node, p)
  <2>1. CASE disk[p] = NoFile /\ entry[p] = NoEntry
    BY <1>2, <2>1 DEF NoFile, Known
  <2>2. ASSUME NEW i \in DOMAIN Start, Lies(i, p), disk[p] = [content |-> i, stamp |-> i],
               entry[p] = [node |-> i, stamp |-> i, hash |-> i, remote |-> i]
        PROVE  /\ disk[p].stamp = disk[p].content /\ disk[p].content <= Len(Start)
               /\ entry[p].stamp = entry[p].hash /\ Lies(entry[p].node, p)
    BY <1>2, <2>2
  <2> QED
    BY <1>3, <2>1, <2>2
<1>4. Counted
  BY <1>2, <1>9 DEF Counted
<1>5. StampsTell /\ EntriesLie
  BY <1>9 DEF StampsTell, EntriesLie
<1>6. RowsLie
  <2>1. \A s \in 1..(2 * Len(Start)) : (s + 1) \div 2 \in 1..Len(Start)
    BY <1>2
  <2>2. DOMAIN log = 1..(2 * Len(Start)) /\ DOMAIN node = 1..Len(Start)
    BY <1>2, NodesAtStart DEF StartLog
  <2>3. \A s \in DOMAIN log : log[s].node = (s + 1) \div 2 /\ log[s].kind = "upsert"
    BY <1>2, <2>2 DEF StartLog
  <2> QED
    BY <2>1, <2>2, <2>3 DEF RowsLie
<1>7. NodesSettled
  <2>1. \A n \in DOMAIN node : node[n].path.copy = 0
    BY <1>2 DEF StartNodes, Named
  <2> QED
    BY <2>1 DEF NodesSettled
<1>8. Tracked /\ EntriesSettled /\ EditsKept
  BY <1>2, <1>3 DEF Tracked, EntriesSettled, EditsKept, Safe, Known
<1> QED
  BY <1>1, <1>2, <1>4, <1>5, <1>6, <1>7, <1>8, IdleFits DEF Keeping, Kept

\* ------------------------------------------------------------ the server moves

\* What the server does to a node that this client calls a conflict copy, if anything,
\* is to hold what lies there.
ServerMoves ==
    /\ DOMAIN node \subseteq DOMAIN node'
    /\ \A n \in DOMAIN node : node'[n].path = node[n].path
    /\ NodesSettled' /\ RowsLie'
    /\ stored \subseteq stored' /\ pruned' = pruned /\ 0 \notin stored'
    /\ written' \in Nat /\ written <= written' /\ \A c \in stored' : c <= written'
    /\ UNCHANGED <<disk, entry, mine>>

LEMMA ServerMovesKept ==
    ASSUME StepInv, Kept, ServerMoves
    PROVE  Kept'
<1>1. Counted'
  <2>1. \A p \in Path : disk[p].content \in Nat
    BY DEF StepInv, FolderInv, File
  <2> QED
    BY <2>1 DEF ServerMoves, Kept, Counted
<1>2. EntriesLie'
  BY DEF ServerMoves, Kept, EntriesLie, Lies, Known
<1>3. StampsTell' /\ Tracked' /\ EntriesSettled' /\ EditsKept'
  BY DEF ServerMoves, Kept, StampsTell, Tracked, EntriesSettled, EditsKept, Safe, Known, Exists
<1> QED
  BY <1>1, <1>2, <1>3 DEF ServerMoves, Kept

LEMMA ServerMovesFits ==
    ASSUME NEW q, Fits(q), pass' = q, ServerMoves
    PROVE  Fits(pass)'
<1>1. \A n, p : Lies(n, p) => Lies(n, p)'
  BY DEF ServerMoves, Lies
<1>2. \A w : WriteFits(w) => WriteFits(w)'
  BY <1>1 DEF ServerMoves, WriteFits, Exists
<1>3. \A ch : ChangeFits(ch) => ChangeFits(ch)'
  BY <1>1 DEF ServerMoves, ChangeFits
<1>4. \A p : Safe(p) => Safe(p)'
  BY DEF ServerMoves, Safe
<1>5. \A it : ItemFits(q, it) => ItemFits(q, it)'
  BY <1>1, <1>4 DEF ServerMoves, ItemFits, Exists
<1>6. CarriedFits(pass)'
  BY <1>2, <1>3, <1>5 DEF Fits, CarriedFits
<1>7. WalkFits(pass)'
  <2>1. Unedited => Unedited'
    BY <1>4 DEF Unedited
  <2>2. ListFits(q) => ListFits(pass)'
    BY <1>1 DEF ListFits, ServerMoves, Known
  <2> QED
    BY <2>1, <2>2 DEF Fits, WalkFits, Transferring
<1>8. PushFits(pass)'
  BY DEF ServerMoves, Fits, PushFits, Exists
<1> QED
  BY <1>6, <1>7, <1>8 DEF Fits

\* Of a node that users name.
LEMMA BaseMoves ==
    ASSUME Kept, StepInv, NEW n \in DOMAIN node, node[n].path.copy = 0, NEW r \in Node,
           r.path = node[n].path, NEW row, row.node = n,
           node' = [node EXCEPT ![n] = r], log' = Append(log, row),
           UNCHANGED <<pruned, stored, written, disk, entry, mine>>
    PROVE  ServerMoves
<1>1. /\ DOMAIN node' = DOMAIN node /\ node'[n] = r
      /\ \A m \in DOMAIN node \ {n} : node'[m] = node[m]
  BY DEF StepInv, ServerInv
<1>2. \A m \in DOMAIN node : node'[m].path = node[m].path
  BY <1>1
<1>3. NodesSettled'
  BY <1>1 DEF Kept, NodesSettled, Exists
<1>4. /\ DOMAIN log' = 1..(Len(log) + 1) /\ DOMAIN log = 1..Len(log) /\ Len(log) \in Nat
      /\ \A s \in DOMAIN log : log'[s] = log[s]
      /\ log'[Len(log) + 1] = row
  BY DEF StepInv, ServerInv
<1>5. RowsLie'
  BY <1>1, <1>2, <1>4 DEF Kept, RowsLie
<1> QED
  BY <1>1, <1>2, <1>3, <1>5 DEF ServerMoves, Kept, Counted

LEMMA TrashMoves ==
    ASSUME Kept, StepInv, NEW n \in DOMAIN node, node[n].path.copy = 0, Trash(n) \/ Restore(n),
           UNCHANGED <<written, disk, entry, mine>>
    PROVE  ServerMoves
<1>1. node[n] \in Node
  BY DEF StepInv, ServerInv
<1>2. CASE Trash(n)
  <2> DEFINE r == [node[n] EXCEPT !.live = FALSE]
             row == [node |-> n, kind |-> "delete"]
  <2>1. r \in Node /\ r.path = node[n].path /\ row.node = n
    BY <1>1 DEF Node
  <2>2. node' = [node EXCEPT ![n] = r] /\ log' = Append(log, row) /\ UNCHANGED <<pruned, stored>>
    BY <1>2 DEF Trash
  <2> HIDE DEF r, row
  <2> QED
    BY <2>1, <2>2, BaseMoves
<1>3. CASE Restore(n)
  <2> DEFINE r == [node[n] EXCEPT !.live = TRUE]
             row == [node |-> n, kind |-> "upsert"]
  <2>1. r \in Node /\ r.path = node[n].path /\ row.node = n
    BY <1>1 DEF Node
  <2>2. node' = [node EXCEPT ![n] = r] /\ log' = Append(log, row) /\ UNCHANGED <<pruned, stored>>
    BY <1>3 DEF Restore
  <2> HIDE DEF r, row
  <2> QED
    BY <2>1, <2>2, BaseMoves
<1> QED
  BY <1>2, <1>3

LEMMA TwoRows ==
    ASSUME NEW S, NEW s \in Seq(S), NEW t \in Seq(S), NEW x, Len(t) = 2, t[1] = x, t[2] = x
    PROVE  /\ DOMAIN (s \o t) = 1..(Len(s) + 2) /\ DOMAIN s = 1..Len(s) /\ Len(s) \in Nat
           /\ \A i \in DOMAIN s : (s \o t)[i] = s[i]
           /\ (s \o t)[Len(s) + 1] = x /\ (s \o t)[Len(s) + 2] = x
<1>1. Len(s) \in Nat /\ DOMAIN s = 1..Len(s)
  OBVIOUS
<1> DEFINE u == s \o t
<1>2. /\ u \in Seq(S) /\ Len(u) = Len(s) + Len(t)
      /\ \A i \in 1..Len(s) + Len(t) : u[i] = IF i <= Len(s) THEN s[i] ELSE t[i - Len(s)]
  BY ConcatProperties, Zenon
<1> HIDE DEF u
<1>3. DOMAIN u = 1..(Len(s) + 2)
  BY <1>2
<1>4. \A i \in 1..(Len(s) + 2) : u[i] = IF i <= Len(s) THEN s[i] ELSE t[i - Len(s)]
  BY <1>2
<1>5. /\ \A i \in DOMAIN s : u[i] = s[i]
      /\ u[Len(s) + 1] = t[1] /\ u[Len(s) + 2] = t[2]
  BY <1>1, <1>4
<1> QED
  BY <1>1, <1>3, <1>5 DEF u

\* A write that the server accepts, at a name of a user or of what lies at a copy's.
LEMMA PutMoves ==
    ASSUME Kept, StepInv, NEW p \in Path, NEW c \in Nat \ {0}, PutFile(p, c),
           p.copy # 0 => Exists(p) /\ c = disk[p].content,
           written' \in Nat, written <= written', c <= written',
           UNCHANGED <<disk, entry, mine>>
    PROVE  /\ ServerMoves
           /\ IF At(p) = {} THEN Len(node) + 1 \in DOMAIN node' /\ node'[Len(node) + 1].path = p
              ELSE \A n \in At(p) : n \in DOMAIN node' /\ node'[n].path = p
<1>1. stored' = stored \cup {c} /\ pruned' = pruned
  BY DEF PutFile
<1>2. \A n \in DOMAIN node : node[n] \in Node /\ n \in Nat
  BY DEF StepInv, ServerInv
<1>3. /\ 0 \notin stored' /\ \A d \in stored' : d <= written'
  <2>1. \A d \in stored : d \in Nat
    BY DEF StepInv, ServerInv
  <2> QED
    BY <1>1, <2>1 DEF Kept, Counted
<1>4. CASE At(p) = {}
  <2> DEFINE new == [path |-> p, content |-> c, live |-> TRUE]
             up == [node |-> Len(node) + 1, kind |-> "upsert"]
  <2>1. node' = Append(node, new) /\ log' = log \o <<up, up>>
    BY <1>4 DEF PutFile
  <2>2. /\ DOMAIN node' = 1..(Len(node) + 1) /\ DOMAIN node = 1..Len(node) /\ Len(node) \in Nat
        /\ \A n \in DOMAIN node : node'[n] = node[n]
        /\ node'[Len(node) + 1] = new
    BY <2>1 DEF StepInv, ServerInv
  <2>3. /\ DOMAIN log' = 1..(Len(log) + 2) /\ DOMAIN log = 1..Len(log) /\ Len(log) \in Nat
        /\ \A s \in DOMAIN log : log'[s] = log[s]
        /\ log'[Len(log) + 1] = up /\ log'[Len(log) + 2] = up
    <3> DEFINE tail == <<up, up>>
    <3>1. Len(tail) = 2 /\ tail[1] = up /\ tail[2] = up /\ log' = log \o tail /\ log \in Seq(Row)
      BY <2>1 DEF StepInv, ServerInv
    <3>2. up \in Row /\ tail \in Seq(Row)
      BY <2>2 DEF Row
    <3> QED
      BY <3>1, <3>2, TwoRows
  <2>4. NodesSettled'
    BY <2>2 DEF Kept, NodesSettled, Exists
  <2>5. RowsLie'
    <3>1. \A s \in DOMAIN log' : s \in DOMAIN log \/ log'[s] = up
      BY <2>3
    <3> QED
      BY <2>2, <2>3, <3>1 DEF Kept, RowsLie
  <2> QED
    BY <1>1, <1>3, <1>4, <2>2, <2>4, <2>5 DEF ServerMoves
<1>5. CASE At(p) # {}
  <2>1. PICK k \in At(p) : /\ node' = [node EXCEPT ![k].content = c]
                           /\ log' = Append(log, [node |-> k, kind |-> "upsert"])
    BY <1>5 DEF PutFile
  <2>2. k \in DOMAIN node /\ node[k].path = p /\ node[k].live
    BY DEF At
  <2>3. /\ DOMAIN node' = DOMAIN node
        /\ \A n \in DOMAIN node : node'[n].path = node[n].path /\ node'[n].live = node[n].live
        /\ node'[k].content = c
        /\ \A n \in DOMAIN node \ {k} : node'[n] = node[n]
    BY <1>2, <2>1, <2>2 DEF Node
  <2>4. NodesSettled'
    BY <2>2, <2>3 DEF Kept, NodesSettled, Exists
  <2>5. /\ DOMAIN log' = 1..(Len(log) + 1) /\ DOMAIN log = 1..Len(log) /\ Len(log) \in Nat
        /\ \A s \in DOMAIN log : log'[s] = log[s]
        /\ log'[Len(log) + 1] = [node |-> k, kind |-> "upsert"]
    BY <2>1 DEF StepInv, ServerInv
  <2>6. RowsLie'
    BY <2>2, <2>3, <2>5 DEF Kept, RowsLie
  <2>7. \A n \in At(p) : n \in DOMAIN node' /\ node'[n].path = p
    BY <2>3 DEF At
  <2> QED
    BY <1>1, <1>3, <1>5, <2>3, <2>4, <2>6, <2>7 DEF ServerMoves
<1> QED
  BY <1>4, <1>5

\* ------------------------------------------------------------ the folder moves

\* A file is its content.
LEMMA FileIs ==
    ASSUME StepInv, Kept, NEW p \in Path
    PROVE  /\ disk[p].content \in Nat /\ disk[p].content <= written
           /\ disk[p] = [content |-> disk[p].content, stamp |-> disk[p].content]
           /\ Exists(p) <=> disk[p].content # 0
<1>1. disk[p] \in File /\ disk[p].stamp = disk[p].content /\ disk[p].content <= written
  BY DEF StepInv, FolderInv, Kept, StampsTell, Counted
<1> QED
  BY <1>1 DEF File, Exists, NoFile

\* An edit is known by its entry.
LEMMA ChangedIs ==
    ASSUME StepInv, Kept, NEW p \in Path, Known(p)
    PROVE  /\ Changed(p) <=> Exists(p) /\ disk[p].content # entry[p].hash
           /\ p.copy # 0 => ~Changed(p)
           /\ ~Changed(p) => Safe(p)
<1>1. disk[p].stamp = disk[p].content /\ entry[p].stamp = entry[p].hash /\ entry[p].hash \in stored
  BY DEF Kept, StampsTell, StepInv, StateInv, SyncedIsStored
<1>2. Changed(p) <=> Exists(p) /\ disk[p].content # entry[p].hash
  BY <1>1 DEF Changed
<1>3. p.copy # 0 => ~Changed(p)
  BY <1>2 DEF Kept, EntriesSettled
<1>4. ~Exists(p) => Safe(p)
  BY FileIs DEF Safe, Kept, Counted
<1> QED
  BY <1>1, <1>2, <1>3, <1>4 DEF Safe

\* The file at p goes; what it held is safe, or in a copy that was free.
Leaves(p) ==
    /\ disk'[p] = NoFile
    /\ \A r \in Path \ {p} : disk'[r] = disk[r] \/ (r.copy # 0 /\ ~Exists(r) /\ disk'[r] = disk[p])
    /\ Safe(p) \/ \E q \in Path \ {p} : disk'[q] = disk[p]

LEMMA ConflictCopyLeaves ==
    ASSUME StepInv, NEW p \in Path, ConflictCopy(p)
    PROVE  Leaves(p)
<1>1. PICK q \in FreeCopies(p) : disk' = [disk EXCEPT ![q] = disk[p], ![p] = NoFile]
  BY DEF ConflictCopy
<1>2. q \in Path /\ q # p /\ q.copy # 0 /\ ~Exists(q)
  <2>1. q \in Path /\ q.copy > p.copy /\ ~Exists(q)
    BY DEF FreeCopies
  <2>2. p.copy \in Nat /\ q.copy \in Nat
    BY <2>1, SyncConstants DEF Path
  <2> QED
    BY <2>1, <2>2
<1>3. disk \in [Path -> File]
  BY DEF StepInv, FolderInv
<1> QED
  BY <1>1, <1>2, <1>3 DEF Leaves

LEMMA DiscardLeaves ==
    ASSUME StepInv, Kept, NEW p \in Path, Known(p) \/ Safe(p), Discard(p)
    PROVE  Leaves(p)
<1>1. CASE Changed(p)
  BY <1>1, ConflictCopyLeaves DEF Discard
<1>2. CASE ~Changed(p)
  <2>1. Safe(p)
    BY <1>2, ChangedIs
  <2>2. disk' = [disk EXCEPT ![p] = NoFile] /\ disk \in [Path -> File]
    BY <1>2 DEF Discard, StepInv, FolderInv
  <2> QED
    BY <2>1, <2>2 DEF Leaves
<1> QED
  BY <1>1, <1>2

LEMMA LeavesKept ==
    ASSUME StepInv, Kept, NEW p \in Path, p.copy = 0, Leaves(p),
           UNCHANGED <<node, log, pruned, stored, written, entry, mine>>
    PROVE  /\ Kept' /\ ~Exists(p)' /\ Safe(p)'
           /\ \A r \in Path : r.copy = 0 /\ Safe(r) => Safe(r)'
<1>1. NoFile.content = 0 /\ NoFile.stamp = 0 /\ 0 \notin mine /\ 0 \notin stored /\ written \in Nat
  BY DEF NoFile, Kept, Counted
<1>2. \A r \in Path : disk'[r] \in {NoFile, disk[r], disk[p]}
  BY DEF Leaves
<1>3. Counted'
  BY <1>1, <1>2, FileIs DEF Kept, Counted
<1>4. StampsTell'
  BY <1>1, <1>2 DEF Kept, StampsTell, Known
<1>5. \A q \in Path : q.copy # 0 /\ Exists(q) => disk'[q] = disk[q]
  BY DEF Leaves
<1>6. NodesSettled' /\ EntriesSettled'
  <2>1. \A n \in DOMAIN node : node[n].path \in Path
    <3>1. \A n \in DOMAIN node : node[n] \in Node
      BY DEF StepInv, ServerInv
    <3> QED
      BY <3>1 DEF Node
  <2> QED
    BY <1>5, <2>1 DEF Kept, NodesSettled, EntriesSettled, Exists, Known
<1>7. \A r \in Path : r.copy = 0 /\ Safe(r) => Safe(r)'
  BY <1>1 DEF Leaves, Safe
<1>8. ~Exists(p)' /\ Safe(p)'
  BY <1>1 DEF Leaves, Exists, Safe
<1>9. Tracked'
  BY <1>7, <1>8 DEF Kept, Tracked, Known
<1>10. EditsKept'
  <2> SUFFICES ASSUME NEW c \in mine, c \notin stored
               PROVE  \E r \in Path : disk'[r].content = c
    BY DEF EditsKept
  <2>1. PICK x \in Path : disk[x].content = c
    BY DEF Kept, EditsKept
  <2>2. CASE x = p
    BY <2>1, <2>2 DEF Leaves, Safe
  <2>3. CASE x # p
    <3>1. Exists(x)
      BY <1>1, <2>1 DEF Exists
    <3> QED
      BY <2>1, <2>3, <3>1 DEF Leaves
  <2> QED
    BY <2>2, <2>3
<1>11. RowsLie' /\ EntriesLie'
  BY DEF Kept, RowsLie, EntriesLie, Lies, Known
<1> QED
  BY <1>3, <1>4, <1>6, <1>7, <1>8, <1>9, <1>10, <1>11 DEF Kept

\* A download lies in a file that holds no edit.
LEMMA PlaceKept ==
    ASSUME StepInv, Kept, NEW p \in Path, Safe(p), NEW c \in stored,
           p.copy # 0 => c = disk[p].content,
           disk' = [disk EXCEPT ![p] = [content |-> c, stamp |-> c]],
           UNCHANGED <<node, log, pruned, stored, written, entry, mine>>
    PROVE  /\ Kept' /\ disk'[p].content = c /\ Exists(p)'
           /\ \A r \in Path : Safe(r) => Safe(r)'
<1>1. /\ disk'[p] = [content |-> c, stamp |-> c]
      /\ \A r \in Path \ {p} : disk'[r] = disk[r]
      /\ c # 0 /\ c <= written
  BY DEF StepInv, FolderInv, Kept, Counted
<1>2. disk'[p].content = c /\ disk'[p].stamp = c /\ disk'[p] # NoFile
  BY <1>1 DEF NoFile
<1>3. Counted' /\ StampsTell'
  BY <1>1, <1>2 DEF Kept, Counted, StampsTell, Known
<1>4. \A r \in Path : Safe(r) => Safe(r)'
  BY <1>1, <1>2 DEF Safe
<1>5. Safe(p)'
  BY <1>2 DEF Safe
<1>6. Tracked'
  BY <1>4 DEF Kept, Tracked, Known
<1>7. \A q \in Path : q.copy # 0 => disk'[q].content = disk[q].content /\ (Exists(q) => Exists(q)')
  BY <1>1, <1>2 DEF Exists
<1>8. NodesSettled' /\ EntriesSettled'
  <2>1. \A n \in DOMAIN node : node[n].path \in Path
    <3>1. \A n \in DOMAIN node : node[n] \in Node
      BY DEF StepInv, ServerInv
    <3> QED
      BY <3>1 DEF Node
  <2>2. NodesSettled'
    BY <1>7, <2>1 DEF Kept, NodesSettled
  <2>3. EntriesSettled'
    BY <1>7 DEF Kept, EntriesSettled, Known
  <2> QED
    BY <2>2, <2>3
<1>9. EditsKept'
  <2> SUFFICES ASSUME NEW d \in mine, d \notin stored
               PROVE  \E r \in Path : disk'[r].content = d
    BY DEF EditsKept
  <2>1. PICK x \in Path : disk[x].content = d
    BY DEF Kept, EditsKept
  <2>2. x # p
    BY <2>1 DEF Safe
  <2> QED
    BY <1>1, <2>1, <2>2
<1>10. RowsLie' /\ EntriesLie'
  BY DEF Kept, RowsLie, EntriesLie, Lies, Known
<1> QED
  BY <1>2, <1>3, <1>4, <1>6, <1>8, <1>9, <1>10 DEF Kept, Exists

\* A statement of the state database.
LEMMA WriteKept ==
    ASSUME StepInv, Kept, NEW w \in Record, WriteFits(w), entry' = [entry EXCEPT ![w.path] = w.entry],
           UNCHANGED <<node, log, pruned, stored, written, disk, mine>>
    PROVE  Kept'
<1>1. w.path \in Path /\ entry'[w.path] = w.entry /\ \A p \in Path \ {w.path} : entry'[p] = entry[p]
  BY DEF Record, StepInv, StateInv
<1>2. Counted' /\ RowsLie' /\ NodesSettled' /\ EditsKept'
  BY DEF Kept, Counted, RowsLie, NodesSettled, EditsKept, Exists
<1>3. StampsTell' /\ EntriesLie'
  BY <1>1 DEF Kept, StampsTell, EntriesLie, WriteFits, Known, Lies
<1>4. EntriesSettled'
  BY <1>1 DEF Kept, EntriesSettled, WriteFits, Known, Exists
<1>5. Tracked'
  <2>1. ASSUME NEW p \in Path, p.copy = 0, ~Known(p)' PROVE Safe(p)
    <3>1. CASE p # w.path
      BY <1>1, <2>1, <3>1 DEF Kept, Tracked, Known
    <3>2. CASE p = w.path
      <4>1. ~Exists(p)
        BY <1>1, <2>1, <3>2 DEF Known, WriteFits
      <4> QED
        BY <4>1, FileIs DEF Safe, Kept, Counted
    <3> QED
      BY <3>1, <3>2
  <2> QED
    BY <2>1 DEF Tracked, Safe
<1> QED
  BY <1>2, <1>3, <1>4, <1>5 DEF Kept

\* While no pass runs, the user writes to a file that is tracked, or removes one.
LEMMA UserKept ==
    ASSUME Calm, StepInv, Kept, User
    PROVE  Kept' /\ pass.pc = "idle" /\ UNCHANGED <<node, stored, entry, pass>>
<1>1. PICK x \in Names : UserWrites(Named(x), written + 1) \/ UserRemoves(Named(x))
  BY DEF User, Calm
<1> DEFINE p == Named(x)
<1>2. p \in Path /\ p.copy = 0
  BY NamedIsPath DEF Named
<1>3. /\ pass.pc = "idle" /\ UNCHANGED <<node, log, pruned, stored, entry, pass>>
  BY <1>1 DEF UserWrites, UserRemoves, UserMay, Calm, LeavesServer
<1>4. \/ /\ Known(p) /\ written' = written + 1
         /\ disk' = [disk EXCEPT ![p] = [content |-> written + 1, stamp |-> written + 1]]
         /\ mine' = (mine \ {disk[p].content}) \cup {written + 1}
      \/ /\ disk' = [disk EXCEPT ![p] = NoFile] /\ mine' = mine \ {disk[p].content}
         /\ written' = written
  BY <1>1 DEF UserWrites, UserRemoves, Calm
<1> HIDE DEF p
<1>5. /\ \A r \in Path \ {p} : disk'[r] = disk[r]
      /\ \/ disk'[p] = NoFile /\ written' = written
         \/ disk'[p] = [content |-> written + 1, stamp |-> written + 1] /\ written' = written + 1
  BY <1>2, <1>4 DEF StepInv, FolderInv
<1>6. /\ written \in Nat /\ written' \in {written, written + 1}
      /\ \A r \in Path : disk[r].content \in Nat /\ disk[r].content <= written
  BY <1>5, FileIs DEF Kept, Counted
<1>7. \A c \in stored : c \in 1..written
  BY DEF Kept, Counted, StepInv, ServerInv
<1>8. \/ disk'[p].content = 0 /\ written' = written
      \/ disk'[p].content = written + 1 /\ written' = written + 1
  BY <1>5 DEF NoFile
<1>9. Counted'
  <2>1. 0 \notin mine'
    BY <1>4, <1>6 DEF Kept, Counted
  <2>2. \A r \in Path : disk'[r].content <= written'
    BY <1>2, <1>5, <1>6, <1>8
  <2> QED
    BY <1>3, <1>6, <1>7, <2>1, <2>2 DEF Kept, Counted
<1>10. StampsTell'
  BY <1>2, <1>3, <1>5 DEF Kept, StampsTell, Known, NoFile
<1>11. NodesSettled' /\ EntriesSettled'
  <2>1. \A q \in Path : q.copy # 0 => disk'[q] = disk[q]
    BY <1>2, <1>5
  <2>2. \A n \in DOMAIN node : node[n].path \in Path
    <3>1. \A n \in DOMAIN node : node[n] \in Node
      BY DEF StepInv, ServerInv
    <3> QED
      BY <3>1 DEF Node
  <2> QED
    BY <1>3, <2>1, <2>2 DEF Kept, NodesSettled, EntriesSettled, Exists, Known
<1>12. Tracked'
  <2> SUFFICES ASSUME NEW r \in Path, r.copy = 0, ~Known(r) PROVE Safe(r)'
    BY <1>3 DEF Tracked, Known
  <2>1. Safe(r)
    BY DEF Kept, Tracked
  <2>2. CASE r = p
    <3>1. disk'[p].content = 0
      BY <1>2, <1>4, <2>2 DEF StepInv, FolderInv, NoFile
    <3> QED
      BY <2>2, <3>1, <1>9 DEF Safe, Counted
  <2>3. CASE r # p
    <3>1. disk'[r] = disk[r] /\ disk[r].content # written + 1
      BY <1>5, <1>6, <2>3
    <3>2. disk[r].content \in mine' => disk[r].content \in mine
      BY <1>4, <3>1
    <3> QED
      BY <1>3, <2>1, <3>1, <3>2 DEF Safe
  <2> QED
    BY <2>2, <2>3
<1>13. EditsKept'
  <2> SUFFICES ASSUME NEW c \in mine', c \notin stored
               PROVE  \E r \in Path : disk'[r].content = c
    BY <1>3 DEF EditsKept
  <2>1. CASE c = written + 1 /\ disk'[p].content = written + 1
    BY <1>2, <2>1
  <2>2. CASE c \in mine /\ c # disk[p].content
    <3>1. PICK y \in Path : disk[y].content = c
      BY <2>2 DEF Kept, EditsKept
    <3> QED
      BY <1>5, <2>2, <3>1
  <2>3. \/ c = written + 1 /\ disk'[p].content = written + 1
        \/ c \in mine /\ c # disk[p].content
    BY <1>2, <1>4, <1>5 DEF StepInv, FolderInv
  <2> QED
    BY <2>1, <2>2, <2>3
<1>14. RowsLie' /\ EntriesLie'
  BY <1>3 DEF Kept, RowsLie, EntriesLie, Lies, Known
<1> QED
  BY <1>3, <1>9, <1>10, <1>11, <1>12, <1>13, <1>14 DEF Kept

\* ------------------------------------------------------------ the steps of a pass

LEMMA PassOnly ==
    ASSUME Kept, NEW q, Fits(q), pass' = q, LeavesFolder, entry' = entry, LeavesServer,
           UNCHANGED <<written, mine>>
    PROVE  Kept' /\ Fits(pass)'
BY FitsStill, KeptStill DEF LeavesFolder, LeavesServer

LEMMA PlainNext ==
    (pass.pc \in {"poll", "rows", "apply"} /\ CarriedFits(pass) => Fits(pass))'
<1>1. pass.pc \in {"poll", "rows", "apply"} /\ CarriedFits(pass) => Fits(pass)
  BY PlainFits
<1> QED
  BY <1>1, PTL

LEMMA RowNext ==
    (pass.pc \in {"upsert", "fetch", "place", "stat"} /\ pass.page # <<>> /\ CarriedFits(pass)
       => Fits(pass))'
<1>1. pass.pc \in {"upsert", "fetch", "place", "stat"} /\ pass.page # <<>> /\ CarriedFits(pass)
        => Fits(pass)
  BY RowFits
<1> QED
  BY <1>1, PTL

\* What a pass carries on from one place to a place that asks no more of it.
LEMMA CarriedOn ==
    ASSUME Fits(pass), pass.pc # "commit", NEW q, q.writes = pass.writes, q.page = pass.page,
           q.item = pass.item,
           q.pc \notin {"fetch", "place", "stat", "commit", "record"}
    PROVE  CarriedFits(q)
BY DEF Fits, CarriedFits, ItemFits

LEMMA EmptyCarried ==
    ASSUME NEW q, q.writes = <<>>, q.page = <<>>, q.item = {}
    PROVE  CarriedFits(q)
BY DEF CarriedFits

LEMMA BeginFits ==
    ASSUME Keeping, BeginPush \/ \E b \in BOOLEAN : BeginPull(b), UNCHANGED <<written, mine>>
    PROVE  Kept' /\ Fits(pass)'
<1>1. CASE BeginPush
  BY <1>1, WalkingFits, PassOnly DEF BeginPush, LeavesState, Keeping
<1>2. ASSUME NEW b \in BOOLEAN, BeginPull(b) PROVE Kept' /\ Fits(pass)'
  <2> DEFINE q == [Idle EXCEPT !.pc = IF \E p \in Path : Known(p) THEN "poll" ELSE "head",
                               !.thenPush = b]
  <2>1. CarriedFits(q)
    BY EmptyCarried DEF Idle
  <2>2. Fits(q)
    <3>1. CASE \E p \in Path : Known(p)
      <4>1. q.pc = "poll"
        BY <3>1 DEF Idle
      <4> HIDE DEF q
      <4> QED
        BY <2>1, <4>1, PlainFits
    <3>2. CASE ~\E p \in Path : Known(p)
      <4>1. q.pc = "head" /\ q.item = {}
        BY <3>2 DEF Idle
      <4>2. Unedited
        BY <3>2 DEF Keeping, Kept, Tracked, Unedited
      <4> HIDE DEF q
      <4> QED
        BY <2>1, <4>1, <4>2 DEF Fits, WalkFits, PushFits, Transferring
    <3> QED
      BY <3>1, <3>2
  <2>3. pass' = q
    BY <1>2, Zenon DEF BeginPull
  <2>4. LeavesFolder /\ entry' = entry /\ LeavesServer
    <3>1. LeavesFolder /\ LeavesState /\ LeavesServer
      BY <1>2, Zenon DEF BeginPull
    <3> QED
      BY <3>1 DEF LeavesState
  <2> HIDE DEF q
  <2> QED
    BY <2>2, <2>3, <2>4, PassOnly DEF Keeping
<1> QED
  BY <1>1, <1>2

\* The journal was never pruned, so that nothing resets the client.
LEMMA NoReset ==
    ASSUME StepInv, Kept
    PROVE  ~Reset(cursor)
<1>1. pruned = 0 /\ Len(log) \in Nat /\ cursor \in Nat
  BY DEF Kept, Counted, StepInv, ServerInv, StateInv
<1> QED
  BY <1>1 DEF Reset, EarliestSeq, LatestSeq

LEMMA ChangesFit ==
    ASSUME StepInv, Kept
    PROVE  \A i \in DOMAIN ChangesSince(cursor, PageLimit) :
             ChangeFits(ChangesSince(cursor, PageLimit)[i])
<1> DEFINE from == IF cursor > pruned THEN cursor ELSE pruned
           rows == IF PageLimit < Len(log) - from THEN PageLimit ELSE Len(log) - from
<1>1. from \in Nat /\ rows \in Int /\ from + rows <= Len(log) /\ Len(log) \in Nat
  <2>1. pruned \in Nat /\ Len(log) \in Nat /\ cursor \in Nat /\ PageLimit \in Nat
    BY ClientConstants DEF StepInv, ServerInv, StateInv
  <2>2. from \in Nat
    BY <2>1
  <2> HIDE DEF from
  <2> QED
    BY <2>1, <2>2
<1>2. ChangesSince(cursor, PageLimit) = [i \in 1..rows |-> ChangeOf(from + i)]
  BY DEF ChangesSince
<1> HIDE DEF from, rows
<1>3. \A i \in 1..rows : from + i \in DOMAIN log
  BY <1>1 DEF StepInv, ServerInv
<1>4. ASSUME NEW s \in DOMAIN log PROVE ChangeFits(ChangeOf(s))
  <2>1. /\ ChangeOf(s).node = log[s].node /\ ChangeOf(s).kind = log[s].kind
        /\ ChangeOf(s).now \in {{}, GetLive(log[s].node)}
    BY DEF ChangeOf
  <2>2. \A it \in GetLive(log[s].node) : Lies(it.id, it.path)
    BY DEF GetLive, Lies
  <2>3. log[s].node \in DOMAIN node /\ (log[s].kind = "delete" => node[log[s].node].path.copy = 0)
    BY DEF Kept, RowsLie
  <2> HIDE DEF ChangeFits
  <2> QED
    BY <2>1, <2>2, <2>3 DEF ChangeFits
<1> QED
  BY <1>2, <1>3, <1>4

LEMMA ReceivedFits ==
    ASSUME Keeping, On("rows"), NEW page \in Seq(Change), \A i \in DOMAIN page : ChangeFits(page[i]),
           Received(page)
    PROVE  Fits(pass')
<1>1. pass \in Pass /\ pass.writes = <<>> /\ pass.pc = "rows"
  BY PassTyped DEF Keeping, On
<1>2. /\ pass'.pc = "apply" /\ pass'.page = page /\ pass'.writes = <<>> /\ pass'.item = pass.item
  BY <1>1 DEF Received, Pass
<1>3. CarriedFits(pass')
  BY <1>1, <1>2 DEF Keeping, Fits, CarriedFits, ItemFits
<1> QED
  BY <1>2, <1>3, PlainFits

LEMMA PollFits ==
    ASSUME Keeping, LatestHead \/ PollHead \/ PollRows \/ PollRowsLost, UNCHANGED <<written, mine>>
    PROVE  Kept' /\ Fits(pass)'
<1>1. /\ pass \in Pass /\ pass.writes = <<>> /\ StepInv /\ Kept /\ Fits(pass)
      /\ LeavesFolder /\ entry' = entry /\ LeavesServer
  BY PassTyped DEF Keeping, LatestHead, PollHead, PollRows, PollRowsLost, On, LeavesState
<1>2. CASE LatestHead
  <2> DEFINE q == [pass EXCEPT !.pc = "list", !.next = LatestSeq]
  <2>1. /\ q.pc = "list" /\ q.writes = pass.writes /\ q.page = pass.page /\ q.item = pass.item
        /\ pass' = q /\ pass.pc = "head"
    BY <1>1, <1>2 DEF LatestHead, On, Pass
  <2> HIDE DEF q
  <2>2. CarriedFits(q)
    BY <1>1, <2>1, CarriedOn
  <2>3. Unedited /\ pass.item = {}
    BY <1>1, <2>1 DEF Fits, WalkFits
  <2>4. Fits(q)
    BY <2>1, <2>2, <2>3 DEF Fits, WalkFits, PushFits, Transferring
  <2> QED
    BY <1>1, <2>1, <2>4, PassOnly
<1>3. CASE PollHead
  <2> DEFINE q == [pass EXCEPT !.pc = "rows"]
  <2>1. /\ q.pc = "rows" /\ q.writes = pass.writes /\ q.page = pass.page /\ q.item = pass.item
        /\ pass' = q /\ pass.pc = "poll"
    BY <1>1, <1>3, NoReset DEF PollHead, On, Pass
  <2> HIDE DEF q
  <2>2. CarriedFits(q)
    BY <1>1, <2>1, CarriedOn
  <2> QED
    BY <1>1, <2>1, <2>2, PlainFits, PassOnly
<1>4. CASE PollRows \/ PollRowsLost
  <2> DEFINE page == ChangesSince(cursor, PageLimit)
  <2>1. page \in Seq(Change) /\ \A i \in DOMAIN page : ChangeFits(page[i])
    BY <1>1, ChangesFit, ChangesTyped, ClientConstants DEF StepInv, StateInv
  <2> HIDE DEF page
  <2>2. On("rows") /\ (Received(page) \/ \E i \in DOMAIN page : Received([page EXCEPT ![i].now = {}]))
    BY <1>4 DEF PollRows, PollRowsLost, page
  <2>3. CASE Received(page)
    BY <1>1, <2>1, <2>2, <2>3, ReceivedFits, PassOnly
  <2>4. ASSUME NEW i \in DOMAIN page, Received([page EXCEPT ![i].now = {}])
        PROVE  Kept' /\ Fits(pass)'
    <3> DEFINE lost == [page EXCEPT ![i].now = {}]
    <3>1. page \in [1..Len(page) -> Change] /\ Len(page) \in Nat /\ page[i] \in Change
      BY <2>1
    <3>2. lost = [page EXCEPT ![i] = [page[i] EXCEPT !.now = {}]]
      OBVIOUS
    <3>3. [page[i] EXCEPT !.now = {}] \in Change /\ ChangeFits([page[i] EXCEPT !.now = {}])
      BY <2>1, <3>1 DEF Change, ChangeFits
    <3> DEFINE e == [page[i] EXCEPT !.now = {}]
    <3>4. lost = [page EXCEPT ![i] = e] /\ e \in Change /\ ChangeFits(e)
      BY <3>2, <3>3
    <3> HIDE DEF e, lost
    <3>5. /\ lost \in Seq(Change) /\ DOMAIN lost = DOMAIN page
          /\ \A k \in DOMAIN page : lost[k] \in {e, page[k]}
      BY <3>1, <3>4
    <3>6. lost \in Seq(Change) /\ \A k \in DOMAIN lost : ChangeFits(lost[k])
      BY <2>1, <3>4, <3>5
    <3>7. Received(lost)
      BY <2>4 DEF lost
    <3> QED
      BY <1>1, <2>2, <3>6, <3>7, ReceivedFits, PassOnly
  <2> QED
    BY <2>2, <2>3, <2>4
<1> QED
  BY <1>2, <1>3, <1>4

LEMMA SaveFits ==
    ASSUME Keeping, SavePage \/ SaveHead, UNCHANGED <<written, mine>>
    PROVE  Kept' /\ Fits(pass)'
<1>1. /\ pass \in Pass /\ pass.writes = <<>> /\ Kept /\ Fits(pass) /\ pass.pc # "commit"
      /\ LeavesFolder /\ entry' = entry /\ LeavesServer
  BY PassTyped DEF Keeping, SavePage, SaveHead, On
<1>2. CASE pass' = Pulled
  BY <1>1, <1>2, PulledFits, PassOnly
<1>3. CASE pass' = [pass EXCEPT !.pc = "poll", !.more = FALSE, !.next = 0]
  <2> DEFINE q == [pass EXCEPT !.pc = "poll", !.more = FALSE, !.next = 0]
  <2>1. q.pc = "poll" /\ q.writes = pass.writes /\ q.page = pass.page /\ q.item = pass.item /\ pass' = q
    BY <1>1, <1>3 DEF Pass
  <2> HIDE DEF q
  <2>2. CarriedFits(q)
    BY <1>1, <2>1, CarriedOn
  <2> QED
    BY <1>1, <2>1, <2>2, PlainFits, PassOnly
<1> QED
  BY <1>2, <1>3 DEF SavePage, SaveHead

LEMMA ApplyDeleteFits ==
    ASSUME Keeping, ApplyDelete \/ SkipChange, UNCHANGED <<written, mine>>
    PROVE  Kept' /\ Fits(pass)'
<1> DEFINE ch == Head(pass.page)
<1>1. /\ pass \in Pass /\ pass.writes = <<>> /\ pass.pc = "apply" /\ pass.page # <<>>
      /\ StepInv /\ Kept /\ Fits(pass) /\ pass.page \in Seq(Change)
      /\ entry' = entry /\ LeavesServer
  BY PageHead DEF Keeping, ApplyDelete, SkipChange, On, LeavesState
<1>2. ChangeFits(ch)
  <2>1. ch = pass.page[1] /\ 1 \in DOMAIN pass.page
    BY <1>1
  <2> QED
    BY <1>1, <2>1 DEF Fits, CarriedFits
<1>3. ASSUME NEW ws \in Seq(Record)
      PROVE  /\ NextRow(ws).pc = "apply" /\ NextRow(ws).writes = ws /\ NextRow(ws).item = pass.item
             /\ \A i \in DOMAIN NextRow(ws).page : i + 1 \in DOMAIN pass.page
                                                  /\ NextRow(ws).page[i] = pass.page[i + 1]
  <2>1. NextRow(ws).page = Tail(pass.page)
    BY <1>1 DEF NextRow, Pass
  <2> QED
    BY <1>1, <2>1 DEF NextRow, Pass
<1>4. CASE pass' = NextRow(<<>>) /\ LeavesFolder
  <2> DEFINE q == NextRow(<<>>)
  <2>1. <<>> \in Seq(Record)
    OBVIOUS
  <2>2. /\ q.pc = "apply" /\ q.writes = <<>> /\ q.item = pass.item
        /\ \A i \in DOMAIN q.page : i + 1 \in DOMAIN pass.page /\ q.page[i] = pass.page[i + 1]
    BY <1>3, <2>1
  <2> HIDE DEF q
  <2>3. CarriedFits(q)
    BY <1>1, <2>2 DEF Fits, CarriedFits, ItemFits
  <2>4. Fits(q)
    BY <2>2, <2>3, PlainFits
  <2> QED
    BY <1>1, <1>4, <2>4, PassOnly DEF q
<1>5. ASSUME NEW p \in Path, ch.kind = "delete", p \in GetByNodeID(ch.node), Discard(p),
             pass' = NextRow(<<Forget(p)>>)
      PROVE  Kept' /\ Fits(pass)'
  <2>1. p.copy = 0 /\ Known(p)
    BY <1>1, <1>2, <1>5 DEF GetByNodeID, ChangeFits, Kept, EntriesLie, Lies
  <2>2. Leaves(p)
    BY <1>1, <1>5, <2>1, DiscardLeaves
  <2>3. Kept' /\ ~Exists(p)'
    BY <1>1, <2>1, <2>2, LeavesKept DEF LeavesServer
  <2> DEFINE ws == <<Forget(p)>>
  <2>4. ws \in Seq(Record) /\ DOMAIN ws = {1} /\ ws[1] = Forget(p)
    BY ForgetIsRecord
  <2> HIDE DEF ws
  <2>5. /\ pass'.pc = "apply" /\ pass'.writes = ws /\ pass'.item = pass.item
        /\ \A i \in DOMAIN pass'.page : i + 1 \in DOMAIN pass.page /\ pass'.page[i] = pass.page[i + 1]
    BY <1>3, <1>5, <2>4 DEF ws
  <2>6. (\A i \in DOMAIN pass.writes : WriteFits(pass.writes[i]))'
    BY <2>1, <2>3, <2>4, <2>5 DEF WriteFits, Forget, Put, Exists
  <2>7. (\A i \in DOMAIN pass.page : ChangeFits(pass.page[i]))'
    BY <1>1, <2>5 DEF Fits, CarriedFits, ChangeFits, Lies, LeavesServer
  <2>8. CarriedFits(pass)'
    BY <1>1, <2>5, <2>6, <2>7 DEF Fits, CarriedFits, ItemFits, Lies, LeavesServer
  <2> QED
    BY <2>3, <2>5, <2>8, PlainNext
<1> QED
  BY <1>4, <1>5 DEF ApplyDelete, SkipChange, GetByNodeID

\* No node moves, so that none is at another path than the client knows.
LEMMA ApplyUpsertFits ==
    ASSUME Keeping, ApplyUpsert, UNCHANGED <<written, mine>>
    PROVE  Kept' /\ Fits(pass)'
<1>1. /\ pass \in Pass /\ pass.writes = <<>> /\ pass.pc = "apply" /\ pass.page # <<>>
      /\ StepInv /\ Kept /\ Fits(pass) /\ pass.page \in Seq(Change)
      /\ entry' = entry /\ LeavesServer
  BY PageHead DEF Keeping, ApplyUpsert, On, LeavesState
<1>2. PICK it \in Head(pass.page).now :
         \/ \E p \in GetByNodeID(it.id) \ {it.path} : MoveLocal(p, it.path)
         \/ /\ pass' = [pass EXCEPT !.pc = "upsert", !.item = {it}]
            /\ LeavesFolder
  BY Zenon DEF ApplyUpsert
<1>3. Lies(it.id, it.path)
  <2>1. Head(pass.page) = pass.page[1] /\ 1 \in DOMAIN pass.page
    BY <1>1
  <2> QED
    BY <1>1, <2>1 DEF Fits, CarriedFits, ChangeFits
<1>4. GetByNodeID(it.id) \ {it.path} = {}
  BY <1>1, <1>3 DEF GetByNodeID, Kept, EntriesLie, Lies
<1> DEFINE q == [pass EXCEPT !.pc = "upsert", !.item = {it}]
<1>5. pass' = q /\ LeavesFolder
  BY <1>2, <1>4
<1>6. q.pc = "upsert" /\ q.writes = pass.writes /\ q.page = pass.page /\ q.item = {it}
  BY <1>1 DEF Pass
<1> HIDE DEF q
<1>7. CarriedFits(q)
  BY <1>1, <1>3, <1>6 DEF Fits, CarriedFits, ItemFits
<1>8. Fits(q)
  BY <1>1, <1>6, <1>7, RowFits
<1> QED
  BY <1>1, <1>5, <1>8, PassOnly

\* A row is dealt with, or a node of a walk.
LEMMA NextItemFits ==
    ASSUME Keeping, pass.pc \in {"upsert", "stat"}, pass.writes = <<>>,
           NEW ws \in Seq(Record), \A i \in DOMAIN ws : WriteFits(ws[i]),
           pass.pc = "stat" => \A i \in DOMAIN ws : \E it \in pass.item : ws[i].path = it.path
    PROVE  Fits(NextItem(ws))
<1> DEFINE q == NextItem(ws)
<1>1. /\ pass \in Pass /\ StepInv /\ Kept /\ Fits(pass) /\ pass.page \in Seq(Change)
  BY PassTyped DEF Keeping
<1>2. CASE pass.page = <<>>
  <2>1. pass.pc = "stat" /\ Unedited /\ ListFits(pass)
    BY <1>1, <1>2 DEF Fits, WalkFits, Transferring
  <2>2. q = [pass EXCEPT !.pc = "mat", !.page = <<>>, !.item = {}, !.got = 0, !.writes = ws]
    BY <1>2 DEF NextItem
  <2>3. /\ q.pc = "mat" /\ q.page = <<>> /\ q.item = {} /\ q.writes = ws /\ q.nodes = pass.nodes
        /\ q.seen = pass.seen
    BY <1>1, <2>2 DEF Pass
  <2> HIDE DEF q
  <2>4. CarriedFits(q)
    BY <2>3 DEF CarriedFits
  <2>5. ListFits(q)
    BY <2>1, <2>3 DEF ListFits
  <2> QED
    BY <2>1, <2>3, <2>4, <2>5, ListedFits DEF q
<1>3. CASE pass.page # <<>>
  <2>1. q = [pass EXCEPT !.pc = "apply", !.page = Tail(pass.page), !.item = {}, !.got = 0,
                         !.writes = ws]
    BY <1>3 DEF NextItem
  <2>2. q.pc = "apply" /\ q.page = Tail(pass.page) /\ q.item = {} /\ q.writes = ws
    BY <1>1, <2>1 DEF Pass
  <2>3. \A i \in DOMAIN q.page : i + 1 \in DOMAIN pass.page /\ q.page[i] = pass.page[i + 1]
    BY <1>1, <1>3, <2>2
  <2> HIDE DEF q
  <2>4. CarriedFits(q)
    BY <1>1, <2>2, <2>3 DEF Fits, CarriedFits
  <2> QED
    BY <2>2, <2>4, PlainFits DEF q
<1> QED
  BY <1>2, <1>3

LEMMA ApplyFileUpsertFits ==
    ASSUME Keeping, ApplyFileUpsert, UNCHANGED <<written, mine>>
    PROVE  Kept' /\ Fits(pass)'
<1>1. /\ pass \in Pass /\ pass.writes = <<>> /\ pass.pc = "upsert" /\ StepInv /\ Kept /\ Fits(pass)
      /\ entry' = entry /\ LeavesServer
  BY PassTyped DEF Keeping, ApplyFileUpsert, On, LeavesState
<1>2. PICK it \in pass.item :
         \/ pass' = NextItem(<<>>) /\ LeavesFolder
         \/ /\ ~Known(it.path) \/ ~Exists(it.path) \/ ~Changed(it.path)
            /\ pass' = [pass EXCEPT !.pc = "fetch"] /\ LeavesFolder
         \/ /\ Known(it.path) /\ Changed(it.path) /\ ConflictCopy(it.path)
            /\ pass' = [pass EXCEPT !.pc = "fetch", !.writes = <<Forget(it.path)>>]
  BY Zenon DEF ApplyFileUpsert
<1> DEFINE p == it.path
<1>3. p \in Path /\ Lies(it.id, p) /\ pass.page # <<>> /\ \A x \in pass.item : x = it
  BY <1>1, PassTyped DEF Fits, CarriedFits, ItemFits, WalkFits
<1>4. CASE pass' = NextItem(<<>>) /\ LeavesFolder
  <2> DEFINE ws == <<>>
  <2>1. ws \in Seq(Record) /\ DOMAIN ws = {}
    OBVIOUS
  <2>2. pass' = NextItem(ws)
    BY <1>4
  <2> HIDE DEF ws
  <2>3. Fits(NextItem(ws))
    BY <1>1, <2>1, NextItemFits
  <2> QED
    BY <1>1, <1>4, <2>2, <2>3, PassOnly
<1>5. CASE /\ ~Known(p) \/ ~Exists(p) \/ ~Changed(p)
           /\ pass' = [pass EXCEPT !.pc = "fetch"] /\ LeavesFolder
  <2> DEFINE q == [pass EXCEPT !.pc = "fetch"]
  <2>1. q.pc = "fetch" /\ q.page = pass.page /\ q.item = pass.item /\ q.writes = <<>>
    BY <1>1 DEF Pass
  <2>2. Safe(p)
    <3>1. CASE p.copy # 0
      BY <1>1, <1>3, <3>1 DEF Kept, NodesSettled, Safe, Lies, StepInv, ServerInv, NodesStored
    <3>2. CASE p.copy = 0 /\ ~Known(p)
      BY <1>1, <1>3, <3>2 DEF Kept, Tracked
    <3>3. CASE ~Exists(p)
      BY <1>1, <1>3, <3>3, FileIs DEF Safe, Kept, Counted
    <3>4. CASE Known(p) /\ ~Changed(p)
      BY <1>1, <1>3, <3>4, ChangedIs
    <3> QED
      BY <1>5, <3>1, <3>2, <3>3, <3>4
  <2> HIDE DEF q
  <2>3. CarriedFits(q)
    BY <1>1, <1>3, <2>1, <2>2 DEF Fits, CarriedFits, ItemFits
  <2>4. Fits(q)
    BY <1>3, <2>1, <2>3, RowFits
  <2> QED
    BY <1>1, <1>5, <2>4, PassOnly DEF q
<1>6. CASE /\ Known(p) /\ Changed(p) /\ ConflictCopy(p)
           /\ pass' = [pass EXCEPT !.pc = "fetch", !.writes = <<Forget(p)>>]
  <2>1. p.copy = 0
    BY <1>1, <1>3, <1>6, ChangedIs
  <2>2. Leaves(p)
    BY <1>1, <1>3, <1>6, ConflictCopyLeaves
  <2>3. Kept' /\ ~Exists(p)' /\ Safe(p)'
    BY <1>1, <1>3, <2>1, <2>2, LeavesKept DEF LeavesServer
  <2> DEFINE ws == <<Forget(p)>>
  <2>4. DOMAIN ws = {1} /\ ws[1] = Forget(p)
    OBVIOUS
  <2>5. pass'.pc = "fetch" /\ pass'.page = pass.page /\ pass'.item = pass.item /\ pass'.writes = ws
    BY <1>1, <1>6 DEF Pass
  <2> HIDE DEF ws
  <2>6. (\A i \in DOMAIN pass.writes : WriteFits(pass.writes[i]))'
    BY <2>1, <2>3, <2>4, <2>5 DEF WriteFits, Forget, Put, Exists
  <2>7. (\A i \in DOMAIN pass.page : ChangeFits(pass.page[i]))'
    BY <1>1, <2>5 DEF Fits, CarriedFits, ChangeFits, Lies, LeavesServer
  <2>8. (\A x \in pass.item : ItemFits(pass, x))'
    BY <1>1, <1>3, <2>3, <2>5 DEF ItemFits, Lies, LeavesServer, Safe
  <2>9. CarriedFits(pass)'
    BY <1>3, <2>5, <2>6, <2>7, <2>8 DEF CarriedFits
  <2> QED
    BY <1>3, <2>3, <2>5, <2>9, RowNext
<1> QED
  BY <1>2, <1>4, <1>5, <1>6


\* From one step of a transfer to the next.
LEMMA TransferFits ==
    ASSUME Fits(pass), Transferring(pass), NEW q, Transferring(q), q.writes = <<>>,
           q.page = pass.page, q.item = pass.item, q.nodes = pass.nodes, q.seen = pass.seen,
           \A it \in q.item : ItemFits(q, it)
    PROVE  Fits(q)
<1>1. CarriedFits(q)
  BY DEF Fits, CarriedFits
<1>2. CASE q.page # <<>>
  BY <1>1, <1>2, RowFits DEF Transferring
<1>3. CASE q.page = <<>>
  <2>1. Unedited /\ ListFits(pass)
    BY <1>3 DEF Fits, WalkFits
  <2>2. ListFits(q)
    BY <2>1 DEF ListFits
  <2> QED
    BY <1>1, <2>1, <2>2, ListedFits DEF Transferring
<1> QED
  BY <1>2, <1>3

\* The node of a conflict copy holds what lies there.
LEMMA CopyIs ==
    ASSUME StepInv, Kept, NEW n \in DOMAIN node, node[n].path.copy # 0
    PROVE  /\ node[n].content = disk[node[n].path].content
           /\ Safe(node[n].path)
BY DEF Kept, NodesSettled, Safe, StepInv, ServerInv, NodesStored

LEMMA FetchFits ==
    ASSUME Keeping, Fetch, UNCHANGED <<written, mine>>
    PROVE  Kept' /\ Fits(pass)'
<1>1. /\ pass \in Pass /\ pass.writes = <<>> /\ pass.pc = "fetch" /\ StepInv /\ Kept /\ Fits(pass)
      /\ entry' = entry /\ LeavesServer /\ LeavesFolder
  BY PassTyped DEF Keeping, Fetch, On, LeavesState
<1>2. PICK it \in pass.item :
         \/ pass' = Idle
         \/ it.id \in DOMAIN node /\ pass' = [pass EXCEPT !.pc = "place", !.got = node[it.id].content]
  BY Zenon DEF Fetch
<1>3. Lies(it.id, it.path) /\ Safe(it.path) /\ \A x \in pass.item : x = it
  BY <1>1 DEF Fits, CarriedFits, ItemFits
<1>4. CASE pass' = Idle
  BY <1>1, <1>4, IdleFits, PassOnly
<1>5. CASE pass' = [pass EXCEPT !.pc = "place", !.got = node[it.id].content]
  <2> DEFINE q == [pass EXCEPT !.pc = "place", !.got = node[it.id].content]
  <2>1. /\ q.pc = "place" /\ q.got = node[it.id].content /\ q.writes = <<>> /\ q.page = pass.page
        /\ q.item = pass.item /\ q.nodes = pass.nodes /\ q.seen = pass.seen
    BY <1>1 DEF Pass
  <2>2. pass' = q
    BY <1>5
  <2> HIDE DEF q
  <2>3. it.path.copy # 0 => node[it.id].content = disk[it.path].content
    BY <1>1, <1>3, CopyIs DEF Lies
  <2>4. \A x \in q.item : ItemFits(q, x)
    BY <1>3, <2>1, <2>3 DEF ItemFits
  <2>5. Fits(q)
    BY <1>1, <2>1, <2>4, TransferFits DEF Transferring
  <2> QED
    BY <1>1, <2>2, <2>5, PassOnly
<1> QED
  BY <1>2, <1>4, <1>5

LEMMA TransferNext ==
    (Transferring(pass) /\ CarriedFits(pass) /\ (pass.page = <<>> => ListFits(pass) /\ Unedited)
       => Fits(pass))'
<1>1. Transferring(pass) /\ CarriedFits(pass) /\ (pass.page = <<>> => ListFits(pass) /\ Unedited)
        => Fits(pass)
  BY RowFits, ListedFits DEF Transferring
<1> QED
  BY <1>1, PTL

LEMMA PlaceFits ==
    ASSUME Keeping, Place, UNCHANGED <<written, mine>>
    PROVE  Kept' /\ Fits(pass)'
<1>1. /\ pass \in Pass /\ pass.writes = <<>> /\ pass.pc = "place" /\ StepInv /\ Kept /\ Fits(pass)
      /\ entry' = entry /\ LeavesServer /\ pass' = [pass EXCEPT !.pc = "stat"]
  BY PassTyped DEF Keeping, Place, On, LeavesState
<1>2. PICK it \in pass.item :
         disk' = [disk EXCEPT ![it.path] = [content |-> pass.got, stamp |-> pass.got]]
  BY DEF Place
<1> DEFINE p == it.path
<1>3. /\ p \in Path /\ Lies(it.id, p) /\ Safe(p) /\ (p.copy # 0 => pass.got = disk[p].content)
      /\ \A x \in pass.item : x = it
  BY <1>1, PassTyped DEF Fits, CarriedFits, ItemFits
<1>4. pass.got \in stored
  BY <1>1 DEF StepInv, PassInv, TransferStored
<1>5. Kept' /\ disk'[p].content = pass.got /\ Exists(p)' /\ \A r \in Path : Safe(r) => Safe(r)'
  BY <1>1, <1>2, <1>3, <1>4, PlaceKept DEF LeavesServer
<1>6. /\ pass'.pc = "stat" /\ pass'.got = pass.got /\ pass'.writes = <<>> /\ pass'.page = pass.page
      /\ pass'.item = pass.item /\ pass'.nodes = pass.nodes /\ pass'.seen = pass.seen
  BY <1>1 DEF Pass
<1>7. (\A i \in DOMAIN pass.page : ChangeFits(pass.page[i]))'
  BY <1>1, <1>6 DEF Fits, CarriedFits, ChangeFits, Lies, LeavesServer
<1>8. (\A x \in pass.item : ItemFits(pass, x))'
  BY <1>1, <1>3, <1>5, <1>6 DEF ItemFits, Lies, LeavesServer
<1>9. CarriedFits(pass)'
  BY <1>3, <1>6, <1>7, <1>8 DEF CarriedFits
<1>10. (pass.page = <<>> => ListFits(pass) /\ Unedited)'
  <2> SUFFICES ASSUME pass.page = <<>> PROVE ListFits(pass)' /\ Unedited'
    BY <1>6
  <2>1. ListFits(pass) /\ Unedited
    BY <1>1 DEF Fits, WalkFits, Transferring
  <2>2. ListFits(pass)'
    BY <1>1, <1>6, <2>1 DEF ListFits, Known, Lies, LeavesServer
  <2> QED
    BY <1>5, <2>1, <2>2 DEF Unedited
<1>11. Transferring(pass)'
  BY <1>6 DEF Transferring
<1> QED
  BY <1>5, <1>9, <1>10, <1>11, TransferNext

\* What is put on record lies there.
LEMMA RecordFits ==
    ASSUME Keeping, pass.pc \in {"stat", "record"}, NEW it \in pass.item
    PROVE  /\ <<RecordOf(it)>> \in Seq(Record) /\ WriteFits(RecordOf(it))
           /\ RecordOf(it).path = it.path
<1> DEFINE p == it.path
           e == [node |-> it.id, stamp |-> disk[p].stamp, hash |-> pass.got, remote |-> it.content]
<1>1. /\ StepInv /\ Kept /\ p \in Path /\ it \in Item
      /\ Lies(it.id, p) /\ Exists(p) /\ pass.got = disk[p].content
  BY PassTyped DEF Keeping, Fits, CarriedFits, ItemFits
<1>2. it.id # 0
  BY <1>1 DEF Lies, StepInv, ServerInv
<1>3. e \in Entry
  BY <1>1, PassTyped DEF Entry, StepInv, FolderInv, File
<1>4. RecordOf(it) = Put(p, e)
  BY DEF RecordOf
<1>5. e # NoEntry /\ e.node = it.id /\ e.stamp = disk[p].stamp /\ e.hash = pass.got
  BY <1>2 DEF NoEntry
<1>6. disk[p].stamp = disk[p].content
  BY <1>1 DEF Kept, StampsTell
<1> HIDE DEF e
<1>7. Put(p, e).path = p /\ Put(p, e).entry = e
  BY DEF Put
<1> QED
  BY <1>1, <1>3, <1>4, <1>5, <1>6, <1>7, PutIsRecord DEF WriteFits

LEMMA StatPlacedFits ==
    ASSUME Keeping, StatPlaced, UNCHANGED <<written, mine>>
    PROVE  Kept' /\ Fits(pass)'
<1>1. /\ pass \in Pass /\ pass.writes = <<>> /\ pass.pc = "stat" /\ StepInv /\ Kept /\ Fits(pass)
      /\ entry' = entry /\ LeavesServer /\ LeavesFolder
  BY PassTyped DEF Keeping, StatPlaced, On, LeavesState
<1>2. PICK it \in pass.item : pass' \in {Idle, NextItem(<<RecordOf(it)>>)}
  BY DEF StatPlaced
<1>3. CASE pass' = Idle
  BY <1>1, <1>3, IdleFits, PassOnly
<1>4. CASE pass' = NextItem(<<RecordOf(it)>>)
  <2> DEFINE ws == <<RecordOf(it)>>
  <2>1. /\ ws \in Seq(Record) /\ DOMAIN ws = {1}
        /\ \A i \in DOMAIN ws : WriteFits(ws[i]) /\ ws[i].path = it.path
    BY <1>1, RecordFits
  <2>2. pass' = NextItem(ws)
    BY <1>4
  <2> HIDE DEF ws
  <2>3. Fits(NextItem(ws))
    BY <1>1, <2>1, NextItemFits
  <2> QED
    BY <1>1, <2>2, <2>3, PassOnly
<1> QED
  BY <1>2, <1>3, <1>4

\* ------------------------------------------------------------ the walks

\* The whole tree is listed: an entry of a conflict copy is of a node that is live.
LEMMA ListChildrenFits ==
    ASSUME Keeping, ListChildren, UNCHANGED <<written, mine>>
    PROVE  Kept' /\ Fits(pass)'
<1> DEFINE live == UNION {GetLive(n) : n \in DOMAIN node}
           ps == {it.path : it \in live}
           q == [pass EXCEPT !.pc = "mat", !.nodes = live, !.seen = ps]
<1>1. /\ pass \in Pass /\ pass.writes = <<>> /\ pass.pc = "list" /\ StepInv /\ Kept /\ Fits(pass)
      /\ entry' = entry /\ LeavesServer /\ LeavesFolder
  BY PassTyped DEF Keeping, ListChildren, On, LeavesState
<1>2. pass' = q
  BY Zenon DEF ListChildren
<1>3. \A it \in live : Lies(it.id, it.path) /\ it.path \in ps
  BY DEF GetLive, Lies
<1>4. ASSUME NEW p \in Path, p.copy # 0, Known(p) PROVE p \in ps
  <2>1. Lies(entry[p].node, p)
    BY <1>1, <1>4 DEF Kept, EntriesLie
  <2> DEFINE n == entry[p].node
             it == [id |-> n, path |-> node[n].path, content |-> node[n].content]
  <2>2. n \in DOMAIN node /\ node[n].live /\ node[n].path = p
    BY <1>1, <1>4, <2>1 DEF Kept, NodesSettled, Lies
  <2>3. it \in GetLive(n) /\ it.path = p
    BY <2>2 DEF GetLive
  <2> HIDE DEF it
  <2>4. it \in live
    BY <2>2, <2>3
  <2> QED
    BY <2>3, <2>4
<1> HIDE DEF live, ps
<1>5. /\ q.pc = "mat" /\ q.nodes = live /\ q.seen = ps /\ q.writes = pass.writes /\ q.page = pass.page
      /\ q.item = pass.item
  BY <1>1 DEF Pass
<1> HIDE DEF q
<1>6. Unedited /\ pass.item = {}
  BY <1>1 DEF Fits, WalkFits
<1>7. CarriedFits(q)
  BY <1>1, <1>5, CarriedOn
<1>8. ListFits(q)
  BY <1>1, <1>3, <1>4, <1>5, <1>6 DEF ListFits
<1>9. Fits(q)
  BY <1>5, <1>6, <1>7, <1>8, ListedFits
<1> QED
  BY <1>1, <1>2, <1>9, PassOnly

LEMMA MaterializeFits ==
    ASSUME Keeping, MaterializeFile, UNCHANGED <<written, mine>>
    PROVE  Kept' /\ Fits(pass)'
<1>1. /\ pass \in Pass /\ pass.writes = <<>> /\ pass.pc = "mat" /\ StepInv /\ Kept /\ Fits(pass)
      /\ entry' = entry /\ LeavesServer /\ LeavesFolder
  BY PassTyped DEF Keeping, MaterializeFile, On, LeavesState
<1>2. PICK it \in pass.nodes :
          \/ pass' = [pass EXCEPT !.nodes = @ \ {it}]
          \/ pass' = [[pass EXCEPT !.nodes = @ \ {it}] EXCEPT !.pc = "fetch", !.item = {it}]
  BY Zenon DEF MaterializeFile
<1>3. Unedited /\ ListFits(pass) /\ it.path \in Path
  BY <1>1, PassTyped DEF Fits, WalkFits
<1>4. Lies(it.id, it.path) /\ it.path \in pass.seen
  BY <1>3 DEF ListFits
<1>5. Safe(it.path)
  BY <1>1, <1>3, <1>4, CopyIs DEF Unedited, Lies
<1> DEFINE q == pass'
<1>6. /\ q.writes = <<>> /\ q.page = pass.page /\ q.seen = pass.seen /\ q.nodes \subseteq pass.nodes
      /\ \/ q.pc = "mat" /\ q.item = pass.item
         \/ q.pc = "fetch" /\ q.item = {it}
  <2> DEFINE rest == [pass EXCEPT !.nodes = @ \ {it}]
  <2>1. /\ rest.writes = <<>> /\ rest.page = pass.page /\ rest.seen = pass.seen
        /\ rest.nodes \subseteq pass.nodes /\ rest.pc = "mat" /\ rest.item = pass.item
        /\ rest \in Pass
    BY <1>1 DEF Pass
  <2>2. q = rest \/ q = [rest EXCEPT !.pc = "fetch", !.item = {it}]
    BY <1>2
  <2> HIDE DEF q, rest
  <2> QED
    BY <2>1, <2>2 DEF Pass
<1> HIDE DEF q
<1>7. CarriedFits(q)
  BY <1>1, <1>4, <1>5, <1>6 DEF Fits, CarriedFits, ItemFits
<1>8. ListFits(q)
  BY <1>1, <1>3, <1>4, <1>6 DEF ListFits
<1>9. Fits(q)
  BY <1>3, <1>6, <1>7, <1>8, ListedFits
<1> QED
  BY <1>1, <1>9, PassOnly DEF q

\* The lists that a walk makes: the entries it has not seen, the folder.
LEMMA ListsFit ==
    ASSUME Keeping, ListEntries \/ Walk \/ ListGone \/ PushEnds, UNCHANGED <<written, mine>>
    PROVE  Kept' /\ Fits(pass)'
<1>1. /\ pass \in Pass /\ pass.writes = <<>> /\ StepInv /\ Kept /\ Fits(pass)
      /\ entry' = entry /\ LeavesServer /\ LeavesFolder
  BY PassTyped DEF Keeping, ListEntries, Walk, ListGone, PushEnds, On, LeavesState
<1> DEFINE ps == {p \in Path : Known(p) /\ p \notin pass.seen}
<1>2. CASE ListEntries
  <2> DEFINE q == [pass EXCEPT !.pc = "vanish", !.paths = ps]
  <2>1. pass' = q /\ pass.pc = "mat"
    BY <1>2, Zenon DEF ListEntries, On
  <2>2. Unedited /\ \A p \in ps : p.copy = 0
    BY <1>1, <2>1 DEF Fits, WalkFits, ListFits
  <2> HIDE DEF ps
  <2>3. /\ q.pc = "vanish" /\ q.paths = ps /\ q.writes = pass.writes /\ q.page = pass.page
        /\ q.item = pass.item
    BY <1>1 DEF Pass
  <2> HIDE DEF q
  <2>4. CarriedFits(q)
    BY <1>1, <2>1, <2>3, CarriedOn
  <2>5. Fits(q)
    BY <2>2, <2>3, <2>4 DEF Fits, WalkFits, PushFits, Transferring
  <2> QED
    BY <1>1, <2>1, <2>5, PassOnly
<1>3. CASE Walk
  <2> DEFINE es == {p \in Path : Exists(p)}
             q == [pass EXCEPT !.pc = "push", !.paths = es, !.seen = es]
  <2>1. pass' = q /\ pass.pc = "walk"
    BY <1>3, Zenon DEF Walk, On
  <2>2. \A p \in Path : Exists(p) => p \in es
    OBVIOUS
  <2> HIDE DEF es
  <2>3. /\ q.pc = "push" /\ q.seen = es /\ q.writes = pass.writes /\ q.page = pass.page
        /\ q.item = pass.item
    BY <1>1 DEF Pass
  <2> HIDE DEF q
  <2>4. CarriedFits(q)
    BY <1>1, <2>1, <2>3, CarriedOn
  <2>5. Fits(q)
    BY <2>2, <2>3, <2>4 DEF Fits, WalkFits, PushFits, Transferring
  <2> QED
    BY <1>1, <2>1, <2>5, PassOnly
<1>4. CASE ListGone
  <2> DEFINE q == [pass EXCEPT !.pc = "trash", !.paths = ps]
  <2>1. pass' = q /\ pass.pc = "push"
    BY <1>4, Zenon DEF ListGone, On
  <2>2. \A p \in Path : Exists(p) => p \in pass.seen
    BY <1>1, <2>1 DEF Fits, PushFits
  <2>3. \A p \in ps : p.copy = 0 /\ ~Exists(p)
    BY <1>1, <2>2 DEF Kept, EntriesSettled
  <2> HIDE DEF ps
  <2>4. /\ q.pc = "trash" /\ q.paths = ps /\ q.seen = pass.seen /\ q.writes = pass.writes
        /\ q.page = pass.page /\ q.item = pass.item
    BY <1>1 DEF Pass
  <2> HIDE DEF q
  <2>5. CarriedFits(q)
    BY <1>1, <2>1, <2>4, CarriedOn
  <2>6. Fits(q)
    BY <2>2, <2>3, <2>4, <2>5 DEF Fits, WalkFits, PushFits, Transferring
  <2> QED
    BY <1>1, <2>1, <2>6, PassOnly
<1>5. CASE PushEnds
  BY <1>1, <1>5, IdleFits, PassOnly DEF PushEnds
<1> QED
  BY <1>2, <1>3, <1>4, <1>5

LEMMA VanishNext ==
    (pass.pc = "vanish" /\ CarriedFits(pass) /\ Unedited /\ (\A p \in pass.paths : p.copy = 0)
       => Fits(pass))'
<1>1. pass.pc = "vanish" /\ CarriedFits(pass) /\ Unedited /\ (\A p \in pass.paths : p.copy = 0)
        => Fits(pass)
  BY DEF Fits, WalkFits, PushFits, Transferring
<1> QED
  BY <1>1, PTL

LEMMA RemoveVanishedFits ==
    ASSUME Keeping, RemoveVanished, UNCHANGED <<written, mine>>
    PROVE  Kept' /\ Fits(pass)'
<1>1. /\ pass \in Pass /\ pass.writes = <<>> /\ pass.pc = "vanish" /\ StepInv /\ Kept /\ Fits(pass)
      /\ entry' = entry /\ LeavesServer
  BY PassTyped DEF Keeping, RemoveVanished, On, LeavesState
<1>2. PICK p \in pass.paths :
         /\ Discard(p)
         /\ pass' = [pass EXCEPT !.paths = @ \ {p}, !.writes = <<Forget(p)>>]
  BY Zenon DEF RemoveVanished
<1>3. p \in Path /\ Unedited /\ \A r \in pass.paths : r.copy = 0
  BY <1>1, PassTyped DEF Fits, WalkFits
<1>4. Leaves(p)
  BY <1>1, <1>2, <1>3, DiscardLeaves DEF Unedited
<1>5. Kept' /\ ~Exists(p)' /\ \A r \in Path : r.copy = 0 /\ Safe(r) => Safe(r)'
  BY <1>1, <1>3, <1>4, LeavesKept DEF LeavesServer
<1> DEFINE ws == <<Forget(p)>>
<1>6. DOMAIN ws = {1} /\ ws[1] = Forget(p)
  OBVIOUS
<1>7. /\ pass'.pc = "vanish" /\ pass'.page = pass.page /\ pass'.item = pass.item /\ pass'.writes = ws
      /\ pass'.paths \subseteq pass.paths
  BY <1>1, <1>2 DEF Pass
<1> HIDE DEF ws
<1>8. (\A i \in DOMAIN pass.writes : WriteFits(pass.writes[i]))'
  BY <1>3, <1>5, <1>6, <1>7 DEF WriteFits, Forget, Put, Exists
<1>9. (\A i \in DOMAIN pass.page : ChangeFits(pass.page[i]))'
  BY <1>1, <1>7 DEF Fits, CarriedFits, ChangeFits, Lies, LeavesServer
<1>10. CarriedFits(pass)'
  BY <1>1, <1>7, <1>8, <1>9 DEF Fits, CarriedFits, ItemFits, Lies, LeavesServer
<1>11. Unedited' /\ (\A r \in pass.paths : r.copy = 0)'
  BY <1>3, <1>5, <1>7 DEF Unedited
<1> QED
  BY <1>5, <1>7, <1>10, <1>11, VanishNext

\* ------------------------------------------------------------ the push

LEMMA PushFileFits ==
    ASSUME Keeping, PushFile, UNCHANGED <<written, mine>>
    PROVE  Kept' /\ Fits(pass)'
<1>1. /\ pass \in Pass /\ pass.writes = <<>> /\ pass.pc = "push" /\ StepInv /\ Kept /\ Fits(pass)
      /\ entry' = entry /\ LeavesServer /\ LeavesFolder
  BY PassTyped DEF Keeping, PushFile, On, LeavesState
<1>2. PICK p \in pass.paths :
        LET rest == [pass EXCEPT !.paths = @ \ {p}] IN
        \/ pass' = rest
        \/ pass' = Idle
        \/ /\ Exists(p)
           /\ pass' = [rest EXCEPT !.pc = "commit", !.got = disk[p].content,
                                   !.item = {[id |-> 0, path |-> p, content |-> 0]}]
  BY Zenon DEF PushFile
<1> DEFINE rest == [pass EXCEPT !.paths = @ \ {p}]
           it == [id |-> 0, path |-> p, content |-> 0]
<1>3. /\ rest.writes = <<>> /\ rest.page = pass.page /\ rest.seen = pass.seen
      /\ rest.pc = "push" /\ rest.item = pass.item /\ rest \in Pass
  BY <1>1 DEF Pass
<1>4. \A r \in Path : Exists(r) => r \in pass.seen
  BY <1>1 DEF Fits, PushFits
<1> HIDE DEF rest
<1>5. CASE pass' = Idle
  BY <1>1, <1>5, IdleFits, PassOnly
<1>6. CASE pass' = rest
  <2>1. CarriedFits(rest)
    BY <1>1, <1>3, CarriedOn
  <2>2. Fits(rest)
    BY <1>3, <1>4, <2>1 DEF Fits, WalkFits, PushFits, Transferring
  <2> QED
    BY <1>1, <1>6, <2>2, PassOnly
<1>7. CASE Exists(p) /\ pass' = [rest EXCEPT !.pc = "commit", !.got = disk[p].content, !.item = {it}]
  <2> DEFINE q == pass'
  <2>1. it.path = p
    OBVIOUS
  <2> HIDE DEF it
  <2>2. /\ q.pc = "commit" /\ q.got = disk[p].content /\ q.item = {it} /\ q.writes = <<>>
        /\ q.page = pass.page /\ q.seen = pass.seen
    BY <1>3, <1>7 DEF Pass
  <2> HIDE DEF q
  <2>3. CarriedFits(q)
    BY <1>1, <1>7, <2>1, <2>2 DEF Fits, CarriedFits, ItemFits
  <2>4. Fits(q)
    BY <1>4, <2>2, <2>3 DEF Fits, WalkFits, PushFits, Transferring
  <2> QED
    BY <1>1, <2>4, PassOnly DEF q
<1> QED
  BY <1>2, <1>5, <1>6, <1>7 DEF rest

LEMMA PushNext ==
    (pass.pc \in {"push", "record"} /\ CarriedFits(pass) /\ (\A p \in Path : Exists(p) => p \in pass.seen)
       => Fits(pass))'
<1>1. pass.pc \in {"push", "record"} /\ CarriedFits(pass) /\ (\A p \in Path : Exists(p) => p \in pass.seen)
        => Fits(pass)
  BY DEF Fits, WalkFits, PushFits, Transferring
<1> QED
  BY <1>1, PTL

LEMMA CommitFits ==
    ASSUME Keeping, Commit, UNCHANGED <<written, mine>>
    PROVE  Kept' /\ Fits(pass)'
<1>1. PICK it \in pass.item :
       LET ids == IF At(it.path) = {} THEN {Len(node) + 1} ELSE At(it.path) IN
       /\ PutFile(it.path, pass.got)
       /\ pass' = [pass EXCEPT !.pc = "record",
                     !.item = {[id |-> n, path |-> it.path, content |-> pass.got] : n \in ids}]
  BY Zenon DEF Commit
<1> DEFINE p == it.path
           ids == IF At(p) = {} THEN {Len(node) + 1} ELSE At(p)
           items == {[id |-> n, path |-> p, content |-> pass.got] : n \in ids}
<1>2. /\ pass \in Pass /\ pass.writes = <<>> /\ pass.pc = "commit" /\ StepInv /\ Kept /\ Fits(pass)
      /\ p \in Path /\ UNCHANGED <<disk, entry>>
  BY PassTyped DEF Keeping, Commit, On, LeavesState, LeavesFolder
<1>3. Exists(p) /\ pass.got = disk[p].content
  BY <1>2 DEF Fits, CarriedFits, ItemFits
<1>4. pass.got \in Nat \ {0} /\ pass.got <= written' /\ written' \in Nat /\ written <= written'
  <2>1. disk[p].content \in Nat \ {0} /\ disk[p].content <= written
    BY <1>2, <1>3, FileIs
  <2> QED
    BY <1>2, <1>3, <2>1 DEF Kept, Counted
<1>5. /\ ServerMoves
      /\ IF At(p) = {} THEN Len(node) + 1 \in DOMAIN node' /\ node'[Len(node) + 1].path = p
         ELSE \A n \in At(p) : n \in DOMAIN node' /\ node'[n].path = p
  BY <1>1, <1>2, <1>3, <1>4, PutMoves
<1>6. Kept'
  BY <1>2, <1>5, ServerMovesKept
<1>7. \A a, b \in ids : a = b
  BY <1>2 DEF At, StepInv, ServerInv
<1>8. \A n \in ids : Lies(n, p)'
  BY <1>5 DEF Lies
<1> HIDE DEF ids
<1>9. \A x \in items : \E n \in ids : x = [id |-> n, path |-> p, content |-> pass.got]
  OBVIOUS
<1>10. (\A x \in items : x.path = p /\ Lies(x.id, x.path)') /\ \A a, b \in items : a = b
  BY <1>7, <1>8, <1>9 DEF Lies
<1>11. pass' = [pass EXCEPT !.pc = "record", !.item = items]
  BY <1>1 DEF ids
<1> HIDE DEF items
<1>12. /\ pass'.pc = "record" /\ pass'.item = items /\ pass'.writes = <<>> /\ pass'.got = pass.got
       /\ pass'.page = pass.page /\ pass'.seen = pass.seen
  BY <1>2, <1>11 DEF Pass
<1>13. (\A x \in pass.item : ItemFits(pass, x))'
  BY <1>2, <1>3, <1>10, <1>12 DEF ItemFits, Lies, Exists
<1>14. (\A i \in DOMAIN pass.page : ChangeFits(pass.page[i]))'
  BY <1>2, <1>5, <1>12 DEF Fits, CarriedFits, ChangeFits, Lies, ServerMoves
<1>15. CarriedFits(pass)'
  BY <1>10, <1>12, <1>13, <1>14 DEF CarriedFits
<1>16. (\A r \in Path : Exists(r) => r \in pass.seen)'
  BY <1>2, <1>12 DEF Fits, PushFits, Exists
<1> QED
  BY <1>6, <1>12, <1>15, <1>16, PushNext

LEMMA StatPushedFits ==
    ASSUME Keeping, StatPushed, UNCHANGED <<written, mine>>
    PROVE  Kept' /\ Fits(pass)'
<1>1. /\ pass \in Pass /\ pass.writes = <<>> /\ pass.pc = "record" /\ StepInv /\ Kept /\ Fits(pass)
      /\ entry' = entry /\ LeavesServer /\ LeavesFolder
  BY PassTyped DEF Keeping, StatPushed, On, LeavesState
<1>2. PICK it \in pass.item :
         pass' \in {Idle, [pass EXCEPT !.pc = "push", !.item = {}, !.got = 0,
                                       !.writes = <<RecordOf(it)>>]}
  BY Zenon DEF StatPushed
<1>3. CASE pass' = Idle
  BY <1>1, <1>3, IdleFits, PassOnly
<1>4. CASE pass' = [pass EXCEPT !.pc = "push", !.item = {}, !.got = 0, !.writes = <<RecordOf(it)>>]
  <2> DEFINE ws == <<RecordOf(it)>>
             q == pass'
  <2>1. \A i \in DOMAIN ws : WriteFits(ws[i])
    BY <1>1, RecordFits
  <2> HIDE DEF ws
  <2>2. q.pc = "push" /\ q.item = {} /\ q.writes = ws /\ q.page = pass.page /\ q.seen = pass.seen
    BY <1>1, <1>4 DEF Pass, ws
  <2> HIDE DEF q
  <2>3. CarriedFits(q)
    BY <1>1, <2>1, <2>2 DEF Fits, CarriedFits
  <2>4. Fits(q)
    BY <1>1, <2>2, <2>3 DEF Fits, WalkFits, PushFits, Transferring
  <2> QED
    BY <1>1, <2>4, PassOnly DEF q
<1> QED
  BY <1>2, <1>3, <1>4

\* A file that is gone is no conflict copy, and neither is its node.
LEMMA PushDeletionFits ==
    ASSUME Keeping, PushDeletion, UNCHANGED <<written, mine>>
    PROVE  Kept' /\ Fits(pass)'
<1>1. /\ pass \in Pass /\ pass.writes = <<>> /\ pass.pc = "trash" /\ StepInv /\ Kept /\ Fits(pass)
      /\ UNCHANGED <<disk, entry>>
  BY PassTyped DEF Keeping, PushDeletion, On, LeavesState, LeavesFolder
<1>2. PICK p \in pass.paths :
         /\ \/ entry[p].node \in DOMAIN node /\ Trash(entry[p].node)
            \/ LeavesServer
         /\ pass' = [pass EXCEPT !.paths = @ \ {p}, !.writes = <<Forget(p)>>]
  BY Zenon DEF PushDeletion
<1>3. p \in Path /\ p.copy = 0 /\ ~Exists(p)
  BY <1>1, PassTyped DEF Fits, PushFits
<1> DEFINE ws == <<Forget(p)>>
           q == pass'
<1>4. DOMAIN ws = {1} /\ ws[1] = Forget(p)
  OBVIOUS
<1> HIDE DEF ws
<1>5. /\ q.pc = "trash" /\ q.writes = ws /\ q.page = pass.page /\ q.item = pass.item
      /\ q.seen = pass.seen /\ q.paths \subseteq pass.paths
  BY <1>1, <1>2 DEF Pass, ws
<1> HIDE DEF q
<1>6. \A i \in DOMAIN q.writes : WriteFits(q.writes[i])
  BY <1>3, <1>4, <1>5 DEF WriteFits, Forget, Put
<1>7. CarriedFits(q)
  BY <1>1, <1>5, <1>6 DEF Fits, CarriedFits, ItemFits
<1>8. Fits(q)
  BY <1>1, <1>5, <1>7 DEF Fits, WalkFits, PushFits, Transferring
<1>9. CASE entry[p].node \in DOMAIN node /\ Trash(entry[p].node)
  <2>1. Known(p)
    BY <1>1, <1>9 DEF Known, NoEntry, StepInv, ServerInv
  <2>2. node[entry[p].node].path.copy = 0
    BY <1>1, <1>3, <2>1 DEF Kept, EntriesLie, Lies
  <2>3. ServerMoves
    BY <1>1, <1>9, <2>2, TrashMoves
  <2> QED
    BY <1>1, <1>8, <2>3, ServerMovesKept, ServerMovesFits DEF q
<1>10. CASE LeavesServer
  BY <1>1, <1>8, <1>10, PassOnly DEF q, LeavesFolder
<1> QED
  BY <1>2, <1>9, <1>10

LEMMA StateWriteFits ==
    ASSUME Keeping, StateWrite, UNCHANGED <<written, mine>>
    PROVE  Kept' /\ Fits(pass)'
<1> DEFINE w == Head(pass.writes)
<1>1. /\ pass \in Pass /\ pass.writes # <<>> /\ pass.writes \in Seq(Record)
      /\ StepInv /\ Kept /\ Fits(pass)
      /\ entry' = [entry EXCEPT ![w.path] = w.entry] /\ pass' = [pass EXCEPT !.writes = Tail(@)]
      /\ UNCHANGED <<node, log, pruned, stored, disk>>
  BY PassTyped DEF Keeping, StateWrite, LeavesFolder, LeavesServer, Pass
<1>2. w \in Record /\ w = pass.writes[1] /\ 1 \in DOMAIN pass.writes
  BY <1>1
<1>3. WriteFits(w)
  BY <1>1, <1>2 DEF Fits, CarriedFits
<1> HIDE DEF w
<1>4. Kept'
  BY <1>1, <1>2, <1>3, WriteKept
<1>5. /\ pass'.pc = pass.pc /\ pass'.page = pass.page /\ pass'.item = pass.item
      /\ pass'.nodes = pass.nodes /\ pass'.paths = pass.paths /\ pass'.seen = pass.seen
      /\ pass'.got = pass.got /\ pass'.writes = Tail(pass.writes)
  BY <1>1 DEF Pass
<1>6. \A i \in DOMAIN pass'.writes :
        i + 1 \in DOMAIN pass.writes /\ pass'.writes[i] = pass.writes[i + 1]
  BY <1>1, <1>5
<1>7. (\A i \in DOMAIN pass.writes : WriteFits(pass.writes[i]))'
  BY <1>1, <1>6 DEF Fits, CarriedFits, WriteFits, Lies, Exists
<1>8. (\A i \in DOMAIN pass.page : ChangeFits(pass.page[i]))'
  BY <1>1, <1>5 DEF Fits, CarriedFits, ChangeFits, Lies
<1>9. (\A x \in pass.item : ItemFits(pass, x))'
  BY <1>1, <1>5 DEF Fits, CarriedFits, ItemFits, Lies, Safe, Exists
<1>10. CarriedFits(pass)'
  BY <1>1, <1>5, <1>7, <1>8, <1>9 DEF Fits, CarriedFits
<1>11. ListFits(pass) => ListFits(pass)'
  <2> SUFFICES ASSUME ListFits(pass) PROVE ListFits(pass)'
    OBVIOUS
  <2>1. w.path \in pass.seen /\ \A p \in Path \ {w.path} : entry'[p] = entry[p]
    BY <1>1, <1>2 DEF ListFits, StepInv, StateInv
  <2>2. (\A p \in Path : p.copy # 0 /\ Known(p) => p \in pass.seen)'
    BY <1>5, <2>1 DEF ListFits, Known
  <2>3. (\A i \in DOMAIN pass.writes : pass.writes[i].path \in pass.seen)'
    BY <1>5, <1>6 DEF ListFits
  <2>4. (\A x \in pass.nodes \cup pass.item : Lies(x.id, x.path) /\ x.path \in pass.seen)'
    BY <1>1, <1>5 DEF ListFits, Lies
  <2> QED
    BY <2>2, <2>3, <2>4 DEF ListFits
<1>12. Unedited => Unedited'
  BY <1>1 DEF Unedited, Safe
<1>13. WalkFits(pass)' /\ PushFits(pass)'
  BY <1>1, <1>5, <1>11, <1>12 DEF Fits, WalkFits, PushFits, Transferring, Exists
<1>14. pass.pc # "idle"
  BY <1>1 DEF Fits, Idle
<1> QED
  BY <1>4, <1>5, <1>10, <1>13, <1>14 DEF Fits

\* ------------------------------------------------------------ the environment, and the whole

LEMMA OthersFit ==
    ASSUME Calm, Keeping, Others
    PROVE  Kept' /\ Fits(pass)'
<1>1. StepInv /\ Kept /\ Fits(pass) /\ pass' = pass /\ UNCHANGED <<disk, entry, mine>>
  BY DEF Keeping, Others
<1>2. written \in Nat
  BY <1>1 DEF Kept, Counted
<1>3. CASE \E x \in Names : RemotePut(Named(x))
  <2>1. PICK x \in Names : RemotePut(Named(x))
    BY <1>3
  <2>2. Named(x) \in Path /\ Named(x).copy = 0
    BY NamedIsPath DEF Named
  <2>3. written' = written + 1 /\ PutFile(Named(x), written + 1)
    BY <2>1 DEF RemotePut
  <2>4. ServerMoves
    <3>1. /\ written + 1 \in Nat \ {0} /\ written' \in Nat /\ written <= written'
          /\ written + 1 <= written'
      BY <1>2, <2>3
    <3> QED
      BY <1>1, <2>2, <2>3, <3>1, PutMoves
  <2> QED
    BY <1>1, <2>4, ServerMovesKept, ServerMovesFits
<1>4. ASSUME NEW n \in DOMAIN node, node[n].path.copy = 0, Trash(n) \/ Restore(n), UNCHANGED written
      PROVE  Kept' /\ Fits(pass)'
  <2>1. ServerMoves
    BY <1>1, <1>4, TrashMoves
  <2> QED
    BY <1>1, <2>1, ServerMovesKept, ServerMovesFits
<1>5. \/ \E x \in Names : RemotePut(Named(x))
      \/ \E n \in DOMAIN node : /\ node[n].path.copy = 0 /\ UNCHANGED written
                                /\ Trash(n) \/ Restore(n)
  BY DEF Others, RemoteOp, Calm
<1> QED
  BY <1>3, <1>4, <1>5

LEMMA StepFits ==
    ASSUME Keeping, Step
    PROVE  Kept' /\ Fits(pass)'
<1>1. UNCHANGED <<written, mine>> /\ (Pull \/ Push \/ StateWrite)
  BY DEF Step
<1>2. CASE Pull
  <2>1. CASE LatestHead \/ PollHead \/ PollRows
    BY <1>1, <2>1, PollFits
  <2>2. CASE SavePage \/ SaveHead
    BY <1>1, <2>2, SaveFits
  <2>3. CASE ApplyDelete \/ SkipChange
    BY <1>1, <2>3, ApplyDeleteFits
  <2>4. CASE ApplyUpsert \/ ApplyFileUpsert
    BY <1>1, <2>4, ApplyUpsertFits, ApplyFileUpsertFits
  <2>5. CASE Fetch \/ Place \/ StatPlaced
    BY <1>1, <2>5, FetchFits, PlaceFits, StatPlacedFits
  <2>6. CASE ListChildren \/ MaterializeFile
    BY <1>1, <2>6, ListChildrenFits, MaterializeFits
  <2>7. CASE ListEntries
    BY <1>1, <2>7, ListsFit
  <2>8. CASE RemoveVanished
    BY <1>1, <2>8, RemoveVanishedFits
  <2> QED
    BY <1>2, <2>1, <2>2, <2>3, <2>4, <2>5, <2>6, <2>7, <2>8 DEF Pull
<1>3. CASE Push
  <2>1. CASE Walk \/ ListGone \/ PushEnds
    BY <1>1, <2>1, ListsFit
  <2>2. CASE PushFile \/ Commit \/ StatPushed
    BY <1>1, <2>2, PushFileFits, CommitFits, StatPushedFits
  <2>3. CASE PushDeletion
    BY <1>1, <2>3, PushDeletionFits
  <2> QED
    BY <1>3, <2>1, <2>2, <2>3 DEF Push
<1>4. CASE StateWrite
  BY <1>1, <1>4, StateWriteFits
<1> QED
  BY <1>1, <1>2, <1>3, <1>4

LEMMA IdleNext == (pass = Idle => Fits(pass))'
<1>1. pass = Idle => Fits(pass)
  BY IdleFits
<1> QED
  BY <1>1, PTL

LEMMA NextFits ==
    ASSUME Calm, Keeping, [Next]_vars
    PROVE  Kept' /\ Fits(pass)'
<1>1. CASE Step
  BY <1>1, StepFits
<1>2. CASE Sync \/ Tick
  BY <1>2, BeginFits DEF Sync, Tick
<1>3. CASE Fault
  <2>1. UNCHANGED <<written, mine>> /\ (PassFails \/ PollRowsLost)
    BY <1>3 DEF Fault
  <2>2. CASE PassFails
    <3>1. pass' = Idle /\ LeavesFolder /\ entry' = entry /\ LeavesServer
      BY <2>2 DEF PassFails, LeavesState
    <3> QED
      BY <2>1, <3>1, IdleFits, PassOnly DEF Keeping
  <2>3. CASE PollRowsLost
    BY <2>1, <2>3, PollFits
  <2> QED
    BY <2>1, <2>2, <2>3
<1>4. CASE User
  <2>1. Kept' /\ pass.pc = "idle" /\ pass' = pass
    BY <1>4, UserKept DEF Keeping
  <2>2. pass' = Idle
    BY <2>1 DEF Keeping, Fits
  <2>3. Fits(pass)'
    BY <2>2, IdleNext DEF Idle
  <2> QED
    BY <2>1, <2>3
<1>5. CASE Others
  BY <1>5, OthersFit
<1>6. CASE Operator
  BY <1>6 DEF Operator, Calm
<1>7. CASE UNCHANGED vars
  BY <1>7, PassOnly DEF vars, Keeping, LeavesFolder, LeavesServer
<1> QED
  BY <1>1, <1>2, <1>3, <1>4, <1>5, <1>6, <1>7 DEF Next

\* No edit of the user is lost by the client, as long as none of the hazards of Calm
\* strikes: whatever other devices do, and whichever pass fails or crashes
\* between any two of its steps, what the user wrote is in the folder, under its name or
\* that of a conflict copy, or on the server.
THEOREM KeepsEdits == Calm => (Spec => []EditsKept)
<1> SUFFICES ASSUME Calm PROVE Spec => []EditsKept
  OBVIOUS
<1>1. Keeping /\ [Next]_vars => Keeping'
  <2> SUFFICES ASSUME Keeping, [Next]_vars PROVE Keeping'
    OBVIOUS
  <2>1. Inv
    BY InvSplits DEF Keeping, Kept, Counted
  <2>2. StepInv'
    BY <2>1, NextInv, InvSplits
  <2> QED
    BY <2>2, NextFits DEF Keeping
<1>2. Keeping => EditsKept
  BY DEF Keeping, Kept
<1> QED
  BY <1>1, <1>2, InitKeeping, PTL DEF Spec
---------------------------------------------------------------------------
(* Catching up.  What the cursor has passed, the state database tells; and *)
(* what it tells is what the server holds.                                 *)

\* "lostread" makes a client miss a change for good.
Lossless == Calm /\ "lostread" \notin Hazards

\* A row of node n comes after seq s.
Due(n, s) == \E r \in DOMAIN log : r > s /\ log[r].node = n

\* Entry e, of the path of node n, says what the server says of n.
Tells(n, e) == IF node[n].live THEN e.node = n /\ e.remote = node[n].content ELSE e.node # n

Polling(q) == q.pc \in {"apply", "upsert"} \/ (Transferring(q) /\ q.page # <<>>)
Listing(q) == q.pc \in {"mat", "vanish"} \/ (Transferring(q) /\ q.page = <<>>)

\* The rows up to here are applied once the write of pass q, if any, is done.
Base(q) == IF Polling(q) THEN q.next - Len(q.page) ELSE cursor
After(q, p) ==
    IF q.writes # <<>> /\ Head(q.writes).path = p THEN Head(q.writes).entry ELSE entry[p]

\* A row that says no longer what its node is has a later one of the node; one of another
\* node of the same path comes before the last of the node that is live there.
RowsTell ==
    /\ \A n \in DOMAIN node : \A s \in DOMAIN log :
         log[s].node = n => (log[s].kind = "upsert" <=> node[n].live) \/ Due(n, s)
    /\ \A m \in DOMAIN node : \A s \in DOMAIN log :
         node[m].live /\ log[s].node # m /\ node[log[s].node].path = node[m].path => Due(m, s)

Owed == \A n \in DOMAIN node : Due(n, cursor) \/ Tells(n, entry[node[n].path])
OwedAfter(q) == \A n \in DOMAIN node : Due(n, Base(q)) \/ Tells(n, After(q, node[n].path))

\* An item read when the journal ended at s is what its node is, or the node has a row
\* after s; and so has any other node that is live at its path.
Alone(it, s) ==
    \A m \in DOMAIN node : m # it.id /\ node[m].live /\ node[m].path = it.path => Due(m, s)
Current(it, s) ==
    /\ Due(it.id, s) \/ (node[it.id].live /\ node[it.id].content = it.content)
    /\ Alone(it, s)

RowTells(ch, s) ==
    /\ ch.node = log[s].node /\ ch.kind = log[s].kind
    /\ \A it \in ch.now : it.id = ch.node /\ Current(it, s)
    /\ ch.kind = "upsert" /\ ch.now = {} => Due(ch.node, s)

PageTells(q) == Polling(q) =>
    /\ cursor <= Base(q) /\ q.next <= Len(log)
    /\ \A i \in DOMAIN q.page : RowTells(q.page[i], Base(q) + i)
    /\ q.item \subseteq IF q.page = <<>> THEN {} ELSE Head(q.page).now

\* A node of the walk is told, or is still to be visited.
ListTells(q) ==
    /\ q.pc \in {"head", "list"} => \A p \in Path : ~Known(p)
    /\ q.pc = "list" \/ Listing(q) => cursor <= q.next /\ q.next <= Len(log)
    /\ Listing(q) =>
         /\ \A p \in Path : Known(p) => p \in q.seen
         /\ \A i \in DOMAIN q.writes : q.writes[i].path \in q.seen
         /\ \A it \in q.nodes \cup q.item :
              Current(it, q.next) /\ ~Known(it.path) /\ it.path \in q.seen
         /\ \A i \in DOMAIN q.writes : \A it \in q.nodes : q.writes[i].path # it.path
         /\ \A it \in q.nodes : \A jt \in q.item : jt.path # it.path
         /\ \A a, b \in q.nodes : a.path = b.path => a = b
         /\ \A n \in DOMAIN node :
              \/ Due(n, q.next) \/ Tells(n, After(q, node[n].path))
              \/ \E it \in q.nodes \cup q.item : it.id = n
         /\ q.pc = "vanish" => q.nodes = {} /\ q.paths = {}

RecordTells(q) ==
    q.pc = "record" => \A it \in q.item : Due(it.id, cursor) /\ Alone(it, cursor)

\* Where a pass carries nothing over.
Clean(q) ==
    /\ Len(q.writes) <= 1
    /\ q.pc \in {"head", "poll", "rows", "list", "mat", "vanish"} => q.item = {} /\ q.page = <<>>
    /\ q.pc = "apply" => q.item = {}
    /\ q.writes # <<>> /\ (Listing(q) \/ q.pc \in {"head", "list"}) => q.pc = "mat"

Told(q) == Clean(q) /\ OwedAfter(q) /\ PageTells(q) /\ ListTells(q) /\ RecordTells(q)

Telling == cursor <= Len(log) /\ RowsTell /\ Owed /\ Told(pass)

\* An item that pass q has been told of and has not dealt with.
Held(q, it) ==
    it \in q.item \/ (Listing(q) /\ it \in q.nodes) \/ \E i \in DOMAIN q.page : it \in q.page[i].now

\* A content beyond h is of one node, and of one path, which is that node's.
OneHolds(h) ==
    /\ \A m, n \in DOMAIN node : m # n /\ node[m].content = node[n].content => node[m].content <= h
    /\ \A m \in DOMAIN node : \A p \in Path :
         disk[p].content = node[m].content => node[m].content <= h \/ node[m].path = p
    /\ \A p, r \in Path : p # r /\ disk[p].content = disk[r].content => disk[p].content <= h

\* The items are of the time when h contents had been written.
HeldSince(q, h) ==
    \A it \in Item : Held(q, it) =>
      /\ it.id \in DOMAIN node /\ it.content <= h
      /\ node[it.id].content = it.content \/ node[it.id].content > h

\* What lies in the folder since then was put there by q.
PutSince(q, h) ==
    \A p \in Path : disk[p].content > h =>
      After(q, p).hash = disk[p].content \/ (q.pc = "stat" /\ \E it \in q.item : it.path = p)

GotSince(q, h) ==
    q.pc \in {"place", "stat"} => \A it \in q.item :
      /\ q.got = it.content \/ q.got > h
      /\ q.got > h => /\ node[it.id].content > h
                      /\ \A m \in DOMAIN node : node[m].content = q.got => m = it.id
                      /\ \A p \in Path : disk[p].content = q.got => p = it.path

Since(q, h) == h <= written /\ OneHolds(h) /\ HeldSince(q, h) /\ PutSince(q, h) /\ GotSince(q, h)
Horizon(q) == Polling(q) \/ Listing(q) => \E h \in Nat : Since(q, h)

\* A download of content hash for an item of content remote, which the node has left for good:
\* what has the content is at this path, and is not what the node holds if it is the file.
Apart(p, e) ==
    e.remote # e.hash =>
      /\ \A m \in DOMAIN node : m # e.node => node[m].content # e.hash
      /\ \A r \in Path : r # p => disk[r].content # e.hash
      /\ disk[p].content = e.hash => node[e.node].content # e.remote
Fair(p, e) == Apart(p, e) /\ e.remote <= written

EntriesFair == \A p \in Path : Fair(p, entry[p])
WritesFair(q) == \A i \in DOMAIN q.writes : Fair(q.writes[i].path, q.writes[i].entry)

\* What is about to be placed, committed or recorded.
NextFair(q) ==
    /\ q.pc \in {"place", "stat", "commit", "record"} => q.writes = <<>>
    /\ q.pc = "place" => \A it \in q.item : \A p \in Path :
         entry[p].remote # entry[p].hash /\ q.got = entry[p].hash =>
           it.id = entry[p].node /\ node[it.id].content # entry[p].remote
    /\ q.pc = "commit" => \A it \in q.item : entry[it.path].hash # disk[it.path].content
    /\ q.pc = "record" => \A it \in q.item : it.content = q.got

Parted(q) == WritesFair(q) /\ NextFair(q) /\ Horizon(q)

Parting == EntriesFair /\ Parted(pass)

---------------------------------------------------------------------------
(* Telling: a write of the server touches one node.                        *)

Touches(n) ==
    /\ n \in DOMAIN node' /\ DOMAIN node \subseteq DOMAIN node' /\ DOMAIN node' \subseteq DOMAIN node \cup {n}
    /\ \A m \in DOMAIN node : m # n => node'[m] = node[m]
    /\ n \in DOMAIN node => node'[n].path = node[n].path
    /\ Len(log) \in Nat /\ Len(log') \in Nat /\ Len(log) < Len(log')
    /\ DOMAIN log = 1..Len(log) /\ DOMAIN log' = 1..Len(log')
    /\ \A s \in DOMAIN log : log'[s] = log[s]
    /\ \A s \in DOMAIN log' :
         s > Len(log) => log'[s].node = n /\ (log'[s].kind = "upsert" <=> node'[n].live)
    /\ node'[n].live \/ (n \in DOMAIN node /\ node[n].live)
    /\ UNCHANGED <<entry, cursor>>

\* A node that is there, and one row for it.
LEMMA RowTouches ==
    ASSUME StepInv, NEW n \in DOMAIN node, NEW r, r.path = node[n].path, NEW row, row.node = n,
           row.kind = "upsert" <=> r.live, r.live \/ node[n].live,
           node' = [node EXCEPT ![n] = r], log' = Append(log, row), UNCHANGED <<entry, cursor>>
    PROVE  Touches(n) /\ node'[n] = r /\ DOMAIN node' = DOMAIN node
<1>1. /\ DOMAIN node' = DOMAIN node /\ node'[n] = r
      /\ \A m \in DOMAIN node : m # n => node'[m] = node[m]
  BY DEF StepInv, ServerInv
<1>2. log \in Seq(Row)
  BY DEF StepInv, ServerInv
<1>3. Len(log) \in Nat /\ DOMAIN log = 1..Len(log)
  BY <1>2
<1>4. /\ Len(log') = Len(log) + 1 /\ DOMAIN log' = 1..(Len(log) + 1)
      /\ \A s \in DOMAIN log : log'[s] = log[s]
      /\ log'[Len(log) + 1] = row
  BY <1>2
<1>5. \A s \in DOMAIN log' : s > Len(log) => log'[s] = row
  BY <1>3, <1>4
<1> QED
  BY <1>1, <1>3, <1>4, <1>5 DEF Touches

LEMMA TrashTouches ==
    ASSUME StepInv, NEW n \in DOMAIN node, Trash(n) \/ Restore(n), UNCHANGED <<entry, cursor>>
    PROVE  /\ Touches(n) /\ node'[n].content = node[n].content
           /\ Trash(n) => ~node'[n].live
<1>1. node[n] \in Node
  BY DEF StepInv, ServerInv
<1>2. CASE Trash(n)
  <2> DEFINE r == [node[n] EXCEPT !.live = FALSE]
             row == [node |-> n, kind |-> "delete"]
  <2>1. /\ r.path = node[n].path /\ r.content = node[n].content /\ ~r.live /\ node[n].live
        /\ row.node = n /\ row.kind = "delete"
    BY <1>1, <1>2 DEF Node, Trash
  <2>2. node' = [node EXCEPT ![n] = r] /\ log' = Append(log, row)
    BY <1>2 DEF Trash
  <2> HIDE DEF r, row
  <2>3. Touches(n) /\ node'[n] = r
    BY <2>1, <2>2, RowTouches
  <2> QED
    BY <2>1, <2>3
<1>3. CASE Restore(n)
  <2> DEFINE r == [node[n] EXCEPT !.live = TRUE]
             row == [node |-> n, kind |-> "upsert"]
  <2>1. /\ r.path = node[n].path /\ r.content = node[n].content /\ r.live /\ ~node[n].live
        /\ row.node = n /\ row.kind = "upsert"
    BY <1>1, <1>3 DEF Node, Restore
  <2>2. node' = [node EXCEPT ![n] = r] /\ log' = Append(log, row)
    BY <1>3 DEF Restore
  <2>3. ~Trash(n)
    BY <2>1 DEF Trash
  <2> HIDE DEF r, row
  <2>4. Touches(n) /\ node'[n] = r
    BY <2>1, <2>2, RowTouches
  <2> QED
    BY <2>1, <2>3, <2>4
<1> QED
  BY <1>2, <1>3

LEMMA PutTouches ==
    ASSUME StepInv, NEW p \in Path, NEW c \in Nat, PutFile(p, c), UNCHANGED <<entry, cursor>>
    PROVE  \E n \in DOMAIN node' :
             /\ Touches(n)
             /\ node'[n].path = p /\ node'[n].content = c /\ node'[n].live
             /\ IF At(p) = {} THEN n = Len(node) + 1 ELSE n \in At(p)
<1>1. CASE At(p) = {}
  <2> DEFINE new == [path |-> p, content |-> c, live |-> TRUE]
             k == Len(node) + 1
             up == [node |-> k, kind |-> "upsert"]
             tail == <<up, up>>
  <2>1. node' = Append(node, new) /\ log' = log \o tail
    BY <1>1 DEF PutFile
  <2>2. /\ DOMAIN node' = 1..(Len(node) + 1) /\ DOMAIN node = 1..Len(node) /\ Len(node) \in Nat
        /\ \A n \in DOMAIN node : node'[n] = node[n]
        /\ node'[Len(node) + 1] = new
    BY <2>1 DEF StepInv, ServerInv
  <2>3. up \in Row /\ tail \in Seq(Row) /\ log \in Seq(Row)
    BY <2>2 DEF Row, StepInv, ServerInv
  <2>4. /\ DOMAIN log' = 1..(Len(log) + 2) /\ DOMAIN log = 1..Len(log) /\ Len(log) \in Nat
        /\ \A s \in DOMAIN log : log'[s] = log[s]
        /\ log'[Len(log) + 1] = up /\ log'[Len(log) + 2] = up
    <3>1. Len(tail) = 2 /\ tail[1] = up /\ tail[2] = up
      OBVIOUS
    <3> QED
      BY <2>1, <2>3, <3>1, TwoRows
  <2>5. Len(log') = Len(log) + 2
    <3>1. log' \in Seq(Row)
      BY <2>1, <2>3
    <3> HIDE DEF tail, up
    <3> QED
      BY <2>4, <3>1
  <2>6. \A s \in DOMAIN log' : s > Len(log) => log'[s] = up
    BY <2>4
  <2>7. k \in DOMAIN node' /\ k \notin DOMAIN node /\ DOMAIN node' = DOMAIN node \cup {k}
    BY <2>2
  <2>8. Touches(k)
    <3>1. up.node = k /\ up.kind = "upsert" /\ new.live
      OBVIOUS
    <3> HIDE DEF up, new, tail, k
    <3>2. node'[k] = new
      BY <2>2 DEF k
    <3> QED
      BY <2>2, <2>4, <2>5, <2>6, <2>7, <3>1, <3>2 DEF Touches
  <2> QED
    BY <1>1, <2>2, <2>7, <2>8
<1>2. CASE At(p) # {}
  <2>1. PICK k \in At(p) : /\ node' = [node EXCEPT ![k].content = c]
                           /\ log' = Append(log, [node |-> k, kind |-> "upsert"])
    BY <1>2 DEF PutFile
  <2>2. k \in DOMAIN node /\ node[k].path = p /\ node[k].live /\ node[k] \in Node
    BY DEF At, StepInv, ServerInv
  <2> DEFINE r == [node[k] EXCEPT !.content = c]
             row == [node |-> k, kind |-> "upsert"]
  <2>3. r.path = p /\ r.content = c /\ r.live
    BY <2>2 DEF Node
  <2>4. node' = [node EXCEPT ![k] = r] /\ log' = Append(log, row)
    BY <2>1
  <2>5. r.path = node[k].path /\ row.node = k /\ row.kind = "upsert" /\ r.live
    BY <2>2, <2>3
  <2> HIDE DEF r, row
  <2>6. Touches(k) /\ node'[k] = r /\ DOMAIN node' = DOMAIN node
    BY <2>2, <2>4, <2>5, RowTouches
  <2> QED
    BY <1>2, <2>2, <2>3, <2>6
<1> QED
  BY <1>1, <1>2

LEMMA TouchDue ==
    ASSUME NEW n, Touches(n)
    PROVE  /\ \A m, s : Due(m, s) => Due(m, s)'
           /\ \A s \in Int : s <= Len(log) => Due(n, s)'
<1>1. DOMAIN log \subseteq DOMAIN log'
  BY DEF Touches
<1>2. \A m, s : Due(m, s) => Due(m, s)'
  BY <1>1 DEF Touches, Due
<1>3. Len(log') \in DOMAIN log' /\ log'[Len(log')].node = n /\ Len(log') > Len(log)
  BY DEF Touches
<1>4. \A s \in Int : s <= Len(log) => Due(n, s)'
  BY <1>3 DEF Due, Touches
<1> QED
  BY <1>2, <1>4

LEMMA TouchRows ==
    ASSUME StepInv, StepInv', RowsLie, RowsTell, NEW n, Touches(n)
    PROVE  RowsTell'
<1>1. /\ \A m, s : Due(m, s) => Due(m, s)'
      /\ \A s \in Int : s <= Len(log) => Due(n, s)'
  BY TouchDue
<1>2. ASSUME NEW m \in DOMAIN node', NEW s \in DOMAIN log', log'[s].node = m
      PROVE  (log'[s].kind = "upsert" <=> node'[m].live) \/ Due(m, s)'
  <2>0. s \in Int /\ Len(log) \in Nat
    BY DEF Touches
  <2>1. CASE s > Len(log)
    BY <1>2, <2>1 DEF Touches
  <2>2. CASE s <= Len(log)
    <3>1. s \in DOMAIN log /\ log'[s] = log[s] /\ m \in DOMAIN node
      BY <1>2, <2>2 DEF Touches, RowsLie
    <3>2. CASE m = n
      BY <1>1, <2>0, <2>2, <3>2
    <3>3. CASE m # n
      <4>1. node'[m] = node[m]
        BY <3>1, <3>3 DEF Touches
      <4>2. (log[s].kind = "upsert" <=> node[m].live) \/ Due(m, s)
        BY <1>2, <3>1 DEF RowsTell
      <4> QED
        BY <1>1, <3>1, <4>1, <4>2
    <3> QED
      BY <3>2, <3>3
  <2> QED
    BY <2>0, <2>1, <2>2
<1>3. ASSUME NEW m \in DOMAIN node', NEW s \in DOMAIN log', node'[m].live, log'[s].node # m,
             node'[log'[s].node].path = node'[m].path
      PROVE  Due(m, s)'
  <2>0. s \in Int /\ Len(log) \in Nat
    BY DEF Touches
  <2>1. CASE m = n
    <3>1. s <= Len(log)
      BY <1>3, <2>0, <2>1 DEF Touches
    <3> QED
      BY <1>1, <2>0, <2>1, <3>1
  <2>2. CASE m # n
    <3>1. m \in DOMAIN node /\ node'[m] = node[m]
      BY <1>3, <2>2 DEF Touches
    <3>2. CASE s > Len(log)
      <4>1. log'[s].node = n /\ n \in DOMAIN node'
        BY <1>3, <3>2 DEF Touches
      <4>2. CASE node'[n].live
        BY <1>3, <2>2, <4>1, <4>2 DEF StepInv, ServerInv
      <4>3. CASE n \in DOMAIN node /\ node[n].live
        <5>1. node[n].path = node[m].path /\ node[m].live
          BY <1>3, <3>1, <4>1, <4>3 DEF Touches
        <5> QED
          BY <2>2, <3>1, <4>3, <5>1 DEF StepInv, ServerInv
      <4> QED
        BY <4>2, <4>3 DEF Touches
    <3>3. CASE s <= Len(log)
      <4>1. s \in DOMAIN log /\ log'[s] = log[s] /\ log[s].node \in DOMAIN node
        BY <1>3, <3>3 DEF Touches, RowsLie
      <4>2. node'[log[s].node].path = node[log[s].node].path
        BY <4>1 DEF Touches
      <4>3. Due(m, s)
        BY <1>3, <3>1, <4>1, <4>2 DEF RowsTell
      <4> QED
        BY <1>1, <4>3
    <3> QED
      BY <2>0, <3>2, <3>3
  <2> QED
    BY <2>1, <2>2
<1> QED
  BY <1>2, <1>3 DEF RowsTell

LEMMA TouchTells ==
    ASSUME NEW n, Touches(n), NEW s \in Int, s <= Len(log), NEW m \in DOMAIN node', NEW e,
           m \in DOMAIN node => Due(m, s) \/ Tells(m, e)
    PROVE  (Due(m, s) \/ Tells(m, e))'
<1>1. CASE m = n
  BY <1>1, TouchDue
<1>2. CASE m # n
  <2>1. m \in DOMAIN node /\ node'[m] = node[m]
    BY <1>2 DEF Touches
  <2>2. Due(m, s) => Due(m, s)'
    BY TouchDue
  <2>3. Tells(m, e) => Tells(m, e)'
    BY <2>1 DEF Tells
  <2> QED
    BY <2>1, <2>2, <2>3
<1> QED
  BY <1>1, <1>2

LEMMA TouchAlone ==
    ASSUME NEW n, Touches(n), NEW s \in Int, s <= Len(log), NEW it, Alone(it, s)
    PROVE  Alone(it, s)'
<1> SUFFICES ASSUME NEW m \in DOMAIN node', m # it.id, node'[m].live, node'[m].path = it.path
             PROVE  Due(m, s)'
  BY DEF Alone
<1>1. CASE m = n
  BY <1>1, TouchDue
<1>2. CASE m # n
  <2>1. m \in DOMAIN node /\ node'[m] = node[m]
    BY <1>2 DEF Touches
  <2> QED
    BY <2>1, TouchDue DEF Alone
<1> QED
  BY <1>1, <1>2

LEMMA TouchCurrent ==
    ASSUME NEW n, Touches(n), NEW s \in Int, s <= Len(log), NEW it, it.id \in DOMAIN node,
           Current(it, s)
    PROVE  Current(it, s)'
<1>1. Alone(it, s)'
  BY TouchAlone DEF Current
<1>2. Due(it.id, s)' \/ (node[it.id].live /\ node[it.id].content = it.content)'
  <2>1. CASE it.id = n
    BY <2>1, TouchDue
  <2>2. CASE it.id # n
    <3>1. node'[it.id] = node[it.id]
      BY <2>2 DEF Touches
    <3> QED
      BY <3>1, TouchDue DEF Current
  <2> QED
    BY <2>1, <2>2
<1> QED
  BY <1>1, <1>2 DEF Current

---------------------------------------------------------------------------
(* Telling: where a pass has nothing to tell, and the head of the journal. *)

LEMMA SomeRest ==
    ASSUME StepInv
    PROVE  /\ cursor \in Nat /\ Len(log) \in Nat /\ DOMAIN log = 1..Len(log)
           /\ DOMAIN node = 1..Len(node) /\ 0 \notin DOMAIN node
           /\ \A n \in DOMAIN node : node[n] \in Node /\ node[n].path \in Path /\ n \in Nat
           /\ NoEntry.node = 0 /\ NoEntry.remote = 0 /\ NoEntry.hash = 0
<1>1. cursor \in Nat /\ log \in Seq(Row) /\ node \in Seq(Node)
  BY DEF StepInv, StateInv, ServerInv
<1>2. \A n \in DOMAIN node : node[n] \in Node
  BY <1>1
<1> QED
  BY <1>1, <1>2 DEF Node, NoEntry

LEMMA TellOnly ==
    ASSUME Telling, NEW q, Told(q), pass' = q, UNCHANGED <<node, log, entry, cursor>>
    PROVE  Telling'
<1>1. \A n, s : Due(n, s)' <=> Due(n, s)
  BY DEF Due
<1>2. \A it, s : (Alone(it, s)' <=> Alone(it, s)) /\ (Current(it, s)' <=> Current(it, s))
  BY <1>1 DEF Alone, Current
<1>3. RowsTell' /\ Owed'
  BY <1>1 DEF Telling, RowsTell, Owed, Tells
<1>4. Base(pass)' = Base(q) /\ \A p : After(pass, p)' = After(q, p)
  BY DEF Base, After, Polling, Transferring
<1>5. OwedAfter(pass)'
  BY <1>1, <1>4 DEF Told, OwedAfter, Tells
<1>6. PageTells(pass)'
  BY <1>1, <1>2, <1>4 DEF Told, PageTells, RowTells, Polling, Transferring
<1>7. ListTells(pass)' /\ RecordTells(pass)'
  BY <1>1, <1>2, <1>4 DEF Told, ListTells, RecordTells, Tells, Known, Listing, Transferring
<1>8. Clean(pass)'
  BY DEF Told, Clean, Listing, Transferring
<1> QED
  BY <1>3, <1>5, <1>6, <1>7, <1>8 DEF Telling, Told

\* Between the phases a pass has no more to tell than the state database.
LEMMA RestTold ==
    ASSUME Owed, NEW q, q.writes = <<>>,
           \/ q.pc \in {"idle", "walk", "push", "commit", "trash"}
           \/ q.pc \in {"poll", "rows"} /\ q.item = {} /\ q.page = <<>>
    PROVE  Told(q)
<1>1. ~Polling(q) /\ ~Listing(q) /\ q.pc \notin {"head", "list", "record"}
  BY DEF Polling, Listing, Transferring
<1>2. Base(q) = cursor /\ \A p : After(q, p) = entry[p]
  BY <1>1 DEF Base, After
<1>3. OwedAfter(q)
  BY <1>2 DEF Owed, OwedAfter
<1>4. Len(q.writes) = 0
  OBVIOUS
<1> QED
  BY <1>1, <1>3, <1>4 DEF Told, Clean, PageTells, ListTells, RecordTells

LEMMA IdleTold == Owed => Told(Idle) /\ Told([Idle EXCEPT !.pc = "walk"]) /\ Told(Pulled)
<1> SUFFICES ASSUME Owed PROVE Told(Idle) /\ Told([Idle EXCEPT !.pc = "walk"]) /\ Told(Pulled)
  OBVIOUS
<1>1. Idle.pc = "idle" /\ Idle.writes = <<>>
  BY DEF Idle
<1> DEFINE q == [Idle EXCEPT !.pc = "walk"]
<1>2. q.pc = "walk" /\ q.writes = <<>>
  BY DEF Idle
<1> HIDE DEF q
<1>3. Told(Idle) /\ Told(q)
  BY <1>1, <1>2, RestTold
<1> QED
  BY <1>3 DEF Pulled, q

LEMMA BeginTells ==
    ASSUME Telling, BeginPush \/ \E b \in BOOLEAN : BeginPull(b)
    PROVE  Telling'
<1>1. Owed
  BY DEF Telling
<1>2. CASE BeginPush
  BY <1>1, <1>2, IdleTold, TellOnly DEF BeginPush, LeavesState, LeavesServer
<1>3. ASSUME NEW b \in BOOLEAN, BeginPull(b) PROVE Telling'
  <2> DEFINE q == [Idle EXCEPT !.pc = IF \E p \in Path : Known(p) THEN "poll" ELSE "head",
                               !.thenPush = b]
  <2>1. q.writes = <<>> /\ q.item = {} /\ q.page = <<>>
    BY DEF Idle
  <2>2. q.pc = IF \E p \in Path : Known(p) THEN "poll" ELSE "head"
    BY DEF Idle
  <2>3. pass' = q /\ UNCHANGED <<node, log, entry, cursor>>
    <3>1. LeavesState /\ LeavesServer
      BY <1>3, Zenon DEF BeginPull
    <3>2. pass' = q
      BY <1>3, Zenon DEF BeginPull
    <3> QED
      BY <3>1, <3>2 DEF LeavesState, LeavesServer
  <2> HIDE DEF q
  <2>4. Told(q)
    <3>1. CASE \E p \in Path : Known(p)
      BY <1>1, <2>1, <2>2, <3>1, RestTold
    <3>2. CASE \A p \in Path : ~Known(p)
      <4>1. q.pc = "head"
        BY <2>2, <3>2
      <4>2. ~Polling(q) /\ ~Listing(q)
        BY <4>1 DEF Polling, Listing, Transferring
      <4>3. Base(q) = cursor /\ \A p : After(q, p) = entry[p]
        BY <2>1, <4>2 DEF Base, After
      <4>4. Len(q.writes) <= 1
        BY <2>1
      <4>5. OwedAfter(q)
        BY <1>1, <4>3 DEF Owed, OwedAfter
      <4> QED
        BY <2>1, <3>2, <4>1, <4>2, <4>4, <4>5 DEF Told, Clean, PageTells, ListTells, RecordTells
    <3> QED
      BY <3>1, <3>2
  <2> QED
    BY <2>3, <2>4, TellOnly
<1> QED
  BY <1>2, <1>3

\* ------------------------------------------------------------ the page

LEMMA HeadTells ==
    ASSUME Keeping, Telling, NEW q, q \in Pass, q.next = pass.next, q.page = Tail(pass.page), q.pc = "apply",
           Polling(pass), pass.page # <<>>
    PROVE  /\ Polling(q) /\ Base(pass) \in Nat /\ Base(q) = Base(pass) + 1 /\ Base(q) \in DOMAIN log
           /\ RowTells(Head(pass.page), Base(q)) /\ Head(pass.page).node \in DOMAIN node
           /\ \A i \in DOMAIN q.page : RowTells(q.page[i], Base(q) + i)
<1>1. pass.page \in Seq(Change) /\ pass.next \in Nat /\ cursor \in Nat /\ Len(log) \in Nat
      /\ DOMAIN log = 1..Len(log)
  BY PassTyped, SomeRest DEF Keeping, Pass
<1>2. /\ Len(pass.page) \in Nat \ {0} /\ Len(Tail(pass.page)) = Len(pass.page) - 1
      /\ Head(pass.page) = pass.page[1] /\ DOMAIN pass.page = 1..Len(pass.page)
      /\ \A i \in DOMAIN Tail(pass.page) :
           i \in Nat /\ i + 1 \in DOMAIN pass.page /\ Tail(pass.page)[i] = pass.page[i + 1]
  BY <1>1
<1>3. Polling(q)
  BY DEF Polling
<1>4. Base(pass) = pass.next - Len(pass.page) /\ Base(q) = pass.next - Len(Tail(pass.page))
  BY <1>3 DEF Base
<1>5. /\ cursor <= Base(pass) /\ pass.next <= Len(log)
      /\ \A i \in DOMAIN pass.page : RowTells(pass.page[i], Base(pass) + i)
  BY DEF Telling, Told, PageTells
<1>6. Base(pass) \in Nat /\ Base(q) = Base(pass) + 1 /\ Base(q) \in DOMAIN log
  BY <1>1, <1>2, <1>4, <1>5
<1>7. RowTells(Head(pass.page), Base(q))
  <2>1. 1 \in DOMAIN pass.page
    BY <1>2
  <2> QED
    BY <1>2, <1>5, <1>6, <2>1
<1>8. \A i \in DOMAIN q.page : RowTells(q.page[i], Base(q) + i)
  <2> TAKE i \in DOMAIN q.page
  <2>1. i \in Nat /\ i + 1 \in DOMAIN pass.page /\ q.page[i] = pass.page[i + 1]
    BY <1>2
  <2>2. Base(q) + i = Base(pass) + (i + 1)
    BY <1>6, <2>1
  <2> QED
    BY <1>5, <2>1, <2>2
<1>9. Head(pass.page).node \in DOMAIN node
  BY <1>6, <1>7 DEF RowTells, Keeping, Kept, RowsLie
<1> QED
  BY <1>3, <1>6, <1>7, <1>8, <1>9

\* What row s says to the other nodes of its path.
LEMMA RowSays ==
    ASSUME StepInv, Telling, NEW s \in DOMAIN log, NEW m \in DOMAIN node, m # log[s].node,
           node[m].path = node[log[s].node].path, node[m].live, NEW b \in Int, b <= s
    PROVE  Due(m, b)
<1>1. Due(m, s)
  BY DEF Telling, RowsTell
<1>2. DOMAIN log = 1..Len(log) /\ Len(log) \in Nat
  BY SomeRest
<1>3. PICK r \in DOMAIN log : r > s /\ log[r].node = m
  BY <1>1 DEF Due
<1>4. r > b
  BY <1>2, <1>3
<1> QED
  BY <1>3, <1>4 DEF Due

LEMMA AfterIs ==
    ASSUME NEW q \in Pass, Len(q.writes) <= 1
    PROVE  \A p : \/ After(q, p) = entry[p]
                  \/ \E i \in DOMAIN q.writes : q.writes[i].path = p /\ After(q, p) = q.writes[i].entry
<1>1. q.writes \in Seq(Record)
  BY DEF Pass
<1>2. CASE q.writes = <<>>
  BY <1>2 DEF After
<1>3. CASE q.writes # <<>>
  <2>1. 1 \in DOMAIN q.writes /\ Head(q.writes) = q.writes[1]
    BY <1>1, <1>3
  <2> QED
    BY <1>3, <2>1 DEF After
<1> QED
  BY <1>2, <1>3

\* A row is dealt with: its node is told, or has a later row.
LEMMA RowDone ==
    ASSUME Keeping, Telling, Polling(pass), pass.page # <<>>, pass.writes = <<>>,
           NEW q \in Pass, q.pc = "apply", q.page = Tail(pass.page), q.next = pass.next, q.item = {},
           NEW n, n = Head(pass.page).node,
           Due(n, Base(q)) \/ Tells(n, After(q, node[n].path)),
           Len(q.writes) <= 1,
           \A i \in DOMAIN q.writes :
             q.writes[i].path = node[n].path /\ (q.writes[i].entry.node = 0 \/ q.writes[i].entry.node = n)
    PROVE  Told(q)
<1>1. /\ Polling(q) /\ Base(pass) \in Nat /\ Base(q) = Base(pass) + 1 /\ Base(q) \in DOMAIN log
      /\ RowTells(Head(pass.page), Base(q)) /\ n \in DOMAIN node
      /\ \A i \in DOMAIN q.page : RowTells(q.page[i], Base(q) + i)
  BY HeadTells
<1>2. log[Base(q)].node = n
  BY <1>1 DEF RowTells
<1>3. StepInv /\ 0 \notin DOMAIN node /\ DOMAIN log = 1..Len(log) /\ Len(log) \in Nat
  BY SomeRest DEF Keeping
<1>4. \A p : After(pass, p) = entry[p]
  BY DEF After
<1>5. OwedAfter(q)
  <2> SUFFICES ASSUME NEW m \in DOMAIN node, m # n
               PROVE  Due(m, Base(q)) \/ Tells(m, After(q, node[m].path))
    BY DEF OwedAfter
  <2>1. Due(m, Base(pass)) \/ Tells(m, entry[node[m].path])
    BY <1>4 DEF Telling, Told, OwedAfter
  <2>2. CASE Due(m, Base(pass))
    <3>1. PICK r \in DOMAIN log : r > Base(pass) /\ log[r].node = m
      BY <2>2 DEF Due
    <3>2. r # Base(q)
      BY <1>2, <3>1
    <3>3. r > Base(q)
      BY <1>1, <1>3, <3>1, <3>2
    <3> QED
      BY <3>1, <3>3 DEF Due
  <2>3. CASE Tells(m, entry[node[m].path])
    <3>1. CASE After(q, node[m].path) = entry[node[m].path]
      BY <2>3, <3>1
    <3>2. CASE \E i \in DOMAIN q.writes :
                 q.writes[i].path = node[m].path /\ After(q, node[m].path) = q.writes[i].entry
      <4>1. node[m].path = node[n].path /\ After(q, node[m].path).node # m
        BY <1>3, <3>2
      <4>2. CASE ~node[m].live
        BY <4>1, <4>2 DEF Tells
      <4>3. CASE node[m].live
        <5>1. Base(q) \in Int /\ Base(q) <= Base(q)
          BY <1>1, <1>3
        <5>2. Due(m, Base(q))
          BY <1>1, <1>2, <1>3, <4>1, <4>3, <5>1, RowSays
        <5> QED
          BY <5>2
      <4> QED
        BY <4>2, <4>3
    <3> QED
      BY <3>1, <3>2, AfterIs
  <2> QED
    BY <2>1, <2>2, <2>3
<1>6. PageTells(q)
  <2>1. cursor <= Base(pass) /\ pass.next <= Len(log) /\ cursor \in Nat
    BY SomeRest DEF Telling, Told, PageTells, Keeping
  <2>2. cursor <= Base(q)
    BY <1>1, <2>1
  <2> QED
    BY <1>1, <2>1, <2>2 DEF PageTells
<1>7. ~Listing(q)
  BY DEF Listing, Transferring
<1> QED
  BY <1>5, <1>6, <1>7 DEF Told, Clean, ListTells, RecordTells

\* Within a row: an edit set aside is forgotten before the row's download.
LEMMA RowGoes ==
    ASSUME Keeping, Telling, Polling(pass), pass.page # <<>>, pass.writes = <<>>,
           NEW q \in Pass, q.pc \in {"upsert", "fetch", "place", "stat"},
           q.page = pass.page, q.next = pass.next, q.item \subseteq Head(pass.page).now,
           Len(q.writes) <= 1,
           \A i \in DOMAIN q.writes :
             /\ q.writes[i].path = node[Head(pass.page).node].path
             /\ q.writes[i].entry = NoEntry
    PROVE  Told(q)
<1> DEFINE t == [pass EXCEPT !.pc = "apply", !.page = Tail(pass.page)]
           n == Head(pass.page).node
<1>1. StepInv /\ 0 \notin DOMAIN node /\ DOMAIN log = 1..Len(log) /\ Len(log) \in Nat /\ NoEntry.node = 0
  BY SomeRest DEF Keeping
<1>2. t \in Pass /\ t.next = pass.next /\ t.page = Tail(pass.page) /\ t.pc = "apply"
  BY <1>1, PassTyped, PageHead DEF Pass
<1> HIDE DEF t
<1>3. /\ Base(pass) \in Nat /\ Base(t) = Base(pass) + 1 /\ Base(t) \in DOMAIN log
      /\ log[Base(t)].node = n /\ n \in DOMAIN node
  BY <1>2, HeadTells DEF RowTells
<1>4. Polling(q) /\ Base(q) = Base(pass) /\ ~Listing(q)
  BY DEF Polling, Base, Listing, Transferring
<1>5. \A p : After(pass, p) = entry[p]
  BY DEF After
<1>6. OwedAfter(q)
  <2> SUFFICES ASSUME NEW m \in DOMAIN node
               PROVE  Due(m, Base(pass)) \/ Tells(m, After(q, node[m].path))
    BY <1>4 DEF OwedAfter
  <2>1. CASE After(q, node[m].path) = entry[node[m].path]
    BY <1>5, <2>1 DEF Telling, Told, OwedAfter
  <2>2. CASE \E i \in DOMAIN q.writes :
               q.writes[i].path = node[m].path /\ After(q, node[m].path) = q.writes[i].entry
    <3>1. node[m].path = node[n].path /\ After(q, node[m].path).node # m
      BY <1>1, <2>2
    <3>2. CASE m = n
      <4>1. Base(t) > Base(pass)
        BY <1>3
      <4> QED
        BY <1>3, <3>2, <4>1 DEF Due
    <3>3. CASE m # n /\ node[m].live
      <4>1. Base(pass) \in Int /\ Base(pass) <= Base(t)
        BY <1>3
      <4> QED
        BY <1>1, <1>3, <3>1, <3>3, <4>1, RowSays
    <3>4. CASE ~node[m].live
      BY <3>1, <3>4 DEF Tells
    <3> QED
      BY <3>2, <3>3, <3>4
  <2> QED
    BY <2>1, <2>2, AfterIs
<1>7. PageTells(q)
  BY <1>4 DEF Telling, Told, PageTells
<1> QED
  BY <1>4, <1>6, <1>7 DEF Told, Clean, ListTells, RecordTells

LEMMA SkipTells ==
    ASSUME Keeping, Telling, ApplyDelete \/ SkipChange
    PROVE  Telling'
<1> DEFINE ch == Head(pass.page)
           n == ch.node
<1>1. /\ pass \in Pass /\ pass.writes = <<>> /\ pass.pc = "apply" /\ pass.page # <<>>
      /\ StepInv /\ Kept /\ pass.page \in Seq(Change) /\ Tail(pass.page) \in Seq(Change)
      /\ UNCHANGED <<node, log, entry, cursor>> /\ Polling(pass)
  BY PageHead DEF Keeping, ApplyDelete, SkipChange, On, LeavesState, LeavesServer, Polling
<1>2. /\ 0 \notin DOMAIN node /\ NoEntry.node = 0
      /\ \A m \in DOMAIN node : node[m].path \in Path
  BY <1>1, SomeRest
<1>3. pass.item = {}
  BY <1>1 DEF Telling, Told, Clean
<1>4. ASSUME NEW ws \in Seq(Record)
      PROVE  /\ NextRow(ws) \in Pass /\ NextRow(ws).pc = "apply" /\ NextRow(ws).page = Tail(pass.page)
             /\ NextRow(ws).next = pass.next /\ NextRow(ws).item = {}
             /\ NextRow(ws).writes = ws
  <2>1. NextRow(ws) = [pass EXCEPT !.page = Tail(pass.page), !.writes = ws]
    BY DEF NextRow
  <2> DEFINE t == Tail(pass.page)
  <2>2. t \in Seq(Change) /\ NextRow(ws) = [pass EXCEPT !.page = t, !.writes = ws]
    BY <1>1, <2>1
  <2> HIDE DEF t
  <2>3. NextRow(ws) \in Pass /\ NextRow(ws).page = t
    BY <1>1, <2>2 DEF Pass
  <2> QED
    BY <1>1, <1>3, <2>2, <2>3 DEF Pass, t
<1>5. \A ws \in Seq(Record) :
        /\ Base(NextRow(ws)) \in DOMAIN log /\ log[Base(NextRow(ws))].node = n
        /\ RowTells(ch, Base(NextRow(ws))) /\ n \in DOMAIN node
  <2> TAKE ws \in Seq(Record)
  <2> DEFINE q == NextRow(ws)
  <2>1. /\ q \in Pass /\ q.next = pass.next /\ q.page = Tail(pass.page) /\ q.pc = "apply"
    BY <1>4
  <2> HIDE DEF q
  <2>2. Base(q) \in DOMAIN log /\ RowTells(ch, Base(q)) /\ n \in DOMAIN node
    BY <1>1, <2>1, HeadTells
  <2> QED
    BY <2>2 DEF q, RowTells
<1>6. ASSUME NEW ws \in Seq(Record), pass' = NextRow(ws), Len(ws) <= 1,
             \A i \in DOMAIN ws : ws[i].path = node[n].path /\ ws[i].entry = NoEntry,
             \/ Due(n, Base(NextRow(ws)))
             \/ ~node[n].live /\ After(NextRow(ws), node[n].path).node # n
      PROVE  Telling'
  <2> DEFINE q == NextRow(ws)
  <2>1. /\ q \in Pass /\ q.pc = "apply" /\ q.page = Tail(pass.page) /\ q.next = pass.next
        /\ q.item = {} /\ q.writes = ws
    BY <1>4
  <2>2. Due(n, Base(q)) \/ Tells(n, After(q, node[n].path))
    BY <1>6 DEF Tells
  <2> HIDE DEF q
  <2>3. Told(q)
    BY <1>1, <1>2, <1>6, <2>1, <2>2, RowDone
  <2> QED
    BY <1>1, <1>6, <2>3, TellOnly DEF q
<1>7. <<>> \in Seq(Record) /\ Len(<<>>) <= 1 /\ DOMAIN <<>> = {}
  OBVIOUS
<1>8. CASE SkipChange
  <2>1. ch.kind = "upsert" /\ ch.now = {} /\ pass' = NextRow(<<>>)
    BY <1>8 DEF SkipChange
  <2>2. Due(n, Base(NextRow(<<>>)))
    BY <1>5, <1>7, <2>1 DEF RowTells
  <2> QED
    BY <1>6, <1>7, <2>1, <2>2
<1>9. CASE ApplyDelete
  <2>1. ch.kind = "delete"
    BY <1>9 DEF ApplyDelete
  <2>2. \A ws \in Seq(Record) : node[n].live => Due(n, Base(NextRow(ws)))
    <3> TAKE ws \in Seq(Record)
    <3> DEFINE s == Base(NextRow(ws))
    <3>1. s \in DOMAIN log /\ log[s].node = n /\ log[s].kind = "delete" /\ n \in DOMAIN node
      BY <1>5, <2>1 DEF RowTells
    <3> HIDE DEF s
    <3> QED
      BY <3>1 DEF Telling, RowsTell, s
  <2>3. CASE GetByNodeID(n) = {} /\ pass' = NextRow(<<>>)
    <3>1. After(NextRow(<<>>), node[n].path) = entry[node[n].path]
      BY <1>4, <1>7 DEF After
    <3>2. entry[node[n].path].node # n
      BY <1>2, <1>5, <1>7, <2>3 DEF GetByNodeID, Known
    <3> QED
      BY <1>6, <1>7, <2>2, <2>3, <3>1, <3>2
  <2>4. ASSUME NEW p \in GetByNodeID(n), pass' = NextRow(<<Forget(p)>>) PROVE Telling'
    <3> DEFINE ws == <<Forget(p)>>
    <3>1. p \in Path /\ Known(p) /\ entry[p].node = n
      BY DEF GetByNodeID
    <3>2. node[n].path = p
      BY <1>1, <3>1 DEF Kept, EntriesLie, Lies
    <3>3. /\ ws \in Seq(Record) /\ Len(ws) <= 1 /\ ws # <<>> /\ Head(ws) = Forget(p)
          /\ \A i \in DOMAIN ws : ws[i] = Forget(p)
      BY <3>1, ForgetIsRecord
    <3>4. Forget(p).path = p /\ Forget(p).entry = NoEntry
      BY DEF Forget, Put
    <3>5. pass' = NextRow(ws)
      BY <2>4
    <3> HIDE DEF ws
    <3>6. After(NextRow(ws), p) = NoEntry
      BY <1>4, <3>3, <3>4 DEF After
    <3>7. n # 0
      BY <1>2, <1>5, <3>3
    <3> QED
      BY <1>2, <1>6, <2>2, <3>2, <3>3, <3>4, <3>5, <3>6, <3>7
  <2>5. \/ GetByNodeID(n) = {} /\ pass' = NextRow(<<>>)
        \/ \E p \in GetByNodeID(n) : pass' = NextRow(<<Forget(p)>>)
    BY <1>9, Zenon DEF ApplyDelete
  <2> QED
    BY <2>3, <2>4, <2>5
<1> QED
  BY <1>8, <1>9

LEMMA ApplyUpsertTells ==
    ASSUME Keeping, Telling, ApplyUpsert
    PROVE  Telling'
<1>1. /\ pass \in Pass /\ pass.writes = <<>> /\ pass.pc = "apply" /\ pass.page # <<>>
      /\ StepInv /\ Kept /\ Fits(pass) /\ pass.page \in Seq(Change) /\ Polling(pass)
      /\ UNCHANGED <<node, log, entry, cursor>> /\ Head(pass.page).now \in SUBSET Item
  BY PageHead DEF Keeping, ApplyUpsert, On, LeavesState, LeavesServer, Polling
<1>2. PICK it \in Head(pass.page).now :
         \/ \E p \in GetByNodeID(it.id) \ {it.path} : MoveLocal(p, it.path)
         \/ pass' = [pass EXCEPT !.pc = "upsert", !.item = {it}]
  BY Zenon DEF ApplyUpsert
<1>3. Lies(it.id, it.path)
  <2>1. Head(pass.page) = pass.page[1] /\ 1 \in DOMAIN pass.page
    BY <1>1
  <2> QED
    BY <1>1, <2>1 DEF Fits, CarriedFits, ChangeFits
<1>4. GetByNodeID(it.id) \ {it.path} = {}
  BY <1>1, <1>3 DEF GetByNodeID, Kept, EntriesLie, Lies
<1> DEFINE q == [pass EXCEPT !.pc = "upsert", !.item = {it}]
<1>5. pass' = q
  BY <1>2, <1>4
<1>6. /\ q.pc = "upsert" /\ q.writes = pass.writes /\ q.page = pass.page /\ q.item = {it} /\ q \in Pass
      /\ q.next = pass.next
  BY <1>1 DEF Pass
<1> HIDE DEF q
<1>7. q.item \subseteq Head(pass.page).now /\ Len(q.writes) <= 1 /\ DOMAIN q.writes = {}
  BY <1>1, <1>6
<1>8. Told(q)
  BY <1>1, <1>6, <1>7, RowGoes
<1> QED
  BY <1>1, <1>5, <1>8, TellOnly

LEMMA NextRowItem ==
    ASSUME StepInv, pass.page # <<>>, NEW ws \in Seq(Record)
    PROVE  /\ NextItem(ws) \in Pass /\ NextItem(ws).pc = "apply" /\ NextItem(ws).page = Tail(pass.page)
           /\ NextItem(ws).next = pass.next /\ NextItem(ws).item = {} /\ NextItem(ws).writes = ws
<1> DEFINE t == Tail(pass.page)
<1>1. pass \in Pass /\ t \in Seq(Change)
  BY PageHead
<1>2. NextItem(ws) = [pass EXCEPT !.pc = "apply", !.page = t, !.item = {}, !.got = 0, !.writes = ws]
  BY DEF NextItem
<1> HIDE DEF t
<1>3. NextItem(ws) \in Pass
  BY NextItemTyped
<1>4. /\ NextItem(ws).pc = "apply" /\ NextItem(ws).page = t
      /\ NextItem(ws).next = pass.next /\ NextItem(ws).item = {} /\ NextItem(ws).writes = ws
  BY <1>1, <1>2 DEF Pass
<1> QED
  BY <1>3, <1>4 DEF t

LEMMA NextListItem ==
    ASSUME StepInv, pass.page = <<>>, NEW ws \in Seq(Record)
    PROVE  /\ NextItem(ws) \in Pass /\ NextItem(ws).pc = "mat" /\ NextItem(ws).page = <<>>
           /\ NextItem(ws).next = pass.next /\ NextItem(ws).item = {} /\ NextItem(ws).writes = ws
           /\ NextItem(ws).nodes = pass.nodes /\ NextItem(ws).seen = pass.seen
<1>1. pass \in Pass
  BY PassTyped
<1>2. NextItem(ws) = [pass EXCEPT !.pc = "mat", !.page = <<>>, !.item = {}, !.got = 0, !.writes = ws]
  BY DEF NextItem
<1>3. NextItem(ws) \in Pass
  BY NextItemTyped
<1> QED
  BY <1>1, <1>2, <1>3 DEF Pass

\* The row of an item is dealt with.
LEMMA RowItem ==
    ASSUME Keeping, Telling, pass.pc \in {"upsert", "fetch", "place", "stat"}, pass.page # <<>>,
           pass.writes = <<>>, NEW it \in pass.item, NEW ws \in Seq(Record), Len(ws) <= 1,
           \A i \in DOMAIN ws : ws[i].path = it.path /\ ws[i].entry.node = it.id,
           /\ it.id \in DOMAIN node /\ node[it.id].live /\ node[it.id].content = it.content
           /\ node[it.id].path = it.path /\ Base(NextItem(ws)) \in DOMAIN log
           /\ log[Base(NextItem(ws))].node = it.id /\ Base(pass) \in Nat
           /\ Base(NextItem(ws)) = Base(pass) + 1
           => Due(it.id, Base(NextItem(ws))) \/ Tells(it.id, After(NextItem(ws), it.path))
    PROVE  Told(NextItem(ws))
<1> DEFINE q == NextItem(ws)
           n == Head(pass.page).node
<1>1. /\ StepInv /\ Fits(pass) /\ Polling(pass)
  BY DEF Keeping, Polling, Transferring
<1>2. /\ q \in Pass /\ q.pc = "apply" /\ q.page = Tail(pass.page)
      /\ q.next = pass.next /\ q.item = {} /\ q.writes = ws
  BY <1>1, NextRowItem
<1> HIDE DEF q
<1>3. /\ Base(pass) \in Nat /\ Base(q) = Base(pass) + 1 /\ Base(q) \in DOMAIN log
      /\ RowTells(Head(pass.page), Base(q)) /\ n \in DOMAIN node
  BY <1>1, <1>2, HeadTells
<1>4. it \in Head(pass.page).now
  BY <1>1 DEF Telling, Told, PageTells
<1>5. it.id = n /\ Current(it, Base(q)) /\ log[Base(q)].node = n
  BY <1>3, <1>4 DEF RowTells
<1>6. node[n].path = it.path
  BY <1>1, <1>5 DEF Fits, CarriedFits, ItemFits, Lies
<1>7. Due(n, Base(q)) \/ Tells(n, After(q, node[n].path))
  <2>1. CASE Due(n, Base(q))
    BY <2>1
  <2>2. CASE node[n].live /\ node[n].content = it.content
    BY <1>3, <1>5, <1>6, <2>2 DEF q
  <2> QED
    BY <1>5, <2>1, <2>2 DEF Current
<1>8. Told(q)
  BY <1>1, <1>2, <1>5, <1>6, <1>7, RowDone
<1> QED
  BY <1>8 DEF q

LEMMA FileUpsertTells ==
    ASSUME Keeping, Telling, ApplyFileUpsert
    PROVE  Telling'
<1>1. /\ pass \in Pass /\ pass.writes = <<>> /\ pass.pc = "upsert" /\ StepInv /\ Kept /\ Fits(pass)
      /\ UNCHANGED <<node, log, entry, cursor>>
  BY PassTyped DEF Keeping, ApplyFileUpsert, On, LeavesState, LeavesServer
<1>2. PICK it \in pass.item :
         \/ Known(it.path) /\ entry[it.path].remote = it.content /\ pass' = NextItem(<<>>)
         \/ pass' = [pass EXCEPT !.pc = "fetch"]
         \/ pass' = [pass EXCEPT !.pc = "fetch", !.writes = <<Forget(it.path)>>]
  BY Zenon DEF ApplyFileUpsert
<1> DEFINE p == it.path
<1>3. p \in Path /\ Lies(it.id, p) /\ pass.page # <<>> /\ Polling(pass)
  BY <1>1, PassTyped DEF Fits, CarriedFits, ItemFits, WalkFits, Polling
<1>4. pass.item \subseteq Head(pass.page).now
  BY <1>3 DEF Telling, Told, PageTells
<1>5. CASE Known(p) /\ entry[p].remote = it.content /\ pass' = NextItem(<<>>)
  <2> DEFINE ws == <<>>
  <2>1. ws \in Seq(Record) /\ Len(ws) <= 1 /\ DOMAIN ws = {}
    OBVIOUS
  <2>2. NextItem(ws).writes = <<>>
    BY <1>1, <1>3, <2>1, NextRowItem
  <2> DEFINE q == NextItem(ws)
             n == it.id
  <2>3. After(q, p) = entry[p] /\ After(pass, p) = entry[p]
    BY <1>1, <2>2 DEF After
  <2>4. pass' = q
    BY <1>5
  <2> HIDE DEF q, ws
  <2>5. ASSUME n \in DOMAIN node, node[n].live, node[n].content = it.content, node[n].path = p,
               Base(q) \in DOMAIN log, log[Base(q)].node = n, Base(pass) \in Nat, Base(q) = Base(pass) + 1
        PROVE  Due(n, Base(q)) \/ Tells(n, After(q, p))
    <3> DEFINE k == entry[p].node
    <3>1. CASE k = n
      BY <1>5, <2>3, <2>5, <3>1 DEF Tells
    <3>2. CASE k # n
      <4>1. k \in DOMAIN node /\ node[k].path = p
        BY <1>1, <1>3, <1>5 DEF Kept, EntriesLie, Lies
      <4>2. ~node[k].live
        BY <1>1, <2>5, <3>2, <4>1 DEF StepInv, ServerInv
      <4>3. Due(k, Base(pass))
        BY <2>3, <4>1, <4>2 DEF Telling, Told, OwedAfter, Tells
      <4>4. PICK r \in DOMAIN log : r > Base(pass) /\ log[r].node = k
        BY <4>3 DEF Due
      <4>5. Base(q) \in Int /\ Base(q) <= r
        BY <1>1, <2>5, <4>4, SomeRest
      <4>6. node[n].path = node[log[r].node].path /\ n # log[r].node
        BY <2>5, <3>2, <4>1, <4>4
      <4>7. Due(n, Base(q))
        BY <1>1, <2>5, <4>5, <4>6, RowSays
      <4> QED
        BY <4>7
    <3> QED
      BY <3>1, <3>2
  <2>6. Told(NextItem(ws))
    <3>1. /\ it.id \in DOMAIN node /\ node[it.id].live /\ node[it.id].content = it.content
          /\ node[it.id].path = it.path /\ Base(NextItem(ws)) \in DOMAIN log
          /\ log[Base(NextItem(ws))].node = it.id /\ Base(pass) \in Nat
          /\ Base(NextItem(ws)) = Base(pass) + 1
          => Due(it.id, Base(NextItem(ws))) \/ Tells(it.id, After(NextItem(ws), it.path))
      BY <2>5 DEF q
    <3> QED
      BY <1>1, <1>3, <2>1, <3>1, RowItem
  <2> QED
    BY <1>1, <2>4, <2>6, TellOnly DEF q
<1>6. CASE pass' = [pass EXCEPT !.pc = "fetch"]
  <2> DEFINE q == [pass EXCEPT !.pc = "fetch"]
  <2>1. /\ q \in Pass /\ q.pc = "fetch" /\ q.page = pass.page /\ q.item = pass.item /\ q.writes = <<>>
        /\ q.next = pass.next
    BY <1>1 DEF Pass
  <2>2. pass' = q
    BY <1>6
  <2> HIDE DEF q
  <2>3. Len(q.writes) <= 1 /\ DOMAIN q.writes = {}
    BY <2>1
  <2>4. Told(q)
    BY <1>1, <1>3, <1>4, <2>1, <2>3, RowGoes
  <2> QED
    BY <1>1, <2>2, <2>4, TellOnly
<1>7. CASE pass' = [pass EXCEPT !.pc = "fetch", !.writes = <<Forget(p)>>]
  <2> DEFINE ws == <<Forget(p)>>
             q == [pass EXCEPT !.pc = "fetch", !.writes = ws]
  <2>1. ws \in Seq(Record) /\ Len(ws) <= 1 /\ \A i \in DOMAIN ws : ws[i] = Forget(p)
    BY <1>3, ForgetIsRecord
  <2>2. pass' = q
    BY <1>7
  <2> HIDE DEF ws
  <2>3. /\ q \in Pass /\ q.pc = "fetch" /\ q.page = pass.page /\ q.item = pass.item /\ q.writes = ws
        /\ q.next = pass.next
    BY <1>1, <2>1 DEF Pass
  <2> HIDE DEF q
  <2>4. it.id = Head(pass.page).node
    <3> DEFINE t == [pass EXCEPT !.pc = "apply", !.page = Tail(pass.page)]
    <3>1. t \in Pass /\ t.next = pass.next /\ t.page = Tail(pass.page) /\ t.pc = "apply"
      BY <1>1, <1>3, PageHead DEF Pass
    <3> HIDE DEF t
    <3>2. RowTells(Head(pass.page), Base(t))
      BY <1>3, <3>1, HeadTells
    <3> QED
      BY <1>4, <3>2 DEF RowTells
  <2>5. Forget(p).path = node[it.id].path /\ Forget(p).entry = NoEntry
    BY <1>3 DEF Forget, Put, Lies
  <2>6. Told(q)
    BY <1>1, <1>3, <1>4, <2>1, <2>3, <2>4, <2>5, RowGoes
  <2> QED
    BY <1>1, <2>2, <2>6, TellOnly
<1> QED
  BY <1>2, <1>5, <1>6, <1>7

LEMMA TransferTells ==
    ASSUME Keeping, Telling, Transferring(pass), pass.writes = <<>>,
           NEW q \in Pass, Transferring(q), q.writes = <<>>, q.page = pass.page, q.next = pass.next,
           q.item = pass.item, q.nodes = pass.nodes, q.seen = pass.seen
    PROVE  Told(q)
<1>1. Len(q.writes) <= 1 /\ DOMAIN q.writes = {}
  OBVIOUS
<1>2. CASE pass.page # <<>>
  <2>1. Polling(pass) /\ q.item \subseteq Head(pass.page).now
    BY <1>2 DEF Polling, Telling, Told, PageTells
  <2> QED
    BY <1>1, <1>2, <2>1, RowGoes DEF Transferring
<1>3. CASE pass.page = <<>>
  <2>1. /\ Listing(pass) /\ Listing(q) /\ ~Polling(pass) /\ ~Polling(q)
        /\ q.pc \notin {"head", "list", "mat", "vanish", "record"}
    BY <1>3 DEF Listing, Polling, Transferring
  <2>2. Base(q) = Base(pass) /\ \A p : After(q, p) = After(pass, p)
    BY <2>1 DEF Base, After
  <2>3. OwedAfter(q)
    BY <2>2 DEF Telling, Told, OwedAfter
  <2>4. ListTells(q)
    BY <2>1, <2>2 DEF Telling, Told, ListTells
  <2>5. Clean(q)
    BY <1>1, <2>1 DEF Clean, Transferring
  <2> QED
    BY <2>1, <2>3, <2>4, <2>5 DEF Told, PageTells, RecordTells
<1> QED
  BY <1>2, <1>3

LEMMA FetchTells ==
    ASSUME Keeping, Telling, Fetch \/ Place
    PROVE  Telling'
<1>1. /\ pass \in Pass /\ pass.writes = <<>> /\ Transferring(pass) /\ StepInv
      /\ UNCHANGED <<node, log, entry, cursor>>
  BY PassTyped DEF Keeping, Fetch, Place, On, LeavesState, LeavesServer, Transferring
<1>2. CASE pass' = Idle
  BY <1>1, <1>2, IdleTold, TellOnly DEF Telling
<1>3. ASSUME NEW c \in Nat, NEW pc \in {"place", "stat"}, pass' = [pass EXCEPT !.pc = pc, !.got = c]
      PROVE  Telling'
  <2> DEFINE q == [pass EXCEPT !.pc = pc, !.got = c]
  <2>1. /\ q \in Pass /\ q.pc = pc /\ q.writes = <<>> /\ q.page = pass.page /\ q.next = pass.next
        /\ q.item = pass.item /\ q.nodes = pass.nodes /\ q.seen = pass.seen
    BY <1>1 DEF Pass
  <2>2. pass' = q
    BY <1>3
  <2> HIDE DEF q
  <2>3. Transferring(q)
    BY <2>1 DEF Transferring
  <2>4. Told(q)
    BY <1>1, <2>1, <2>3, TransferTells
  <2> QED
    BY <1>1, <2>2, <2>4, TellOnly
<1>4. CASE Fetch
  <2>1. PICK it \in pass.item :
          \/ pass' = Idle
          \/ it.id \in DOMAIN node /\ pass' = [pass EXCEPT !.pc = "place", !.got = node[it.id].content]
    BY <1>4, Zenon DEF Fetch
  <2>2. \A n \in DOMAIN node : node[n].content \in Nat
    BY <1>1, SomeRest DEF Node
  <2>3. CASE it.id \in DOMAIN node /\ pass' = [pass EXCEPT !.pc = "place", !.got = node[it.id].content]
    <3> DEFINE c == node[it.id].content
    <3>1. c \in Nat /\ pass' = [pass EXCEPT !.pc = "place", !.got = c]
      BY <2>2, <2>3
    <3> HIDE DEF c
    <3> QED
      BY <1>3, <3>1
  <2> QED
    BY <1>2, <2>1, <2>3
<1>5. CASE Place
  <2>1. pass' = [pass EXCEPT !.pc = "stat"]
    BY <1>5 DEF Place
  <2>2. [pass EXCEPT !.pc = "stat"] = [pass EXCEPT !.pc = "stat", !.got = pass.got] /\ pass.got \in Nat
    BY <1>1 DEF Pass
  <2> QED
    BY <1>3, <2>1, <2>2
<1> QED
  BY <1>4, <1>5

\* What the walk has transferred is told by the record that is about to be written.
LEMMA StatPlacedTells ==
    ASSUME Keeping, Telling, StatPlaced
    PROVE  Telling'
<1>1. /\ pass \in Pass /\ pass.writes = <<>> /\ pass.pc = "stat" /\ StepInv /\ Kept /\ Fits(pass)
      /\ UNCHANGED <<node, log, entry, cursor>>
  BY PassTyped DEF Keeping, StatPlaced, On, LeavesState, LeavesServer
<1>2. PICK it \in pass.item : pass' \in {Idle, NextItem(<<RecordOf(it)>>)}
  BY DEF StatPlaced
<1>3. CASE pass' = Idle
  BY <1>1, <1>3, IdleTold, TellOnly DEF Telling
<1>4. CASE pass' = NextItem(<<RecordOf(it)>>)
  <2> DEFINE ws == <<RecordOf(it)>>
             q == NextItem(ws)
             p == it.path
  <2>1. /\ ws \in Seq(Record) /\ Len(ws) <= 1 /\ ws # <<>> /\ Head(ws) = RecordOf(it)
        /\ \A i \in DOMAIN ws : ws[i] = RecordOf(it)
    BY <1>1, RecordFits
  <2>2. /\ RecordOf(it).path = p /\ RecordOf(it).entry.node = it.id
        /\ RecordOf(it).entry.remote = it.content
    BY DEF RecordOf, Put
  <2>3. pass' = q
    BY <1>4
  <2>4. q.writes = ws /\ q \in Pass
    BY <1>1, <2>1, NextItemTyped
  <2>5. After(q, p) = RecordOf(it).entry /\ \A r : r # p => After(q, r) = entry[r]
    BY <2>1, <2>2, <2>4 DEF After
  <2> HIDE DEF ws
  <2>6. node[it.id].live /\ node[it.id].content = it.content => Tells(it.id, After(q, p))
    BY <2>2, <2>5 DEF Tells
  <2>7. CASE pass.page # <<>>
    <3>1. \A i \in DOMAIN ws : ws[i].path = p /\ ws[i].entry.node = it.id
      BY <2>1, <2>2
    <3> HIDE DEF q
    <3>2. Told(NextItem(ws))
      BY <1>1, <2>1, <2>6, <2>7, <3>1, RowItem DEF q
    <3> QED
      BY <1>1, <2>3, <3>2, TellOnly DEF q
  <2>8. CASE pass.page = <<>>
    <3>1. /\ q.pc = "mat" /\ q.page = <<>> /\ q.next = pass.next /\ q.item = {}
          /\ q.nodes = pass.nodes /\ q.seen = pass.seen
      BY <1>1, <2>1, <2>8, NextListItem
    <3> HIDE DEF q
    <3>2. /\ Listing(pass) /\ Listing(q) /\ ~Polling(pass) /\ ~Polling(q)
      BY <1>1, <2>8, <3>1 DEF Listing, Polling, Transferring
    <3>3. Base(q) = cursor /\ Base(pass) = cursor /\ \A r : After(pass, r) = entry[r]
      BY <1>1, <3>2 DEF Base, After
    <3>4. /\ cursor <= pass.next /\ pass.next <= Len(log)
          /\ \A r \in Path : Known(r) => r \in pass.seen
          /\ \A x \in pass.nodes \cup pass.item :
               Current(x, pass.next) /\ ~Known(x.path) /\ x.path \in pass.seen
          /\ \A x \in pass.nodes : x.path # p
          /\ \A a, b \in pass.nodes : a.path = b.path => a = b
          /\ \A n \in DOMAIN node :
               \/ Due(n, pass.next) \/ Tells(n, After(pass, node[n].path))
               \/ \E x \in pass.nodes \cup pass.item : x.id = n
      BY <3>2 DEF Telling, Told, ListTells
    <3>5. /\ p \in Path /\ it.id \in DOMAIN node /\ node[it.id].path = p /\ \A x \in pass.item : x = it
          /\ it.id # 0 /\ pass.next \in Nat
      BY <1>1, PassTyped, SomeRest DEF Fits, CarriedFits, ItemFits, Lies, Pass
    <3>6. entry[p] = NoEntry /\ entry[p].node = 0 /\ Current(it, pass.next)
      BY <1>1, <3>4, SomeRest DEF Known
    <3>7. ASSUME NEW n \in DOMAIN node, Tells(n, entry[node[n].path]), n # it.id
          PROVE  Tells(n, After(q, node[n].path))
      <4>1. CASE node[n].path # p
        BY <2>5, <3>7, <4>1
      <4>2. CASE node[n].path = p
        <5>1. ~node[n].live
          BY <1>1, <3>6, <3>7, <4>2, SomeRest DEF Tells
        <5> QED
          BY <2>2, <2>5, <3>7, <4>2, <5>1 DEF Tells
      <4> QED
        BY <4>1, <4>2
    <3>8. Due(it.id, pass.next) \/ Tells(it.id, After(q, p))
      BY <2>6, <3>6 DEF Current
    <3>9. \A n : Due(n, pass.next) => Due(n, cursor)
      <4>1. cursor \in Nat /\ DOMAIN log = 1..Len(log) /\ Len(log) \in Nat
        BY <1>1, SomeRest
      <4> QED
        BY <3>4, <3>5, <4>1 DEF Due
    <3>10. OwedAfter(q)
      <4> SUFFICES ASSUME NEW n \in DOMAIN node
                   PROVE  Due(n, cursor) \/ Tells(n, After(q, node[n].path))
        BY <3>3 DEF OwedAfter
      <4>1. Due(n, cursor) \/ Tells(n, entry[node[n].path])
        BY DEF Telling, Owed
      <4> QED
        BY <3>5, <3>7, <3>8, <3>9, <4>1
    <3>11. ASSUME NEW n \in DOMAIN node
           PROVE  \/ Due(n, pass.next) \/ Tells(n, After(q, node[n].path))
                  \/ \E x \in pass.nodes : x.id = n
      <4>1. CASE n = it.id
        BY <3>5, <3>8, <4>1
      <4>2. CASE n # it.id
        BY <3>3, <3>4, <3>5, <3>7, <4>2
      <4> QED
        BY <4>1, <4>2
    <3>12. ListTells(q)
      <4>1. \A i \in DOMAIN q.writes : q.writes[i].path = p
        BY <2>1, <2>2, <2>4
      <4> QED
        BY <3>1, <3>2, <3>4, <3>5, <3>11, <4>1 DEF ListTells
    <3>13. Clean(q)
      BY <2>1, <2>4, <3>1 DEF Clean
    <3>14. Told(q)
      BY <3>1, <3>2, <3>10, <3>12, <3>13 DEF Told, PageTells, RecordTells
    <3> QED
      BY <1>1, <2>3, <3>14, TellOnly
  <2> QED
    BY <2>7, <2>8
<1> QED
  BY <1>2, <1>3, <1>4

---------------------------------------------------------------------------
(* Telling: polls.                                                         *)

LEMMA RestNext ==
    (/\ Owed /\ pass.writes = <<>>
     /\ \/ pass.pc \in {"idle", "walk", "push", "commit", "trash"}
        \/ pass.pc \in {"poll", "rows"} /\ pass.item = {} /\ pass.page = <<>>
     => Told(pass))'
<1>1. /\ Owed /\ pass.writes = <<>>
      /\ \/ pass.pc \in {"idle", "walk", "push", "commit", "trash"}
         \/ pass.pc \in {"poll", "rows"} /\ pass.item = {} /\ pass.page = <<>>
      => Told(pass)
  BY RestTold
<1> QED
  BY <1>1, PTL

LEMMA PageRows ==
    ASSUME StepInv, Kept, cursor <= Len(log)
    PROVE  LET page == ChangesSince(cursor, PageLimit) IN
           /\ page \in Seq(Change) /\ Len(page) \in Nat /\ cursor + Len(page) <= Len(log)
           /\ \A i \in DOMAIN page : page[i] = ChangeOf(cursor + i) /\ cursor + i \in DOMAIN log
           /\ page # <<>> => Last(page).seq = cursor + Len(page)
<1> DEFINE rows == IF PageLimit < Len(log) - cursor THEN PageLimit ELSE Len(log) - cursor
           page == ChangesSince(cursor, PageLimit)
<1>1. pruned = 0 /\ cursor \in Nat /\ Len(log) \in Nat /\ PageLimit \in Nat /\ DOMAIN log = 1..Len(log)
  BY SomeRest, ClientConstants DEF Kept, Counted
<1>2. (IF cursor > pruned THEN cursor ELSE pruned) = cursor
  BY <1>1
<1>3. page = [i \in 1..rows |-> ChangeOf(cursor + i)]
  BY <1>2 DEF ChangesSince
<1>4. rows \in Nat /\ cursor + rows <= Len(log)
  BY <1>1
<1>5. page \in Seq(Change)
  BY <1>1, ChangesTyped DEF StepInv
<1> HIDE DEF rows, page
<1>6. DOMAIN page = 1..rows /\ Len(page) = rows
  BY <1>3, <1>4, <1>5
<1>7. \A i \in DOMAIN page : page[i] = ChangeOf(cursor + i) /\ cursor + i \in DOMAIN log
  BY <1>1, <1>3, <1>4, <1>6
<1>8. ASSUME page # <<>> PROVE Last(page).seq = cursor + Len(page)
  <2>1. rows \in DOMAIN page
    BY <1>4, <1>5, <1>6, <1>8
  <2>2. Last(page) = ChangeOf(cursor + rows)
    BY <1>6, <1>7, <2>1 DEF Last
  <2> QED
    BY <1>6, <2>2 DEF ChangeOf
<1> QED
  BY <1>4, <1>5, <1>6, <1>7, <1>8 DEF page

\* A row as it is sent, with the node as it is now.
LEMMA SentTells ==
    ASSUME StepInv, Kept, RowsTell, NEW s \in DOMAIN log
    PROVE  RowTells(ChangeOf(s), s)
<1> DEFINE n == log[s].node
<1>1. n \in DOMAIN node
  BY DEF Kept, RowsLie
<1>2. /\ ChangeOf(s).node = n /\ ChangeOf(s).kind = log[s].kind
      /\ ChangeOf(s).now = IF log[s].kind = "upsert" THEN GetLive(n) ELSE {}
  BY DEF ChangeOf
<1>3. (log[s].kind = "upsert" <=> node[n].live) \/ Due(n, s)
  BY <1>1 DEF RowsTell
<1>4. ASSUME NEW it \in GetLive(n) PROVE it.id = n /\ Current(it, s)
  <2>1. it.id = n /\ node[n].live /\ it.path = node[n].path /\ it.content = node[n].content
    BY DEF GetLive
  <2>2. Alone(it, s)
    BY <1>1, <2>1 DEF Alone, RowsTell
  <2> QED
    BY <2>1, <2>2 DEF Current
<1>5. node[n].live => GetLive(n) # {}
  BY <1>1 DEF GetLive
<1> QED
  BY <1>2, <1>3, <1>4, <1>5 DEF RowTells

LEMMA PollTells ==
    ASSUME Keeping, Telling, LatestHead \/ PollHead \/ PollRows
    PROVE  Telling'
<1>1. /\ pass \in Pass /\ pass.writes = <<>> /\ StepInv /\ Kept /\ Owed
      /\ cursor <= Len(log) /\ cursor \in Nat /\ Len(log) \in Nat
      /\ UNCHANGED <<node, log, entry, cursor>>
  BY PassTyped, SomeRest
     DEF Keeping, Telling, LatestHead, PollHead, PollRows, On, LeavesState, LeavesServer
<1>2. CASE LatestHead
  <2> DEFINE q == [pass EXCEPT !.pc = "list", !.next = LatestSeq]
  <2>1. /\ q.pc = "list" /\ q.writes = <<>> /\ q.page = pass.page /\ q.item = pass.item
        /\ q.next = Len(log) /\ pass' = q /\ pass.pc = "head"
    BY <1>1, <1>2 DEF LatestHead, On, Pass, LatestSeq
  <2> HIDE DEF q
  <2>2. pass.item = {} /\ pass.page = <<>> /\ \A p \in Path : ~Known(p)
    BY <2>1 DEF Telling, Told, Clean, ListTells
  <2>3. ~Polling(q) /\ ~Listing(q)
    BY <2>1 DEF Polling, Listing, Transferring
  <2>4. OwedAfter(q)
    BY <1>1, <2>1, <2>3 DEF Owed, OwedAfter, Base, After
  <2>5. Clean(q)
    BY <2>1, <2>2, <2>3 DEF Clean
  <2>6. Told(q)
    BY <1>1, <2>1, <2>2, <2>3, <2>4, <2>5 DEF Told, PageTells, ListTells, RecordTells
  <2> QED
    BY <1>1, <2>1, <2>6, TellOnly
<1>3. CASE PollHead
  <2> DEFINE q == [pass EXCEPT !.pc = "rows"]
  <2>1. /\ q.pc = "rows" /\ q.writes = <<>> /\ q.page = pass.page /\ q.item = pass.item
        /\ pass' = q /\ pass.pc = "poll"
    BY <1>1, <1>3, NoReset DEF PollHead, On, Pass
  <2> HIDE DEF q
  <2>2. pass.item = {} /\ pass.page = <<>>
    BY <2>1 DEF Telling, Told, Clean
  <2>3. Told(q)
    BY <1>1, <2>1, <2>2, RestTold
  <2> QED
    BY <1>1, <2>1, <2>3, TellOnly
<1>4. CASE PollRows
  <2> DEFINE page == ChangesSince(cursor, PageLimit)
             q == pass'
  <2>1. /\ page \in Seq(Change) /\ Len(page) \in Nat /\ cursor + Len(page) <= Len(log)
        /\ \A i \in DOMAIN page : page[i] = ChangeOf(cursor + i) /\ cursor + i \in DOMAIN log
        /\ page # <<>> => Last(page).seq = cursor + Len(page)
    BY <1>1, PageRows
  <2>2. pass.item = {}
    BY <1>4 DEF PollRows, On, Telling, Told, Clean
  <2> HIDE DEF page
  <2>3. Received(page)
    BY <1>4 DEF PollRows, page
  <2>4. /\ q.pc = "apply" /\ q.writes = <<>> /\ q.page = page /\ q.item = {}
        /\ q.next = IF page = <<>> THEN cursor ELSE Last(page).seq
    BY <1>1, <2>2, <2>3 DEF Received, Pass
  <2> HIDE DEF q
  <2>5. Polling(q) /\ ~Listing(q)
    BY <2>4 DEF Polling, Listing, Transferring
  <2>6. q.next = cursor + Len(page)
    <3>1. page = <<>> => Len(page) = 0
      OBVIOUS
    <3> QED
      BY <1>1, <2>1, <2>4, <3>1
  <2>7. Base(q) = cursor
    BY <1>1, <2>1, <2>4, <2>5, <2>6 DEF Base
  <2>8. OwedAfter(q)
    BY <1>1, <2>4, <2>7 DEF Owed, OwedAfter, After
  <2>9. \A i \in DOMAIN page : RowTells(page[i], cursor + i)
    BY <1>1, <2>1, SentTells DEF Telling
  <2>10. PageTells(q)
    BY <1>1, <2>1, <2>4, <2>6, <2>7, <2>9 DEF PageTells
  <2>11. Told(q)
    BY <2>4, <2>5, <2>8, <2>10 DEF Told, Clean, ListTells, RecordTells
  <2> QED
    BY <1>1, <2>11, TellOnly DEF q
<1> QED
  BY <1>2, <1>3, <1>4

\* What was told before the write or the save is told by it.
LEMMA SaveTells ==
    ASSUME Keeping, Telling, SavePage \/ SaveHead
    PROVE  Telling'
<1>1. /\ pass \in Pass /\ pass.writes = <<>> /\ StepInv /\ pass.next \in Nat
      /\ UNCHANGED <<node, log, entry>> /\ cursor' = pass.next /\ pass.item = {} /\ pass.page = <<>>
  BY PassTyped DEF Keeping, SavePage, SaveHead, On, LeavesServer, Telling, Told, Clean, Pass
<1>2. \A p : After(pass, p) = entry[p]
  BY <1>1 DEF After
<1>3. pass.next <= Len(log) /\ \A n \in DOMAIN node : Due(n, pass.next) \/ Tells(n, entry[node[n].path])
  <2>1. CASE SavePage
    <3>1. Polling(pass)
      BY <2>1 DEF SavePage, On, Polling
    <3>2. Len(pass.page) = 0
      BY <1>1
    <3>3. Base(pass) = pass.next
      BY <1>1, <3>1, <3>2 DEF Base
    <3> QED
      BY <1>2, <3>1, <3>3 DEF Telling, Told, OwedAfter, PageTells
  <2>2. CASE SaveHead
    <3>1. Listing(pass) /\ pass.pc = "vanish"
      BY <2>2 DEF SaveHead, On, Listing
    <3>2. pass.nodes = {}
      BY <3>1 DEF Telling, Told, ListTells
    <3> QED
      BY <1>1, <1>2, <3>1, <3>2 DEF Telling, Told, ListTells
  <2> QED
    BY <2>1, <2>2
<1>4. \A n, s : Due(n, s)' <=> Due(n, s)
  BY <1>1 DEF Due
<1>5. RowsTell' /\ cursor' <= Len(log')
  BY <1>1, <1>3, <1>4 DEF Telling, RowsTell
<1>6. Owed'
  BY <1>1, <1>3, <1>4 DEF Owed, Tells
<1>7. pass' = Pulled \/ pass' = [pass EXCEPT !.pc = "poll", !.more = FALSE, !.next = 0]
  BY DEF SavePage, SaveHead
<1>8. /\ pass'.writes = <<>>
      /\ \/ pass'.pc \in {"idle", "walk"}
         \/ pass'.pc = "poll" /\ pass'.item = {} /\ pass'.page = <<>>
  <2>1. CASE pass' = Pulled
    BY <2>1 DEF Pulled, Idle
  <2>2. CASE pass' = [pass EXCEPT !.pc = "poll", !.more = FALSE, !.next = 0]
    BY <1>1, <2>2 DEF Pass
  <2> QED
    BY <1>7, <2>1, <2>2
<1>9. Told(pass)'
  BY <1>6, <1>8, RestNext
<1> QED
  BY <1>5, <1>6, <1>9 DEF Telling

---------------------------------------------------------------------------
(* Telling: the walk.                                                      *)

\* A visit takes a node off the list and transfers it, or has nothing to do as it is due again.
LEMMA VisitTells ==
    ASSUME Keeping, Telling, pass.pc = "mat", pass.writes = <<>>, NEW it \in pass.nodes,
           NEW q, q.writes = <<>>, q.page = pass.page, q.next = pass.next, q.seen = pass.seen,
           q.nodes = pass.nodes \ {it},
           \/ q.pc = "mat" /\ q.item = {} /\ Due(it.id, pass.next)
           \/ q.pc = "fetch" /\ q.item = {it}
    PROVE  Told(q)
<1>1. pass.item = {} /\ pass.page = <<>> /\ Listing(pass) /\ ~Polling(pass)
  BY DEF Telling, Told, Clean, Listing, Polling, Transferring
<1>2. Listing(q) /\ ~Polling(q) /\ q.pc \notin {"head", "list", "vanish", "record", "apply"}
  BY <1>1 DEF Listing, Polling, Transferring
<1>3. Base(q) = Base(pass) /\ \A p : After(q, p) = After(pass, p)
  BY <1>1, <1>2 DEF Base, After
<1>4. OwedAfter(q)
  BY <1>3 DEF Telling, Told, OwedAfter
<1>5. /\ cursor <= pass.next /\ pass.next <= Len(log)
      /\ \A r \in Path : Known(r) => r \in pass.seen
      /\ \A x \in pass.nodes : Current(x, pass.next) /\ ~Known(x.path) /\ x.path \in pass.seen
      /\ \A a, b \in pass.nodes : a.path = b.path => a = b
      /\ \A n \in DOMAIN node :
           \/ Due(n, pass.next) \/ Tells(n, After(pass, node[n].path))
           \/ \E x \in pass.nodes : x.id = n
  BY <1>1 DEF Telling, Told, ListTells
<1>6. q.item \subseteq {it} /\ q.nodes \cup q.item \subseteq pass.nodes
  OBVIOUS
<1>7. ASSUME NEW n \in DOMAIN node
      PROVE  \/ Due(n, q.next) \/ Tells(n, After(q, node[n].path))
             \/ \E x \in q.nodes \cup q.item : x.id = n
  BY <1>3, <1>5
<1>8. ListTells(q)
  BY <1>2, <1>5, <1>6, <1>7 DEF ListTells
<1>9. Clean(q)
  BY <1>1, <1>2 DEF Clean
<1> QED
  BY <1>2, <1>4, <1>8, <1>9 DEF Told, PageTells, RecordTells

LEMMA WalkTells ==
    ASSUME Keeping, Telling, ListChildren \/ MaterializeFile \/ ListEntries \/ RemoveVanished
    PROVE  Telling'
<1>1. /\ pass \in Pass /\ pass.writes = <<>> /\ StepInv /\ Kept /\ Owed
      /\ pass.next \in Nat
  BY PassTyped
     DEF Keeping, Telling, ListChildren, MaterializeFile, ListEntries, RemoveVanished, On, Pass
<1>2. CASE ListChildren
  <2> DEFINE live == UNION {GetLive(n) : n \in DOMAIN node}
             q == [pass EXCEPT !.pc = "mat", !.nodes = live, !.seen = {it.path : it \in live}]
  <2>1. /\ q.pc = "mat" /\ q.writes = <<>> /\ q.page = pass.page /\ q.item = pass.item
        /\ q.next = pass.next /\ q.nodes = live /\ q.seen = {it.path : it \in live}
        /\ pass' = q /\ pass.pc = "list" /\ UNCHANGED <<node, log, entry, cursor>>
    BY <1>1, <1>2 DEF ListChildren, On, Pass, LeavesState, LeavesServer
  <2>2. ASSUME NEW it \in live
        PROVE  /\ it.id \in DOMAIN node /\ node[it.id].live
               /\ it.path = node[it.id].path /\ it.content = node[it.id].content
               /\ it = [id |-> it.id, path |-> node[it.id].path, content |-> node[it.id].content]
    <3>1. PICK n \in DOMAIN node : it \in GetLive(n)
      OBVIOUS
    <3> QED
      BY <3>1 DEF GetLive
  <2>3. \A n \in DOMAIN node : node[n].live => \E it \in live : it.id = n
    <3> TAKE n \in DOMAIN node
    <3> DEFINE it == [id |-> n, path |-> node[n].path, content |-> node[n].content]
    <3>1. node[n].live => it \in GetLive(n) /\ it.id = n
      BY DEF GetLive
    <3> QED
      BY <3>1
  <2> HIDE DEF live, q
  <2>4. /\ pass.item = {} /\ pass.page = <<>> /\ \A p \in Path : ~Known(p)
        /\ cursor <= pass.next /\ pass.next <= Len(log)
    BY <2>1 DEF Telling, Told, Clean, ListTells
  <2>5. Listing(q) /\ ~Polling(q)
    BY <2>1 DEF Listing, Polling, Transferring
  <2>6. \A p : After(q, p) = entry[p]
    BY <2>1 DEF After
  <2>7. OwedAfter(q)
    BY <1>1, <2>5, <2>6 DEF Owed, OwedAfter, Base
  <2>8. \A it \in live : Current(it, q.next) /\ ~Known(it.path) /\ it.path \in q.seen
    <3> TAKE it \in live
    <3>1. Alone(it, q.next)
      BY <1>1, <2>2 DEF Alone, StepInv, ServerInv
    <3>2. it.path \in Path
      BY <1>1, <2>2, SomeRest
    <3> QED
      BY <2>1, <2>2, <2>4, <3>1, <3>2 DEF Current
  <2>9. \A a, b \in live : a.path = b.path => a = b
    <3> SUFFICES ASSUME NEW a \in live, NEW b \in live, a.path = b.path PROVE a = b
      OBVIOUS
    <3>1. a.id = b.id
      BY <1>1, <2>2 DEF StepInv, ServerInv
    <3> QED
      BY <2>2, <3>1
  <2>10. ASSUME NEW n \in DOMAIN node
         PROVE  Tells(n, After(q, node[n].path)) \/ \E it \in live : it.id = n
    <3>1. entry[node[n].path].node # n
      BY <1>1, <2>4, SomeRest DEF Known
    <3> QED
      BY <2>3, <2>6, <3>1 DEF Tells
  <2>11. ListTells(q)
    BY <2>1, <2>4, <2>5, <2>8, <2>9, <2>10 DEF ListTells
  <2>12. Clean(q)
    BY <2>1, <2>4 DEF Clean
  <2>13. Told(q)
    BY <2>1, <2>5, <2>7, <2>11, <2>12 DEF Told, PageTells, RecordTells
  <2> QED
    BY <2>1, <2>13, TellOnly
<1>3. CASE MaterializeFile
  <2>1. /\ pass.pc = "mat" /\ UNCHANGED <<node, log, entry, cursor>>
    BY <1>3 DEF MaterializeFile, On, LeavesState, LeavesServer
  <2>2. PICK it \in pass.nodes :
          \/ /\ entry[it.path].remote = it.content
             /\ pass' = [pass EXCEPT !.nodes = @ \ {it}]
          \/ pass' = [[pass EXCEPT !.nodes = @ \ {it}] EXCEPT !.pc = "fetch", !.item = {it}]
    BY <1>3, Zenon DEF MaterializeFile
  <2> DEFINE q == pass'
  <2>3. /\ q.writes = <<>> /\ q.page = pass.page /\ q.next = pass.next /\ q.seen = pass.seen
        /\ q.nodes = pass.nodes \ {it}
        /\ \/ q.pc = "mat" /\ q.item = pass.item /\ entry[it.path].remote = it.content
           \/ q.pc = "fetch" /\ q.item = {it}
    BY <1>1, <2>1, <2>2 DEF Pass
  <2>4. pass.item = {} /\ ~Known(it.path) /\ Current(it, pass.next)
    BY <2>1 DEF Telling, Told, Clean, ListTells, Listing
  <2>5. it.id \in DOMAIN node
    BY <1>1, <2>1 DEF Keeping, Fits, WalkFits, ListFits, Lies
  <2>6. ASSUME entry[it.path].remote = it.content PROVE Due(it.id, pass.next)
    <3>1. it.content = 0
      BY <1>1, <2>4, <2>6, SomeRest DEF Known
    <3>2. node[it.id].content # 0
      BY <1>1, <2>5 DEF StepInv, ServerInv, NodesStored, Kept, Counted
    <3> QED
      BY <2>4, <3>1, <3>2 DEF Current
  <2> HIDE DEF q
  <2>7. Told(q)
    BY <1>1, <2>1, <2>3, <2>4, <2>6, VisitTells
  <2> QED
    BY <2>1, <2>7, TellOnly DEF q
<1>4. CASE ListEntries
  <2> DEFINE gone == {p \in Path : Known(p) /\ p \notin pass.seen}
             q == [pass EXCEPT !.pc = "vanish", !.paths = gone]
  <2>1. /\ q.pc = "vanish" /\ q.writes = <<>> /\ q.page = pass.page /\ q.item = pass.item
        /\ q.next = pass.next /\ q.nodes = pass.nodes /\ q.seen = pass.seen /\ q.paths = gone
        /\ pass' = q /\ pass.pc = "mat" /\ pass.nodes = {} /\ UNCHANGED <<node, log, entry, cursor>>
    BY <1>1, <1>4 DEF ListEntries, On, Pass, LeavesState, LeavesServer
  <2>2. Listing(pass) /\ pass.item = {} /\ pass.page = <<>>
    BY <2>1 DEF Listing, Telling, Told, Clean
  <2>3. gone = {}
    BY <2>2 DEF Telling, Told, ListTells
  <2> HIDE DEF gone, q
  <2>4. Listing(q) /\ ~Polling(q) /\ ~Polling(pass)
    BY <2>1, <2>2 DEF Listing, Polling, Transferring
  <2>5. Base(q) = Base(pass) /\ \A p : After(q, p) = After(pass, p)
    BY <1>1, <2>1, <2>4 DEF Base, After
  <2>6. OwedAfter(q)
    BY <2>5 DEF Telling, Told, OwedAfter
  <2>7. ListTells(q)
    BY <1>1, <2>1, <2>2, <2>3, <2>4, <2>5 DEF Telling, Told, ListTells
  <2>8. Clean(q)
    BY <2>1, <2>2 DEF Clean
  <2>9. Told(q)
    BY <2>1, <2>4, <2>6, <2>7, <2>8 DEF Told, PageTells, RecordTells
  <2> QED
    BY <2>1, <2>9, TellOnly
<1>5. CASE RemoveVanished
  <2>1. pass.pc = "vanish" /\ pass.paths # {}
    BY <1>5 DEF RemoveVanished, On
  <2> QED
    BY <2>1 DEF Telling, Told, ListTells, Listing
<1> QED
  BY <1>2, <1>3, <1>4, <1>5

---------------------------------------------------------------------------
(* Telling: the write, and the push.                                       *)

LEMMA StateWriteTells ==
    ASSUME Keeping, Telling, StateWrite
    PROVE  Telling'
<1> DEFINE w == Head(pass.writes)
<1>1. /\ pass \in Pass /\ pass.writes # <<>> /\ pass.writes \in Seq(Record) /\ StepInv
      /\ entry' = [entry EXCEPT ![w.path] = w.entry] /\ pass' = [pass EXCEPT !.writes = Tail(@)]
      /\ UNCHANGED <<node, log, cursor>> /\ entry \in [Path -> Entry] /\ Len(pass.writes) <= 1
  BY PassTyped DEF Keeping, StateWrite, LeavesServer, Pass, StepInv, StateInv, Telling, Told, Clean
<1>2. w = pass.writes[1] /\ 1 \in DOMAIN pass.writes /\ Tail(pass.writes) = <<>>
  BY <1>1
<1>3. \A p \in Path : entry'[p] = After(pass, p)
  BY <1>1 DEF After
<1> HIDE DEF w
<1>4. /\ pass'.pc = pass.pc /\ pass'.page = pass.page /\ pass'.item = pass.item
      /\ pass'.nodes = pass.nodes /\ pass'.paths = pass.paths /\ pass'.seen = pass.seen
      /\ pass'.next = pass.next /\ pass'.writes = <<>>
  BY <1>1, <1>2 DEF Pass
<1>5. /\ \A n, s : Due(n, s)' <=> Due(n, s)
      /\ \A n, e : Tells(n, e)' <=> Tells(n, e)
  BY <1>1 DEF Due, Tells
<1>6. \A it, s : (Alone(it, s)' <=> Alone(it, s)) /\ (Current(it, s)' <=> Current(it, s))
  BY <1>1, <1>5 DEF Alone, Current
<1>7. Base(pass)' = Base(pass) /\ \A p : After(pass, p)' = entry'[p]
  BY <1>1, <1>4 DEF Base, After, Polling, Transferring
<1>8. \A n \in DOMAIN node : node[n].path \in Path
  BY <1>1, SomeRest
<1>9. OwedAfter(pass)'
  BY <1>1, <1>3, <1>5, <1>7, <1>8 DEF Telling, Told, OwedAfter, Tells
<1>10. Owed'
  <2>1. \A n : Due(n, Base(pass)) => Due(n, cursor)
    <3>1. CASE Polling(pass)
      <4>1. /\ cursor <= Base(pass) /\ Base(pass) \in Int /\ cursor \in Nat
            /\ DOMAIN log = 1..Len(log) /\ Len(log) \in Nat
        BY <1>1, <3>1, SomeRest DEF Telling, Told, PageTells, Base, Pass
      <4> QED
        BY <4>1 DEF Due
    <3>2. CASE ~Polling(pass)
      BY <3>2 DEF Base
    <3> QED
      BY <3>1, <3>2
  <2> QED
    BY <1>1, <1>3, <1>5, <1>8, <2>1 DEF Telling, Told, OwedAfter, Owed, Tells, Due
<1>11. PageTells(pass)'
  BY <1>1, <1>4, <1>5, <1>6, <1>7 DEF Telling, Told, PageTells, RowTells, Polling, Transferring
<1>12. RecordTells(pass)'
  BY <1>1, <1>4, <1>5, <1>6 DEF Telling, Told, RecordTells, Due, Alone
<1>13. Clean(pass)'
  BY <1>4 DEF Telling, Told, Clean
<1>14. ListTells(pass)'
  <2>1. Listing(pass)' => Listing(pass)
    BY <1>4 DEF Listing, Transferring
  <2>2. (Listing(pass) \/ pass.pc \in {"head", "list"}) => pass.pc = "mat" /\ Listing(pass)
    BY <1>1 DEF Telling, Told, Clean, Listing
  <2>3. CASE Listing(pass)
    <3>1. /\ pass.pc = "mat" /\ pass.item = {}
          /\ cursor <= pass.next /\ pass.next <= Len(log)
          /\ \A p \in Path : Known(p) => p \in pass.seen
          /\ w.path \in pass.seen
          /\ \A it \in pass.nodes :
               Current(it, pass.next) /\ ~Known(it.path) /\ it.path \in pass.seen /\ w.path # it.path
          /\ \A a, b \in pass.nodes : a.path = b.path => a = b
          /\ \A n \in DOMAIN node :
               \/ Due(n, pass.next) \/ Tells(n, After(pass, node[n].path))
               \/ \E it \in pass.nodes : it.id = n
      BY <1>2, <2>2, <2>3 DEF Telling, Told, Clean, ListTells
    <3>2. \A p \in Path : Known(p)' => p \in pass.seen
      BY <1>1, <3>1 DEF Known
    <3>3. \A it \in pass.nodes : it.path \in Path
      BY <1>1 DEF Pass, Item
    <3>4. \A it \in pass.nodes : ~Known(it.path)'
      BY <1>1, <3>1, <3>3 DEF Known
    <3>5. \A n \in DOMAIN node :
            \/ Due(n, pass.next) \/ Tells(n, entry'[node[n].path])
            \/ \E it \in pass.nodes : it.id = n
      BY <1>3, <1>8, <3>1
    <3> QED
      BY <1>1, <1>4, <1>5, <1>6, <1>7, <3>1, <3>2, <3>4, <3>5 DEF ListTells, Tells, Known
  <2>4. CASE ~Listing(pass)
    BY <1>4, <2>1, <2>2, <2>4, <1>1 DEF Telling, Told, ListTells
  <2> QED
    BY <2>3, <2>4
<1>15. RowsTell' /\ cursor' <= Len(log')
  BY <1>1, <1>5 DEF Telling, RowsTell
<1> QED
  BY <1>9, <1>10, <1>11, <1>12, <1>13, <1>14, <1>15 DEF Telling, Told

LEMMA PushTells ==
    ASSUME Keeping, Telling, Walk \/ PushFile \/ ListGone \/ PushEnds \/ PassFails
    PROVE  Telling'
<1>1. pass \in Pass /\ Owed /\ UNCHANGED <<node, log, entry, cursor>>
  BY PassTyped
     DEF Keeping, Telling, Walk, PushFile, ListGone, PushEnds, PassFails, LeavesState, LeavesServer
<1> DEFINE q == pass'
<1>2. q.writes = <<>> /\ q.pc \in {"idle", "push", "commit", "trash"}
  <2>1. CASE Walk \/ ListGone
    BY <1>1, <2>1 DEF Walk, ListGone, On, Pass
  <2>2. CASE PushEnds \/ PassFails
    BY <2>2 DEF PushEnds, PassFails, Idle
  <2>3. CASE PushFile
    <3>1. PICK p \in pass.paths :
            LET rest == [pass EXCEPT !.paths = @ \ {p}] IN
            \/ pass' = rest
            \/ pass' = Idle
            \/ pass' = [rest EXCEPT !.pc = "commit", !.got = disk[p].content,
                                    !.item = {[id |-> 0, path |-> p, content |-> 0]}]
      BY <2>3, Zenon DEF PushFile
    <3>2. pass.pc = "push" /\ pass.writes = <<>>
      BY <2>3 DEF PushFile, On
    <3> DEFINE rest == [pass EXCEPT !.paths = @ \ {p}]
    <3>3. rest.pc = "push" /\ rest.writes = <<>> /\ rest \in Pass
      BY <1>1, <3>2 DEF Pass
    <3> HIDE DEF rest
    <3>4. CASE pass' = Idle
      BY <3>4 DEF Idle
    <3>5. CASE pass' = rest
      BY <3>3, <3>5
    <3>6. CASE pass' = [rest EXCEPT !.pc = "commit", !.got = disk[p].content,
                                    !.item = {[id |-> 0, path |-> p, content |-> 0]}]
      BY <3>3, <3>6 DEF Pass
    <3> QED
      BY <3>1, <3>4, <3>5, <3>6 DEF rest
  <2> QED
    BY <2>1, <2>2, <2>3
<1> HIDE DEF q
<1>3. Told(q)
  BY <1>1, <1>2, RestTold
<1> QED
  BY <1>1, <1>3, TellOnly DEF q

\* Between two steps of a push.
LEMMA PushingTold ==
    ASSUME NEW q, q.pc \in {"push", "trash", "record"}, Len(q.writes) <= 1, OwedAfter(q), RecordTells(q)
    PROVE  Told(q)
<1>1. ~Polling(q) /\ ~Listing(q) /\ q.pc \notin {"head", "list", "apply"}
  BY DEF Polling, Listing, Transferring
<1> QED
  BY <1>1 DEF Told, Clean, PageTells, ListTells

LEMMA PushingNext ==
    (pass.pc \in {"push", "trash", "record"} /\ Len(pass.writes) <= 1 /\ OwedAfter(pass)
       /\ RecordTells(pass) => Told(pass))'
<1>1. pass.pc \in {"push", "trash", "record"} /\ Len(pass.writes) <= 1 /\ OwedAfter(pass)
        /\ RecordTells(pass) => Told(pass)
  BY PushingTold
<1> QED
  BY <1>1, PTL

\* The record of an upload names the node that the upload's row is of.
LEMMA StatPushedTells ==
    ASSUME Keeping, Telling, StatPushed
    PROVE  Telling'
<1>1. /\ pass \in Pass /\ pass.pc = "record" /\ StepInv /\ Owed
      /\ UNCHANGED <<node, log, entry, cursor>>
  BY PassTyped DEF Keeping, Telling, StatPushed, On, LeavesState, LeavesServer
<1>2. PICK it \in pass.item :
         pass' \in {Idle, [pass EXCEPT !.pc = "push", !.item = {}, !.got = 0,
                                       !.writes = <<RecordOf(it)>>]}
  BY Zenon DEF StatPushed
<1>3. CASE pass' = Idle
  BY <1>1, <1>3, IdleTold, TellOnly
<1>4. CASE pass' = [pass EXCEPT !.pc = "push", !.item = {}, !.got = 0, !.writes = <<RecordOf(it)>>]
  <2> DEFINE r == RecordOf(it)
             ws == <<r>>
             q == pass'
  <2>1. ws # <<>> /\ Head(ws) = r /\ Len(ws) <= 1
    OBVIOUS
  <2>2. r.path = it.path /\ r.entry.node = it.id
    BY DEF RecordOf, Put
  <2> HIDE DEF ws, r
  <2>3. q.pc = "push" /\ q.writes = ws
    BY <1>1, <1>4 DEF Pass, ws, r
  <2> HIDE DEF q
  <2>4. Base(q) = cursor
    BY <2>3 DEF Base, Polling, Transferring
  <2>5. \A p : After(q, p) = IF p = it.path THEN r.entry ELSE entry[p]
    BY <2>1, <2>2, <2>3 DEF After
  <2>6. Due(it.id, cursor) /\ Alone(it, cursor)
    BY <1>1 DEF Telling, Told, RecordTells
  <2>7. ASSUME NEW n \in DOMAIN node PROVE Due(n, cursor) \/ Tells(n, After(q, node[n].path))
    <3>1. CASE node[n].path # it.path
      BY <1>1, <2>5, <3>1 DEF Owed
    <3>2. CASE node[n].path = it.path
      BY <2>2, <2>5, <2>6, <3>2 DEF Alone, Tells
    <3> QED
      BY <3>1, <3>2
  <2>8. OwedAfter(q)
    BY <2>4, <2>7 DEF OwedAfter
  <2>9. RecordTells(q) /\ Len(q.writes) <= 1
    <3>1. Len(q.writes) <= 1
      BY <2>1, <2>3
    <3>2. q.pc # "record"
      BY <2>3
    <3>3. RecordTells(q)
      BY <3>2 DEF RecordTells
    <3> QED
      BY <3>1, <3>3
  <2>10. Told(q)
    BY <2>3, <2>8, <2>9, PushingTold
  <2> QED
    BY <1>1, <2>10, TellOnly DEF q
<1> QED
  BY <1>2, <1>3, <1>4

---------------------------------------------------------------------------
(* Telling: the server moves on.                                           *)

\* The rows so far are at most as many as there are.
LEMMA BaseIs ==
    ASSUME StepInv, Telling
    PROVE  Base(pass) \in Int /\ cursor <= Base(pass) /\ Base(pass) <= Len(log)
<1>1. cursor \in Nat /\ Len(log) \in Nat /\ cursor <= Len(log)
  BY SomeRest DEF Telling
<1>2. pass.next \in Nat /\ Len(pass.page) \in Nat
  BY PassTyped DEF Pass
<1>3. CASE Polling(pass)
  <2>1. cursor <= Base(pass) /\ pass.next <= Len(log)
    BY <1>3 DEF Telling, Told, PageTells
  <2> QED
    BY <1>1, <1>2, <1>3, <2>1 DEF Base
<1>4. CASE ~Polling(pass)
  BY <1>1, <1>4 DEF Base
<1> QED
  BY <1>3, <1>4

LEMMA TouchOwed ==
    ASSUME StepInv, Telling, NEW n, Touches(n)
    PROVE  Owed' /\ cursor' = cursor /\ entry' = entry /\ cursor' <= Len(log')
<1>1. cursor \in Nat /\ cursor <= Len(log)
  BY SomeRest DEF Telling
<1>2. UNCHANGED <<entry, cursor>> /\ Len(log) \in Nat /\ Len(log') \in Nat /\ Len(log) < Len(log')
  BY DEF Touches
<1>3. ASSUME NEW m \in DOMAIN node' PROVE Due(m, cursor)' \/ Tells(m, entry[node[m].path])'
  <2> SUFFICES ASSUME NEW s, s = cursor, NEW e, e = entry[node'[m].path]
               PROVE  (Due(m, s) \/ Tells(m, e))'
    BY <1>2 DEF Due, Tells
  <2>1. m \in DOMAIN node => node'[m].path = node[m].path
    BY DEF Touches
  <2>2. m \in DOMAIN node => Due(m, s) \/ Tells(m, e)
    BY <2>1 DEF Telling, Owed
  <2> QED
    BY <1>1, <2>2, TouchTells
<1> QED
  BY <1>1, <1>2, <1>3 DEF Owed

LEMMA TouchTold ==
    ASSUME Keeping, StepInv', Telling, NEW n, Touches(n), pass' = pass
    PROVE  Telling'
<1>1. /\ StepInv /\ Kept /\ Fits(pass) /\ pass \in Pass /\ UNCHANGED <<entry, cursor>>
      /\ Len(log) \in Nat /\ Len(log') \in Nat /\ Len(log) < Len(log')
  BY PassTyped DEF Keeping, Touches
<1>2. Owed' /\ RowsTell' /\ cursor' <= Len(log')
  BY <1>1, TouchOwed, TouchRows DEF Kept, Telling
<1>3. Base(pass)' = Base(pass) /\ \A p : After(pass, p)' = After(pass, p)
  BY <1>1 DEF Base, After, Polling, Transferring
<1>4. Base(pass) \in Int /\ cursor <= Base(pass) /\ Base(pass) <= Len(log) /\ cursor \in Nat
      /\ cursor <= Len(log)
  BY <1>1, BaseIs, SomeRest DEF Telling
<1>5. \A m \in DOMAIN node' : m \in DOMAIN node => node'[m].path = node[m].path
  BY DEF Touches
<1>6. ASSUME NEW m \in DOMAIN node', NEW s \in Int, s <= Len(log), NEW e,
             m \in DOMAIN node => Due(m, s) \/ Tells(m, e)
      PROVE  (Due(m, s) \/ Tells(m, e))'
  BY <1>6, TouchTells
<1>7. OwedAfter(pass)'
  <2> SUFFICES ASSUME NEW m \in DOMAIN node', NEW s, s = Base(pass), NEW e,
                      e = After(pass, node'[m].path)
               PROVE  (Due(m, s) \/ Tells(m, e))'
    BY <1>3 DEF OwedAfter, Due, Tells
  <2>1. m \in DOMAIN node => Due(m, s) \/ Tells(m, e)
    BY <1>5 DEF Telling, Told, OwedAfter
  <2> QED
    BY <1>4, <1>6, <2>1
<1>8. PageTells(pass)'
  <2>1. Polling(pass)' <=> Polling(pass)
    BY DEF Polling, Transferring
  <2>2. CASE Polling(pass)
    <3>1. /\ pass.next <= Len(log) /\ pass.page \in Seq(Change) /\ pass.next \in Nat
          /\ \A i \in DOMAIN pass.page : RowTells(pass.page[i], Base(pass) + i)
          /\ pass.item \subseteq IF pass.page = <<>> THEN {} ELSE Head(pass.page).now
      BY <1>1, <2>2 DEF Telling, Told, PageTells, Pass
    <3>2. ASSUME NEW i \in DOMAIN pass.page, NEW s, s = Base(pass) + i
          PROVE  RowTells(pass.page[i], s)'
      <4> DEFINE ch == pass.page[i]
      <4>1. s \in DOMAIN log /\ s \in Int /\ s <= Len(log) /\ log'[s] = log[s]
        <5>1. i \in 1..Len(pass.page) /\ Base(pass) = pass.next - Len(pass.page) /\ Len(pass.page) \in Nat
          BY <2>2, <3>1 DEF Base
        <5>2. DOMAIN log = 1..Len(log)
          BY DEF Touches
        <5>3. s \in DOMAIN log
          BY <1>1, <1>4, <3>1, <3>2, <5>1, <5>2
        <5> QED
          BY <1>1, <5>2, <5>3 DEF Touches
      <4>2. RowTells(ch, s)
        BY <3>1, <3>2
      <4>3. ch.node \in DOMAIN node
        BY <1>1, <4>1, <4>2 DEF RowTells, Kept, RowsLie
      <4>4. Due(ch.node, s) => Due(ch.node, s)'
        BY TouchDue
      <4>5. \A it \in ch.now : Current(it, s)'
        BY <4>1, <4>2, <4>3, TouchCurrent DEF RowTells
      <4> HIDE DEF ch
      <4>6. (ch.node = log[s].node /\ ch.kind = log[s].kind)'
            <=> ch'.node = log[s].node /\ ch'.kind = log[s].kind
        BY <4>1
      <4>7. ch' = ch
        BY DEF ch
      <4> SUFFICES RowTells(ch, s)'
        BY DEF ch
      <4> QED
        BY <4>1, <4>2, <4>4, <4>5, <4>7 DEF RowTells
    <3>3. (\A i \in DOMAIN pass.page : RowTells(pass.page[i], Base(pass) + i))'
      BY <1>3, <3>2
    <3> QED
      BY <1>1, <1>3, <1>4, <2>1, <3>1, <3>3 DEF PageTells
  <2> QED
    BY <2>1, <2>2 DEF PageTells
<1>9. ListTells(pass)'
  <2>1. Listing(pass)' <=> Listing(pass)
    BY DEF Listing, Transferring
  <2>2. \A p : Known(p)' <=> Known(p)
    BY <1>1 DEF Known
  <2>3. pass.next \in Nat
    BY <1>1 DEF Pass
  <2>4. pass.pc = "list" \/ Listing(pass) => (cursor <= pass.next /\ pass.next <= Len(log))'
    BY <1>1, <2>3 DEF Telling, Told, ListTells
  <2>5. ASSUME Listing(pass), NEW it \in pass.nodes \cup pass.item
        PROVE  Current(it, pass.next)'
    <3> SUFFICES ASSUME NEW s, s = pass.next PROVE Current(it, s)'
      BY <2>3 DEF Current, Alone, Due
    <3>1. Current(it, s) /\ s <= Len(log)
      BY <2>5 DEF Telling, Told, ListTells
    <3>2. it.id \in DOMAIN node
      <4>1. CASE pass.pc = "vanish"
        BY <2>5, <4>1 DEF Telling, Told, ListTells, Clean
      <4>2. CASE pass.pc # "vanish"
        BY <1>1, <2>5, <4>2 DEF Listing, Fits, WalkFits, ListFits, Lies
      <4> QED
        BY <4>1, <4>2
    <3> QED
      BY <2>3, <3>1, <3>2, TouchCurrent
  <2>6. ASSUME Listing(pass), NEW m \in DOMAIN node'
        PROVE  \/ (Due(m, pass.next) \/ Tells(m, After(pass, node[m].path)))'
               \/ \E it \in pass.nodes \cup pass.item : it.id = m
    <3> SUFFICES ASSUME ~\E it \in pass.nodes \cup pass.item : it.id = m,
                        NEW s, s = pass.next, NEW e, e = After(pass, node'[m].path)
                 PROVE  (Due(m, s) \/ Tells(m, e))'
      BY <1>3 DEF Due, Tells
    <3>1. m \in DOMAIN node => Due(m, s) \/ Tells(m, e)
      BY <1>5, <2>6 DEF Telling, Told, ListTells
    <3>2. s <= Len(log)
      BY <2>6 DEF Telling, Told, ListTells
    <3> QED
      BY <1>6, <2>3, <3>1, <3>2
  <2> QED
    BY <2>1, <2>2, <2>4, <2>5, <2>6 DEF Telling, Told, ListTells
<1>10. RecordTells(pass)'
  <2> SUFFICES ASSUME pass.pc = "record", NEW it \in pass.item, NEW s, s = cursor
               PROVE  Due(it.id, s)' /\ Alone(it, s)'
    BY <1>1 DEF RecordTells, Due, Alone
  <2>1. Due(it.id, s) /\ Alone(it, s)
    BY DEF Telling, Told, RecordTells
  <2> QED
    BY <1>4, <2>1, TouchDue, TouchAlone
<1>11. Clean(pass)'
  BY DEF Telling, Told, Clean, Listing, Transferring
<1> QED
  BY <1>2, <1>7, <1>8, <1>9, <1>10, <1>11 DEF Telling, Told

\* An upload leaves a row of the node that its record will name.
LEMMA CommitTells ==
    ASSUME Keeping, StepInv', Telling, Commit
    PROVE  Telling'
<1>1. PICK it \in pass.item :
       LET ids == IF At(it.path) = {} THEN {Len(node) + 1} ELSE At(it.path) IN
       /\ PutFile(it.path, pass.got)
       /\ pass' = [pass EXCEPT !.pc = "record",
                     !.item = {[id |-> n, path |-> it.path, content |-> pass.got] : n \in ids}]
  BY Zenon DEF Commit
<1> DEFINE p == it.path
           ids == IF At(p) = {} THEN {Len(node) + 1} ELSE At(p)
           items == {[id |-> n, path |-> p, content |-> pass.got] : n \in ids}
<1>2. /\ pass \in Pass /\ pass.writes = <<>> /\ StepInv /\ Kept
      /\ p \in Path /\ pass.got \in Nat /\ UNCHANGED <<entry, cursor>>
  BY PassTyped DEF Keeping, Commit, On, LeavesState, Pass
<1>3. PICK n \in DOMAIN node' :
         /\ Touches(n) /\ node'[n].path = p /\ node'[n].live
         /\ IF At(p) = {} THEN n = Len(node) + 1 ELSE n \in At(p)
  BY <1>1, <1>2, PutTouches
<1>4. ids = {n}
  BY <1>2, <1>3 DEF At, StepInv, ServerInv
<1> HIDE DEF ids
<1>5. \A x \in items : x.id = n /\ x.path = p
  BY <1>4
<1>6. pass' = [pass EXCEPT !.pc = "record", !.item = items]
  BY <1>1 DEF ids
<1> HIDE DEF items
<1>7. pass'.pc = "record" /\ pass'.item = items /\ pass'.writes = <<>>
  BY <1>2, <1>6 DEF Pass
<1>8. Owed' /\ RowsTell' /\ cursor' <= Len(log') /\ cursor \in Nat /\ cursor <= Len(log)
  BY <1>2, <1>3, TouchOwed, TouchRows, SomeRest DEF Kept, Telling
<1>9. RecordTells(pass)'
  <2> SUFFICES ASSUME NEW x \in items, NEW s, s = cursor PROVE Due(x.id, s)' /\ Alone(x, s)'
    BY <1>2, <1>7 DEF RecordTells, Due, Alone
  <2>1. Due(x.id, s)'
    BY <1>3, <1>5, <1>8, TouchDue
  <2>2. Alone(x, s)'
    BY <1>3, <1>5 DEF Alone, StepInv, ServerInv
  <2> QED
    BY <2>1, <2>2
<1>10. OwedAfter(pass)'
  BY <1>7, <1>8 DEF Owed, OwedAfter, After, Base, Polling, Transferring
<1>11. Len(pass'.writes) <= 1
  BY <1>7
<1> QED
  BY <1>7, <1>8, <1>9, <1>10, <1>11, PushingNext DEF Telling

\* The entry of what was trashed goes; another node there would have a row to come.
LEMMA PushDeletionTells ==
    ASSUME Keeping, StepInv', Telling, PushDeletion
    PROVE  Telling'
<1>1. PICK p \in pass.paths :
         LET n == entry[p].node IN
         /\ IF n \in DOMAIN node /\ node[n].live THEN Trash(n) ELSE LeavesServer
         /\ pass' = [pass EXCEPT !.paths = @ \ {p}, !.writes = <<Forget(p)>>]
  BY Zenon DEF PushDeletion
<1> DEFINE n == entry[p].node
           ws == <<Forget(p)>>
<1>2. /\ pass \in Pass /\ pass.pc = "trash" /\ StepInv /\ Kept /\ Owed /\ UNCHANGED <<entry, cursor>>
  BY PassTyped DEF Keeping, PushDeletion, On, LeavesState, Telling
<1>3. ws # <<>> /\ Head(ws).path = p /\ Head(ws).entry = NoEntry /\ Len(ws) <= 1
  BY DEF Forget, Put
<1>4. pass' = [pass EXCEPT !.paths = @ \ {p}, !.writes = ws]
  BY <1>1
<1> HIDE DEF ws
<1>5. pass'.pc = "trash" /\ pass'.writes = ws
  BY <1>2, <1>4 DEF Pass
<1>6. Base(pass)' = cursor /\ \A r : After(pass, r)' = IF r = p THEN NoEntry ELSE entry[r]
  BY <1>2, <1>3, <1>5 DEF Base, After, Polling, Transferring
<1>7. CASE n \in DOMAIN node /\ Trash(n)
  <2>1. Touches(n) /\ ~node'[n].live
    BY <1>2, <1>7, TrashTouches
  <2>2. Owed' /\ RowsTell' /\ cursor' <= Len(log')
    BY <1>2, <2>1, TouchOwed, TouchRows DEF Kept, Telling
  <2>3. \A m, s : Due(m, s) => Due(m, s)'
    BY <2>1, TouchDue
  <2>4. \A m \in DOMAIN node' : m \in DOMAIN node /\ m # 0 /\ node'[m].path = node[m].path
    BY <1>2, <1>7, <2>1, SomeRest DEF Touches
  <2>5. ASSUME NEW m \in DOMAIN node', node'[m].path = p
        PROVE  Due(m, cursor)' \/ Tells(m, NoEntry)'
    <3>1. CASE ~node'[m].live
      BY <1>2, <2>4, <3>1, SomeRest DEF Tells
    <3>2. CASE node'[m].live
      <4>1. m # n /\ node'[m] = node[m]
        BY <2>1, <2>4, <3>2 DEF Touches
      <4>2. Due(m, cursor)
        BY <1>2, <2>4, <2>5, <3>2, <4>1 DEF Owed, Tells
      <4>3. Due(m, cursor) => Due(m, cursor)'
        BY <1>2, <2>1 DEF Due, Touches
      <4> QED
        BY <4>2, <4>3
    <3> QED
      BY <3>1, <3>2
  <2>6. OwedAfter(pass)'
    BY <1>2, <1>6, <2>2, <2>5 DEF Owed, OwedAfter, Tells, Due
  <2>7. RecordTells(pass)' /\ Len(pass'.writes) <= 1
    BY <1>3, <1>5 DEF RecordTells
  <2> QED
    BY <1>5, <2>2, <2>6, <2>7, PushingNext DEF Telling
<1>8. CASE ~(n \in DOMAIN node /\ node[n].live) /\ LeavesServer
  <2> DEFINE q == pass'
  <2>1. q.pc = "trash" /\ q.writes = ws
    BY <1>5
  <2> HIDE DEF q
  <2>2. Base(q) = cursor /\ \A r : After(q, r) = IF r = p THEN NoEntry ELSE entry[r]
    BY <1>3, <2>1 DEF Base, After, Polling, Transferring
  <2>3. ASSUME NEW m \in DOMAIN node PROVE Due(m, cursor) \/ Tells(m, After(q, node[m].path))
    <3>1. CASE node[m].path # p
      BY <1>2, <2>2, <3>1 DEF Owed
    <3>2. CASE node[m].path = p
      <4>1. ~node[m].live => Tells(m, NoEntry)
        BY <1>2, SomeRest DEF Tells
      <4>2. node[m].live => Due(m, cursor)
        BY <1>2, <1>8, <3>2 DEF Owed, Tells
      <4> QED
        BY <2>2, <3>2, <4>1, <4>2
    <3> QED
      BY <3>1, <3>2
  <2>4. OwedAfter(q)
    BY <2>2, <2>3 DEF OwedAfter
  <2>5. RecordTells(q)
    BY <2>1 DEF RecordTells
  <2>6. Len(q.writes) <= 1
    BY <1>3, <2>1
  <2>7. Told(q)
    BY <2>1, <2>4, <2>5, <2>6, PushingTold
  <2>8. UNCHANGED <<node, log, entry, cursor>>
    BY <1>2, <1>8 DEF LeavesServer
  <2> QED
    BY <2>7, <2>8, TellOnly DEF q
<1> QED
  BY <1>1, <1>7, <1>8

\* ------------------------------------------------------------ and the whole

LEMMA OthersTell ==
    ASSUME Lossless, Keeping, StepInv', Telling, Others
    PROVE  Telling'
<1>1. StepInv /\ Kept /\ pass' = pass /\ UNCHANGED <<entry, cursor>>
  BY DEF Keeping, Others
<1>2. written \in Nat
  BY <1>1 DEF Kept, Counted
<1>3. CASE \E x \in Names : RemotePut(Named(x))
  <2>1. PICK x \in Names : RemotePut(Named(x))
    BY <1>3
  <2>2. Named(x) \in Path /\ written + 1 \in Nat /\ PutFile(Named(x), written + 1)
    BY <1>2, <2>1, NamedIsPath DEF RemotePut
  <2> QED
    BY <1>1, <2>2, PutTouches, TouchTold
<1>4. CASE \E n \in DOMAIN node : Trash(n) \/ Restore(n)
  BY <1>1, <1>4, TrashTouches, TouchTold
<1>5. \/ \E x \in Names : RemotePut(Named(x))
      \/ \E n \in DOMAIN node : Trash(n) \/ Restore(n)
  BY DEF Others, RemoteOp, Lossless, Calm
<1> QED
  BY <1>3, <1>4, <1>5

LEMMA TellNext ==
    ASSUME Lossless, Keeping, StepInv', Telling, [Next]_vars
    PROVE  Telling'
<1>1. Telling /\ Told(pass)
  BY DEF Telling
<1>2. CASE Pull /\ Step
  <2>1. CASE LatestHead \/ PollHead \/ PollRows \/ SavePage \/ SaveHead
    BY <2>1, PollTells, SaveTells
  <2>2. CASE ApplyDelete \/ SkipChange \/ ApplyUpsert \/ ApplyFileUpsert
    BY <2>2, SkipTells, ApplyUpsertTells, FileUpsertTells
  <2>3. CASE Fetch \/ Place \/ StatPlaced
    BY <2>3, FetchTells, StatPlacedTells
  <2>4. CASE ListChildren \/ MaterializeFile \/ ListEntries \/ RemoveVanished
    BY <2>4, WalkTells
  <2> QED
    BY <1>2, <2>1, <2>2, <2>3, <2>4 DEF Pull
<1>3. CASE Push /\ Step
  <2>1. CASE Walk \/ PushFile \/ ListGone \/ PushEnds
    BY <2>1, PushTells
  <2>2. CASE Commit \/ StatPushed \/ PushDeletion
    BY <2>2, CommitTells, StatPushedTells, PushDeletionTells
  <2> QED
    BY <1>3, <2>1, <2>2 DEF Push
<1>4. CASE StateWrite
  BY <1>4, StateWriteTells
<1>5. CASE Sync \/ Tick
  BY <1>5, BeginTells DEF Sync, Tick
<1>6. CASE Fault
  <2>1. PassFails
    BY <1>6 DEF Fault, Lossless
  <2> QED
    BY <2>1, PushTells
<1>7. CASE User \/ UNCHANGED vars
  <2>1. pass' = pass /\ UNCHANGED <<node, log, entry, cursor>>
    BY <1>7 DEF User, UserWrites, UserRemoves, LeavesServer, vars
  <2> QED
    BY <1>1, <2>1, TellOnly
<1>8. CASE Others
  BY <1>8, OthersTell
<1>9. CASE Operator
  BY <1>9 DEF Operator, Lossless, Calm
<1>10. Step => (Pull \/ Push \/ StateWrite)
  BY DEF Step
<1> QED
  BY <1>2, <1>3, <1>4, <1>5, <1>6, <1>7, <1>8, <1>9, <1>10 DEF Next

\* At the start every entry is what its node is, and no row is left.
LEMMA InitTelling == Init => Telling
<1> SUFFICES ASSUME Init PROVE Telling
  OBVIOUS
<1>1. StepInv /\ Keeping
  BY InitKeeping DEF Keeping
<1>2. /\ node = StartNodes /\ log = StartLog /\ cursor = Len(log) /\ pass = Idle
  BY DEF Init, ServerInit, ClientInit
<1>3. \A i, j \in DOMAIN Start : Named(Start[i]) = Named(Start[j]) => i = j
  BY StartIsSeq DEF Named
<1>4. \A n \in DOMAIN node : /\ n \in DOMAIN Start /\ node[n].live
                             /\ node[n].path = Named(Start[n]) /\ node[n].content = n
  BY <1>2 DEF StartNodes
<1>5. \A s \in DOMAIN log : log[s].kind = "upsert" /\ log[s].node \in DOMAIN node
  BY <1>1, <1>2 DEF StartLog, Keeping, Kept, RowsLie
<1>6. ASSUME NEW n \in DOMAIN node PROVE Tells(n, entry[node[n].path])
  <2> DEFINE p == node[n].path
  <2>1. p \in Path /\ n # 0 /\ n \in Nat
    BY <1>1, SomeRest
  <2>2. {i \in DOMAIN Start : Named(Start[i]) = p} = {n}
    BY <1>3, <1>4
  <2>3. disk[p] = [content |-> n, stamp |-> n]
    BY <2>1, <2>2, Zenon DEF Init, ClientInit
  <2>4. disk[p] # NoFile /\ disk[p].content = n
    BY <2>1, <2>3 DEF NoFile
  <2>5. entry[p] = [node |-> n, stamp |-> n, hash |-> n, remote |-> n]
    BY <2>1, <2>4 DEF Init, ClientInit
  <2> QED
    BY <1>4, <2>5 DEF Tells
<1>7. Owed
  BY <1>6 DEF Owed
<1>8. Told(pass)
  BY <1>2, <1>7, IdleTold
<1>9. RowsTell
  <2>1. ASSUME NEW m \in DOMAIN node, NEW s \in DOMAIN log, log[s].node # m,
               node[log[s].node].path = node[m].path
        PROVE  FALSE
    BY <1>1, <1>4, <1>5, <2>1 DEF StepInv, ServerInv
  <2> QED
    BY <1>4, <1>5, <2>1 DEF RowsTell
<1>10. cursor <= Len(log)
  BY <1>1, <1>2, SomeRest
<1> QED
  BY <1>7, <1>8, <1>9, <1>10 DEF Telling

---------------------------------------------------------------------------
(* Parting: where a pass parts nothing.                                    *)

LEMMA PartOnly ==
    ASSUME EntriesFair, NEW q, Parted(q), pass' = q, UNCHANGED <<node, disk, entry, written>>
    PROVE  Parting'
<1>1. \A p, e : Fair(p, e)' <=> Fair(p, e)
  BY DEF Fair, Apart
<1>2. EntriesFair' /\ WritesFair(pass)'
  BY <1>1 DEF EntriesFair, WritesFair, Parted
<1>3. NextFair(pass)'
  BY DEF Parted, NextFair
<1>4. Horizon(pass)'
  <2>1. (Polling(pass) \/ Listing(pass))' <=> Polling(q) \/ Listing(q)
    BY DEF Polling, Listing, Transferring
  <2>2. \A h \in Nat : Since(q, h) => Since(pass, h)'
    BY DEF Since, OneHolds, HeldSince, PutSince, GotSince, Held, After, Listing, Transferring
  <2> QED
    BY <2>1, <2>2 DEF Horizon, Parted
<1> QED
  BY <1>2, <1>3, <1>4 DEF Parting, Parted

LEMMA RestParted ==
    ASSUME NEW q, q.writes = <<>>, q.pc \in {"idle", "head", "poll", "rows", "list", "walk", "push", "trash"}
    PROVE  Parted(q)
<1>1. ~Polling(q) /\ ~Listing(q)
  BY DEF Polling, Listing, Transferring
<1> QED
  BY <1>1 DEF Parted, WritesFair, NextFair, Horizon

LEMMA RestPartedNext ==
    (pass.writes = <<>> /\ pass.pc \in {"idle", "head", "poll", "rows", "list", "walk", "push", "trash"}
       => Parted(pass))'
<1>1. pass.writes = <<>> /\ pass.pc \in {"idle", "head", "poll", "rows", "list", "walk", "push", "trash"}
        => Parted(pass)
  BY RestParted
<1> QED
  BY <1>1, PTL

\* What entries and nodes hold are numbers of writes.
LEMMA ContentsIs ==
    ASSUME StepInv, Kept
    PROVE  /\ written \in Nat /\ 0 \notin stored /\ \A c \in stored : c \in Nat /\ c <= written
           /\ \A n \in DOMAIN node : node[n].content \in stored
           /\ \A p \in Path : entry[p].remote # entry[p].hash =>
                /\ Known(p) /\ entry[p].hash \in stored
                /\ entry[p].node \in DOMAIN node /\ node[entry[p].node].path = p
           /\ \A p \in Path : disk[p].content \in Nat /\ disk[p].content <= written
<1>1. /\ written \in Nat /\ 0 \notin stored /\ \A c \in stored : c \in Nat /\ c <= written
  BY DEF StepInv, ServerInv, Kept, Counted
<1>2. \A n \in DOMAIN node : node[n].content \in stored
  BY DEF StepInv, ServerInv, NodesStored
<1>3. \A p \in Path : entry[p].remote # entry[p].hash => Known(p)
  BY DEF Known, NoEntry
<1>4. \A p \in Path : Known(p) =>
        entry[p].hash \in stored /\ entry[p].node \in DOMAIN node /\ node[entry[p].node].path = p
  BY DEF StepInv, StateInv, SyncedIsStored, Kept, EntriesLie, Lies
<1>5. \A p \in Path : disk[p].content \in Nat /\ disk[p].content <= written
  BY FileIs
<1> QED
  BY <1>1, <1>2, <1>3, <1>4, <1>5

\* The same folder, and no more in hand.
LEMMA CarryOn ==
    ASSUME Parting, pass.writes = <<>>, pass.pc # "stat", NEW q, q.writes = <<>>,
           q.pc \notin {"place", "stat", "commit", "record"},
           Polling(q) \/ Listing(q) => Polling(pass) \/ Listing(pass),
           \A it : Held(q, it) => Held(pass, it)
    PROVE  Parted(q)
<1>1. WritesFair(q) /\ NextFair(q)
  BY DEF WritesFair, NextFair
<1>2. \A p : After(q, p) = After(pass, p)
  BY DEF After
<1>3. \A h \in Nat : Since(pass, h) => Since(q, h)
  BY <1>2 DEF Since, HeldSince, PutSince, GotSince
<1>4. Horizon(q)
  BY <1>3 DEF Horizon, Parting, Parted
<1> QED
  BY <1>1, <1>4 DEF Parted

\* What is read now is of now.
LEMMA ReadNow ==
    ASSUME StepInv, Kept, NEW q, q.writes = <<>>, q.pc \in {"apply", "mat"},
           \A it : Held(q, it) => it.id \in DOMAIN node /\ it.content = node[it.id].content
    PROVE  Parted(q)
<1>1. WritesFair(q) /\ NextFair(q)
  BY DEF WritesFair, NextFair
<1>2. \A n \in DOMAIN node : node[n].content \in Nat /\ node[n].content <= written
  BY ContentsIs
<1>3. \A p \in Path : disk[p].content \in Nat /\ disk[p].content <= written /\ written \in Nat
  BY ContentsIs
<1>4. OneHolds(written) /\ HeldSince(q, written) /\ PutSince(q, written)
  BY <1>2, <1>3 DEF OneHolds, HeldSince, PutSince
<1>5. written \in Nat
  BY ContentsIs
<1>6. Since(q, written)
  BY <1>4, <1>5 DEF Since, GotSince
<1> QED
  BY <1>1, <1>5, <1>6 DEF Parted, Horizon

\* ------------------------------------------------------------ polls, walks and rests

LEMMA RestParts ==
    ASSUME Keeping, Parting,
           \/ BeginPush \/ \E b \in BOOLEAN : BeginPull(b)
           \/ LatestHead \/ PollHead \/ Walk \/ ListGone \/ PushEnds \/ PassFails,
           UNCHANGED written
    PROVE  Parting'
<1>1. pass \in Pass /\ UNCHANGED <<node, disk, entry>>
  BY PassTyped, Zenon
     DEF Keeping, BeginPush, BeginPull, LatestHead, PollHead, Walk, ListGone, PushEnds, PassFails,
         LeavesState, LeavesServer, LeavesFolder
<1>2. /\ pass'.writes = <<>>
      /\ pass'.pc \in {"idle", "head", "poll", "rows", "list", "walk", "push", "trash"}
  <2>1. CASE BeginPush
    BY <2>1 DEF BeginPush, Idle
  <2>2. ASSUME NEW b \in BOOLEAN, BeginPull(b)
        PROVE  pass'.writes = <<>> /\ pass'.pc \in {"poll", "head"}
    <3>1. \E pc \in {"poll", "head"} : pass' = [Idle EXCEPT !.pc = pc, !.thenPush = b]
      BY <2>2 DEF BeginPull
    <3> QED
      BY <3>1 DEF Idle
  <2>3. CASE LatestHead \/ PollHead
    <3>1. /\ pass.writes = <<>>
          /\ \/ pass' = [pass EXCEPT !.pc = "list", !.next = LatestSeq]
             \/ pass' = [pass EXCEPT !.pc = "rows"]
      BY <2>3 DEF LatestHead, PollHead, On
    <3> QED
      BY <1>1, <3>1 DEF Pass
  <2>4. CASE Walk \/ ListGone
    BY <1>1, <2>4 DEF Walk, ListGone, On, Pass
  <2>5. CASE PushEnds \/ PassFails
    BY <2>5 DEF PushEnds, PassFails, Idle
  <2> QED
    BY <2>1, <2>2, <2>3, <2>4, <2>5
<1>3. EntriesFair
  BY DEF Parting
<1> DEFINE q == pass'
<1>4. q.writes = <<>> /\ q.pc \in {"idle", "head", "poll", "rows", "list", "walk", "push", "trash"}
  BY <1>2
<1> HIDE DEF q
<1>5. Parted(q)
  BY <1>4, RestParted
<1> QED
  BY <1>1, <1>3, <1>5, PartOnly DEF q

LEMMA ReadParts ==
    ASSUME Keeping, Telling, Parting, PollRows \/ ListChildren, UNCHANGED written
    PROVE  Parting'
<1>1. /\ pass \in Pass /\ pass.writes = <<>> /\ StepInv /\ Kept /\ EntriesFair
      /\ UNCHANGED <<node, disk, entry>> /\ pass.item = {} /\ cursor <= Len(log)
  BY PassTyped
     DEF Keeping, Telling, Told, Clean, Parting, PollRows, ListChildren, On, LeavesState, LeavesServer,
         LeavesFolder
<1>2. ASSUME NEW n, NEW it \in GetLive(n)
      PROVE  it.id \in DOMAIN node /\ it.content = node[it.id].content
  BY DEF GetLive
<1>3. CASE PollRows
  <2> DEFINE page == ChangesSince(cursor, PageLimit)
             q == pass'
  <2>1. \A i \in DOMAIN page : page[i] = ChangeOf(cursor + i)
    BY <1>1, PageRows
  <2> HIDE DEF page
  <2>2. Received(page)
    BY <1>3 DEF PollRows, page
  <2>3. q.pc = "apply" /\ q.writes = <<>> /\ q.page = page /\ q.item = {}
    BY <1>1, <2>2 DEF Received, Pass
  <2> HIDE DEF q
  <2>4. ~Listing(q)
    BY <2>3 DEF Listing, Transferring
  <2>5. \A it : Held(q, it) => \E n : it \in GetLive(n)
    BY <2>1, <2>3, <2>4 DEF Held, ChangeOf
  <2>6. Parted(q)
    BY <1>1, <1>2, <2>3, <2>5, ReadNow
  <2> QED
    BY <1>1, <2>6, PartOnly DEF q
<1>4. CASE ListChildren
  <2> DEFINE live == UNION {GetLive(n) : n \in DOMAIN node}
             q == pass'
  <2>1. pass' = [pass EXCEPT !.pc = "mat", !.nodes = live, !.seen = {it.path : it \in live}]
        /\ pass.pc = "list"
    BY <1>4 DEF ListChildren, On
  <2>2. \A it \in live : \E n : it \in GetLive(n)
    OBVIOUS
  <2> HIDE DEF live
  <2>3. /\ q.pc = "mat" /\ q.writes = <<>> /\ q.page = pass.page /\ q.item = {} /\ q.nodes = live
    BY <1>1, <2>1 DEF Pass
  <2>4. pass.page = <<>>
    BY <2>1 DEF Telling, Told, Clean
  <2> HIDE DEF q
  <2>5. \A it : Held(q, it) => \E n : it \in GetLive(n)
    BY <2>2, <2>3, <2>4 DEF Held
  <2>6. Parted(q)
    BY <1>1, <1>2, <2>3, <2>5, ReadNow
  <2> QED
    BY <1>1, <2>6, PartOnly DEF q
<1> QED
  BY <1>3, <1>4

LEMMA SaveParts ==
    ASSUME Keeping, Parting, SavePage \/ SaveHead, UNCHANGED written
    PROVE  Parting'
<1>1. pass \in Pass /\ pass.writes = <<>> /\ EntriesFair /\ UNCHANGED <<node, disk, entry>>
  BY PassTyped DEF Keeping, Parting, SavePage, SaveHead, On, LeavesServer, LeavesFolder
<1>2. pass' = Pulled \/ pass' = [pass EXCEPT !.pc = "poll", !.more = FALSE, !.next = 0]
  BY DEF SavePage, SaveHead
<1> DEFINE q == pass'
<1>3. q.writes = <<>> /\ q.pc \in {"idle", "walk", "poll"}
  <2>1. CASE pass' = Pulled
    BY <2>1 DEF Pulled, Idle
  <2>2. CASE pass' = [pass EXCEPT !.pc = "poll", !.more = FALSE, !.next = 0]
    BY <1>1, <2>2 DEF Pass
  <2> QED
    BY <1>2, <2>1, <2>2
<1> HIDE DEF q
<1>4. Parted(q)
  BY <1>3, RestParted
<1> QED
  BY <1>1, <1>4, PartOnly DEF q

---------------------------------------------------------------------------
(* Parting: rows and visits.                                               *)

LEMMA RowHeld ==
    ASSUME StepInv, pass.page # <<>>, NEW q, ~Listing(q),
           q.item \subseteq pass.item \/ q.item \subseteq Head(pass.page).now,
           q.page \in {pass.page, Tail(pass.page)}
    PROVE  \A it : Held(q, it) => Held(pass, it)
<1>1. pass.page \in Seq(Change)
  BY PageHead
<1>2. /\ 1 \in DOMAIN pass.page /\ Head(pass.page) = pass.page[1]
      /\ \A i \in DOMAIN Tail(pass.page) : i + 1 \in DOMAIN pass.page /\ Tail(pass.page)[i] = pass.page[i + 1]
  BY <1>1
<1>3. \A i \in DOMAIN q.page : \E k \in DOMAIN pass.page : q.page[i] = pass.page[k]
  BY <1>2
<1>4. ASSUME NEW it, it \in q.item PROVE Held(pass, it)
  BY <1>2, <1>4 DEF Held
<1>5. ASSUME NEW it, NEW i \in DOMAIN q.page, it \in q.page[i].now PROVE Held(pass, it)
  <2>1. PICK k \in DOMAIN pass.page : q.page[i] = pass.page[k]
    BY <1>3
  <2> QED
    BY <1>5, <2>1 DEF Held
<1> QED
  BY <1>4, <1>5 DEF Held

\* The file at p, which its entry tells, goes, or goes to a copy: the entry is next.
LEMMA GoesParts ==
    ASSUME Keeping, Parting, NEW p \in Path,
           \/ disk' = [disk EXCEPT ![p] = NoFile]
           \/ Known(p) /\ Changed(p) /\ ConflictCopy(p),
           pass.writes = <<>>, pass.pc \in {"apply", "upsert"}, Polling(pass),
           NEW q, pass' = q, q.pc \in {"apply", "fetch"}, q.writes = <<Forget(p)>>,
           \A it : Held(q, it) => Held(pass, it), UNCHANGED <<node, entry, written>>
    PROVE  Parting'
<1>1. /\ StepInv /\ Kept /\ EntriesFair /\ disk \in [Path -> File]
      /\ NoFile.content = 0 /\ NoEntry.remote = 0 /\ NoEntry.hash = 0
  BY DEF Keeping, Parting, StepInv, FolderInv, NoFile, NoEntry
<1>2. PICK C \in SUBSET (Path \ {p}) :
        /\ \A r \in C : r.copy # 0 /\ ~Exists(r)
        /\ \A r, s \in C : r = s
        /\ C # {} => Known(p) /\ Changed(p)
        /\ disk'[p] = NoFile
        /\ \A r \in Path \ {p} : disk'[r] = IF r \in C THEN disk[p] ELSE disk[r]
  <2>1. CASE disk' = [disk EXCEPT ![p] = NoFile]
    <3>1. disk'[p] = NoFile /\ \A r \in Path \ {p} : disk'[r] = disk[r]
      BY <1>1, <2>1
    <3> WITNESS {} \in SUBSET (Path \ {p})
    <3> QED
      BY <3>1
  <2>2. CASE Known(p) /\ Changed(p) /\ ConflictCopy(p)
    <3>1. PICK c \in FreeCopies(p) : disk' = [disk EXCEPT ![c] = disk[p], ![p] = NoFile]
      BY <2>2 DEF ConflictCopy
    <3>2. c \in Path /\ c # p /\ c.copy # 0 /\ ~Exists(c)
      <4>1. c \in Path /\ c.copy > p.copy /\ ~Exists(c)
        BY DEF FreeCopies
      <4>2. p.copy \in Nat /\ c.copy \in Nat
        BY <4>1, SyncConstants DEF Path
      <4> QED
        BY <4>1, <4>2
    <3>3. /\ disk'[p] = NoFile /\ disk'[c] = disk[p]
          /\ \A r \in Path \ {p, c} : disk'[r] = disk[r]
      BY <1>1, <3>1, <3>2
    <3> DEFINE D == {c}
    <3>4. D \in SUBSET (Path \ {p}) /\ (\A r \in D : r = c) /\ \A r : r \in D <=> r = c
      BY <3>2
    <3> HIDE DEF D
    <3> QED
      BY <2>2, <3>2, <3>3, <3>4
  <2> QED
    BY <2>1, <2>2
<1>3. C # {} => disk[p].content # entry[p].hash
  BY <1>1, <1>2, ChangedIs
<1>4. \A r \in Path : \/ r = p /\ disk'[r].content = 0
                      \/ r \in C /\ r # p /\ disk'[r].content = disk[p].content
                      \/ r \notin C /\ r # p /\ disk'[r].content = disk[r].content
  BY <1>1, <1>2
<1>5. EntriesFair'
  <2> SUFFICES ASSUME NEW s \in Path, NEW e, e = entry[s], e.remote # e.hash
               PROVE  /\ \A r \in Path : r # s => disk'[r].content # e.hash
                      /\ disk'[s].content = e.hash => node[e.node].content # e.remote
                      /\ \A m \in DOMAIN node : m # e.node => node[m].content # e.hash
    BY <1>1 DEF EntriesFair, Fair, Apart
  <2>1. /\ \A r \in Path : r # s => disk[r].content # e.hash
        /\ disk[s].content = e.hash => node[e.node].content # e.remote
        /\ \A m \in DOMAIN node : m # e.node => node[m].content # e.hash
    BY <1>1 DEF EntriesFair, Fair, Apart
  <2>2. Known(s) /\ e.hash # 0
    BY <1>1, ContentsIs
  <2>3. s \notin C
    BY <1>1, <1>2, <2>2 DEF Kept, EntriesSettled
  <2>4. ASSUME NEW r \in Path, r # s PROVE disk'[r].content # e.hash
    <3>1. CASE r \in C
      <4>1. disk[p].content # e.hash
        BY <1>3, <2>1, <3>1
      <4> QED
        BY <1>4, <2>2, <3>1, <4>1
    <3>2. CASE r \notin C
      BY <1>4, <2>1, <2>2, <2>4, <3>2
    <3> QED
      BY <3>1, <3>2
  <2> QED
    BY <1>4, <2>1, <2>2, <2>3, <2>4
<1>6. WritesFair(pass)'
  <2>1. \A i \in DOMAIN q.writes : q.writes[i].entry = NoEntry
    BY DEF Forget, Put
  <2>2. written' \in Nat
    BY <1>1, ContentsIs
  <2> QED
    BY <1>1, <2>1, <2>2 DEF WritesFair, Fair, Apart
<1>7. NextFair(pass)'
  BY DEF NextFair
<1>8. PICK h \in Nat : Since(pass, h)
  BY DEF Parting, Parted, Horizon
<1>9. C # {} => disk[p].content <= h
  <2>1. disk[p].content > h => entry[p].hash = disk[p].content
    BY <1>8 DEF Since, PutSince, After
  <2>2. disk[p].content \in Nat
    BY <1>1, ContentsIs
  <2> QED
    BY <1>3, <2>1, <2>2
<1>10. \A r \in Path : disk'[r].content > h => r # p /\ r \notin C /\ disk'[r].content = disk[r].content
  <2>1. disk[p].content \in Nat
    BY <1>1, ContentsIs
  <2> QED
    BY <1>4, <1>9, <2>1
<1>11. OneHolds(h)'
  <2>1. \A m \in DOMAIN node : \A r \in Path :
          disk'[r].content = node[m].content => node[m].content <= h \/ node[m].path = r
    <3> SUFFICES ASSUME NEW m \in DOMAIN node, NEW r \in Path, disk'[r].content = node[m].content
                 PROVE  node[m].content <= h \/ node[m].path = r
      OBVIOUS
    <3>1. node[m].content \in Nat
      BY <1>1, ContentsIs
    <3> QED
      BY <1>8, <1>10, <3>1 DEF Since, OneHolds
  <2>2. \A r, s \in Path : r # s /\ disk'[r].content = disk'[s].content => disk'[r].content <= h
    <3> SUFFICES ASSUME NEW r \in Path, NEW s \in Path, r # s, disk'[r].content = disk'[s].content
                 PROVE  disk'[r].content <= h
      OBVIOUS
    <3>1. disk'[r].content \in Nat
      BY <1>1, <1>4, ContentsIs
    <3> QED
      BY <1>8, <1>10, <3>1 DEF Since, OneHolds
  <2> QED
    BY <1>8, <2>1, <2>2 DEF Since, OneHolds
<1>12. HeldSince(pass, h)'
  <2>1. \A it : Held(pass, it)' <=> Held(q, it)
    BY DEF Held, Listing, Transferring
  <2> QED
    BY <1>8, <2>1 DEF Since, HeldSince
<1>13. PutSince(pass, h)'
  <2>1. \A r \in Path : r # p => After(pass, r)' = entry[r] /\ After(pass, r) = entry[r]
    BY DEF After, Forget, Put
  <2>2. \A r \in Path : disk'[r].content > h => entry[r].hash = disk[r].content
    BY <1>8, <1>10, <2>1 DEF Since, PutSince
  <2> QED
    BY <1>10, <2>1, <2>2 DEF PutSince
<1>14. Horizon(pass)'
  <2>1. h <= written'
    BY <1>8 DEF Since
  <2>2. Since(pass, h)'
    BY <1>11, <1>12, <1>13, <2>1 DEF Since, GotSince
  <2> QED
    BY <2>2 DEF Horizon
<1> QED
  BY <1>5, <1>6, <1>7, <1>14 DEF Parting, Parted

LEMMA RowParts ==
    ASSUME Keeping, Parting, ApplyDelete \/ SkipChange \/ ApplyUpsert, UNCHANGED written, Telling
    PROVE  Parting'
<1>1. /\ pass \in Pass /\ pass.writes = <<>> /\ pass.pc = "apply" /\ pass.page # <<>>
      /\ StepInv /\ Kept /\ Fits(pass) /\ pass.page \in Seq(Change) /\ Tail(pass.page) \in Seq(Change)
      /\ UNCHANGED <<node, entry>> /\ Polling(pass) /\ EntriesFair
  BY PageHead
     DEF Keeping, Parting, ApplyDelete, SkipChange, ApplyUpsert, On, LeavesState, LeavesServer, Polling
<1>2. pass.item = {}
  BY <1>1 DEF Telling, Told, Clean
<1>3. ASSUME NEW ws \in Seq(Record), pass' = NextRow(ws)
      PROVE  /\ pass'.pc = "apply" /\ pass'.page = Tail(pass.page) /\ pass'.item = pass.item
             /\ pass'.writes = ws
  <2> DEFINE t == Tail(pass.page)
  <2>1. t \in Seq(Change) /\ pass' = [pass EXCEPT !.page = t, !.writes = ws]
    BY <1>1, <1>3 DEF NextRow
  <2> HIDE DEF t
  <2>2. pass'.page = t
    BY <1>1, <2>1 DEF Pass
  <2> QED
    BY <1>1, <2>1, <2>2 DEF Pass, t
<1> DEFINE q == pass'
<1>4. ASSUME q.pc \in {"apply", "upsert"}, q.writes = <<>>, UNCHANGED disk,
             q.page \in {pass.page, Tail(pass.page)},
             q.item \subseteq pass.item \/ q.item \subseteq Head(pass.page).now
      PROVE  Parting'
  <2> HIDE DEF q
  <2>1. ~Listing(q) /\ Polling(q)
    BY <1>4 DEF Listing, Polling, Transferring
  <2>2. \A it : Held(q, it) => Held(pass, it)
    BY <1>1, <1>4, <2>1, RowHeld
  <2>3. Parted(q)
    BY <1>1, <1>4, <2>2, CarryOn
  <2> QED
    BY <1>1, <1>4, <2>3, PartOnly DEF q
<1>5. <<>> \in Seq(Record)
  OBVIOUS
<1>6. CASE SkipChange
  BY <1>3, <1>4, <1>5, <1>6 DEF SkipChange, LeavesFolder
<1>7. CASE ApplyUpsert
  <2>1. PICK it \in Head(pass.page).now :
         \/ \E p \in GetByNodeID(it.id) \ {it.path} : MoveLocal(p, it.path)
         \/ pass' = [pass EXCEPT !.pc = "upsert", !.item = {it}] /\ LeavesFolder
    BY <1>7, Zenon DEF ApplyUpsert
  <2>2. Lies(it.id, it.path)
    <3>1. Head(pass.page) = pass.page[1] /\ 1 \in DOMAIN pass.page
      BY <1>1
    <3> QED
      BY <1>1, <3>1 DEF Fits, CarriedFits, ChangeFits
  <2>3. GetByNodeID(it.id) \ {it.path} = {}
    BY <1>1, <2>2 DEF GetByNodeID, Kept, EntriesLie, Lies
  <2>4. pass' = [pass EXCEPT !.pc = "upsert", !.item = {it}] /\ UNCHANGED disk
    BY <2>1, <2>3 DEF LeavesFolder
  <2>5. q.pc = "upsert" /\ q.writes = <<>> /\ q.page = pass.page /\ q.item = {it}
    BY <1>1, <2>4 DEF Pass
  <2> QED
    BY <1>4, <2>4, <2>5
<1>8. CASE ApplyDelete
  <2> DEFINE n == Head(pass.page).node
  <2>1. \/ pass' = NextRow(<<>>) /\ LeavesFolder
        \/ \E p \in GetByNodeID(n) : Discard(p) /\ pass' = NextRow(<<Forget(p)>>)
    BY <1>8, Zenon DEF ApplyDelete
  <2>2. CASE pass' = NextRow(<<>>) /\ LeavesFolder
    BY <1>3, <1>4, <1>5, <2>2 DEF LeavesFolder
  <2>3. ASSUME NEW p \in GetByNodeID(n), Discard(p), pass' = NextRow(<<Forget(p)>>)
        PROVE  Parting'
    <3>1. p \in Path /\ Known(p)
      BY DEF GetByNodeID
    <3>2. <<Forget(p)>> \in Seq(Record)
      BY <3>1, ForgetIsRecord
    <3>3. q.pc = "apply" /\ q.page = Tail(pass.page) /\ q.item = pass.item /\ q.writes = <<Forget(p)>>
      BY <1>3, <2>3, <3>2
    <3>4. \/ disk' = [disk EXCEPT ![p] = NoFile]
          \/ Known(p) /\ Changed(p) /\ ConflictCopy(p)
      BY <2>3, <3>1 DEF Discard
    <3> HIDE DEF q
    <3>5. ~Listing(q)
      BY <3>3 DEF Listing, Transferring
    <3>6. \A it : Held(q, it) => Held(pass, it)
      BY <1>1, <3>3, <3>5, RowHeld
    <3> QED
      BY <1>1, <3>1, <3>3, <3>4, <3>6, GoesParts DEF q
  <2> QED
    BY <2>1, <2>2, <2>3
<1> QED
  BY <1>6, <1>7, <1>8

LEMMA FileUpsertParts ==
    ASSUME Keeping, Parting, ApplyFileUpsert, UNCHANGED written
    PROVE  Parting'
<1>1. /\ pass \in Pass /\ pass.writes = <<>> /\ pass.pc = "upsert" /\ StepInv /\ Fits(pass)
      /\ UNCHANGED <<node, entry>> /\ EntriesFair /\ Polling(pass)
  BY PassTyped DEF Keeping, Parting, ApplyFileUpsert, On, LeavesState, LeavesServer, Polling
<1>2. PICK it \in pass.item :
         \/ pass' = NextItem(<<>>) /\ LeavesFolder
         \/ pass' = [pass EXCEPT !.pc = "fetch"] /\ LeavesFolder
         \/ /\ Known(it.path) /\ Changed(it.path) /\ ConflictCopy(it.path)
            /\ pass' = [pass EXCEPT !.pc = "fetch", !.writes = <<Forget(it.path)>>]
  BY Zenon DEF ApplyFileUpsert
<1> DEFINE p == it.path
           q == pass'
<1>3. p \in Path /\ pass.page # <<>>
  BY <1>1, PassTyped DEF Fits, WalkFits
<1>4. ASSUME q.pc \in {"apply", "fetch"}, q.page = IF q.pc = "fetch" THEN pass.page ELSE Tail(pass.page),
             q.item \subseteq pass.item
      PROVE  \A x : Held(q, x) => Held(pass, x)
  <2> HIDE DEF q
  <2>1. ~Listing(q)
    BY <1>3, <1>4 DEF Listing, Transferring
  <2>2. q.page \in {pass.page, Tail(pass.page)}
    BY <1>4
  <2> QED
    BY <1>1, <1>3, <1>4, <2>1, <2>2, RowHeld
<1>5. CASE (pass' = NextItem(<<>>) \/ pass' = [pass EXCEPT !.pc = "fetch"]) /\ LeavesFolder
  <2>1. /\ q.pc \in {"apply", "fetch"} /\ q.page = IF q.pc = "fetch" THEN pass.page ELSE Tail(pass.page)
        /\ q.item \subseteq pass.item /\ q.writes = <<>>
    <3>1. CASE pass' = NextItem(<<>>)
      <4>1. <<>> \in Seq(Record)
        OBVIOUS
      <4> QED
        BY <1>1, <1>3, <3>1, <4>1, NextRowItem
    <3>2. CASE pass' = [pass EXCEPT !.pc = "fetch"]
      BY <1>1, <3>2 DEF Pass
    <3> QED
      BY <1>5, <3>1, <3>2
  <2>2. \A x : Held(q, x) => Held(pass, x)
    BY <1>4, <2>1
  <2> HIDE DEF q
  <2>3. Parted(q)
    BY <1>1, <2>1, <2>2, CarryOn
  <2> QED
    BY <1>1, <1>5, <2>3, PartOnly DEF q, LeavesFolder
<1>6. CASE /\ Known(p) /\ Changed(p) /\ ConflictCopy(p)
           /\ pass' = [pass EXCEPT !.pc = "fetch", !.writes = <<Forget(p)>>]
  <2>1. /\ q.pc = "fetch" /\ q.page = pass.page /\ q.item = pass.item /\ q.writes = <<Forget(p)>>
    BY <1>1, <1>6 DEF Pass
  <2>2. \A x : Held(q, x) => Held(pass, x)
    BY <1>4, <2>1
  <2> HIDE DEF q
  <2> QED
    BY <1>1, <1>3, <1>6, <2>1, <2>2, GoesParts DEF q
<1> QED
  BY <1>2, <1>5, <1>6

LEMMA VisitParts ==
    ASSUME Keeping, Telling, Parting, MaterializeFile \/ ListEntries, UNCHANGED written
    PROVE  Parting'
<1>1. /\ pass \in Pass /\ pass.writes = <<>> /\ pass.pc = "mat" /\ EntriesFair
      /\ UNCHANGED <<node, entry, disk>> /\ Listing(pass)
  BY PassTyped
     DEF Keeping, Parting, MaterializeFile, ListEntries, On, LeavesState, LeavesServer, LeavesFolder, Listing
<1>2. pass.item = {} /\ pass.page = <<>>
  BY <1>1 DEF Telling, Told, Clean
<1> DEFINE q == pass'
<1>3. /\ q.writes = <<>> /\ q.page = pass.page /\ q.nodes \subseteq pass.nodes
      /\ q.pc \in {"mat", "fetch", "vanish"}
      /\ q.item \subseteq pass.nodes
  <2>1. CASE MaterializeFile
    <3>1. PICK it \in pass.nodes :
            \/ pass' = [pass EXCEPT !.nodes = @ \ {it}]
            \/ pass' = [[pass EXCEPT !.nodes = @ \ {it}] EXCEPT !.pc = "fetch", !.item = {it}]
      BY <2>1, Zenon DEF MaterializeFile
    <3>2. CASE pass' = [pass EXCEPT !.nodes = @ \ {it}]
      BY <1>1, <1>2, <3>2 DEF Pass
    <3>3. CASE pass' = [[pass EXCEPT !.nodes = @ \ {it}] EXCEPT !.pc = "fetch", !.item = {it}]
      <4> DEFINE rest == [pass EXCEPT !.nodes = @ \ {it}]
      <4>1. /\ rest \in Pass /\ rest.writes = <<>> /\ rest.page = pass.page
            /\ rest.nodes = pass.nodes \ {it}
        BY <1>1 DEF Pass
      <4>2. pass' = [rest EXCEPT !.pc = "fetch", !.item = {it}]
        BY <3>3
      <4> HIDE DEF rest
      <4> QED
        BY <1>1, <4>1, <4>2 DEF Pass
    <3> QED
      BY <3>1, <3>2, <3>3
  <2>2. CASE ListEntries
    <3>1. \E S : pass' = [pass EXCEPT !.pc = "vanish", !.paths = S]
      BY <2>2 DEF ListEntries
    <3> QED
      BY <1>1, <1>2, <3>1 DEF Pass
  <2> QED
    BY <2>1, <2>2
<1> HIDE DEF q
<1>4. \A it : Held(q, it) => Held(pass, it)
  BY <1>1, <1>2, <1>3 DEF Held
<1>5. Parted(q)
  BY <1>1, <1>3, <1>4, CarryOn
<1> QED
  BY <1>1, <1>5, PartOnly DEF q

---------------------------------------------------------------------------
(* Parting: the transfer.                                                  *)

LEMMA FetchParts ==
    ASSUME Keeping, Parting, Fetch, UNCHANGED written
    PROVE  Parting'
<1>1. /\ pass \in Pass /\ pass.writes = <<>> /\ pass.pc = "fetch" /\ StepInv /\ Kept /\ Fits(pass)
      /\ UNCHANGED <<node, entry, disk>> /\ EntriesFair
  BY PassTyped DEF Keeping, Parting, Fetch, On, LeavesState, LeavesServer, LeavesFolder
<1>2. PICK it \in pass.item :
        \/ pass' = Idle
        \/ it.id \in DOMAIN node /\ pass' = [pass EXCEPT !.pc = "place", !.got = node[it.id].content]
  BY <1>1, Zenon DEF Fetch
<1>3. CASE pass' = Idle
  <2>1. Idle.writes = <<>> /\ Idle.pc = "idle"
    BY DEF Idle
  <2>2. Parted(Idle)
    BY <2>1, RestParted
  <2> QED
    BY <1>1, <1>3, <2>2, PartOnly
<1>4. CASE it.id \in DOMAIN node /\ pass' = [pass EXCEPT !.pc = "place", !.got = node[it.id].content]
  <2> DEFINE q == pass'
             n == it.id
  <2>1. node[n].content \in Nat
    BY <1>1, <1>4, ContentsIs
  <2>2. /\ q.pc = "place" /\ q.got = node[n].content /\ q.writes = <<>> /\ q.page = pass.page
        /\ q.item = pass.item /\ q.nodes = pass.nodes
    BY <1>1, <1>4, <2>1 DEF Pass
  <2>3. it \in Item /\ node[n].path = it.path /\ \A x \in pass.item : x = it
    BY <1>1 DEF Fits, CarriedFits, ItemFits, Lies, Pass
  <2> HIDE DEF q
  <2>4. Polling(pass) \/ Listing(pass)
    BY <1>1 DEF Polling, Listing, Transferring
  <2>5. \A x : Held(q, x) => Held(pass, x)
    BY <1>1, <2>2 DEF Held, Listing, Transferring
  <2>6. \A p : After(q, p) = After(pass, p)
    BY <1>1, <2>2 DEF After
  <2>7. PICK h \in Nat : Since(pass, h)
    BY <2>4 DEF Parting, Parted, Horizon
  <2>8. GotSince(q, h)
    <3>1. Held(pass, it)
      BY DEF Held
    <3>2. node[n].content = it.content \/ node[n].content > h
      BY <2>3, <2>7, <3>1 DEF Since, HeldSince
    <3>3. ASSUME node[n].content > h
          PROVE  /\ \A m \in DOMAIN node : node[m].content = node[n].content => m = n
                 /\ \A p \in Path : disk[p].content = node[n].content => p = it.path
      BY <1>4, <2>1, <2>3, <2>7, <3>3 DEF Since, OneHolds
    <3> QED
      BY <2>2, <2>3, <3>2, <3>3 DEF GotSince
  <2>9. PutSince(q, h)
    BY <1>1, <2>6, <2>7 DEF Since, PutSince
  <2>10. Horizon(q)
    BY <2>5, <2>7, <2>8, <2>9 DEF Since, HeldSince, Horizon
  <2>11. NextFair(q)
    <3> SUFFICES ASSUME NEW p \in Path, entry[p].remote # entry[p].hash, node[n].content = entry[p].hash
                 PROVE  n = entry[p].node /\ node[n].content # entry[p].remote
      BY <2>2, <2>3 DEF NextFair
    <3> QED
      BY <1>1, <1>4 DEF EntriesFair, Fair, Apart
  <2>12. Parted(q)
    BY <2>2, <2>10, <2>11 DEF Parted, WritesFair
  <2> QED
    BY <1>1, <2>12, PartOnly DEF q
<1> QED
  BY <1>2, <1>3, <1>4

LEMMA PlaceParts ==
    ASSUME Keeping, Parting, Place, UNCHANGED written
    PROVE  Parting'
<1>1. /\ pass \in Pass /\ pass.writes = <<>> /\ pass.pc = "place" /\ StepInv /\ Kept /\ Fits(pass)
      /\ UNCHANGED <<node, entry>> /\ EntriesFair /\ pass' = [pass EXCEPT !.pc = "stat"]
      /\ disk \in [Path -> File]
  BY PassTyped
     DEF Keeping, Parting, Place, On, LeavesState, LeavesServer, StepInv, FolderInv
<1>2. PICK it \in pass.item :
        disk' = [disk EXCEPT ![it.path] = [content |-> pass.got, stamp |-> pass.got]]
  BY DEF Place
<1> DEFINE p == it.path
           n == it.id
           g == pass.got
<1>3. /\ it \in Item /\ p \in Path /\ n \in DOMAIN node /\ node[n].path = p
      /\ \A x \in pass.item : x = it
  BY <1>1 DEF Fits, CarriedFits, ItemFits, Lies, Pass, Item
<1>4. disk'[p].content = g /\ \A r \in Path : r # p => disk'[r] = disk[r]
  BY <1>1, <1>2, <1>3
<1>5. /\ pass'.pc = "stat" /\ pass'.got = g /\ pass'.writes = <<>> /\ pass'.page = pass.page
      /\ pass'.item = pass.item /\ pass'.nodes = pass.nodes
  BY <1>1 DEF Pass
<1>6. \A s \in Path : entry[s].remote # entry[s].hash /\ g = entry[s].hash =>
        n = entry[s].node /\ node[n].content # entry[s].remote /\ s = p
  <2> SUFFICES ASSUME NEW s \in Path, entry[s].remote # entry[s].hash, g = entry[s].hash
               PROVE  n = entry[s].node /\ node[n].content # entry[s].remote /\ s = p
    OBVIOUS
  <2>1. n = entry[s].node /\ node[n].content # entry[s].remote
    BY <1>1, <1>3 DEF Parting, Parted, NextFair
  <2> QED
    BY <1>1, <1>3, <2>1, ContentsIs
<1> HIDE DEF g
<1>7. EntriesFair'
  <2> SUFFICES ASSUME NEW s \in Path, NEW e, e = entry[s], e.remote # e.hash
               PROVE  /\ \A r \in Path : r # s => disk'[r].content # e.hash
                      /\ disk'[s].content = e.hash => node[e.node].content # e.remote
                      /\ \A m \in DOMAIN node : m # e.node => node[m].content # e.hash
    BY <1>1 DEF EntriesFair, Fair, Apart
  <2>1. /\ \A r \in Path : r # s => disk[r].content # e.hash
        /\ disk[s].content = e.hash => node[e.node].content # e.remote
        /\ \A m \in DOMAIN node : m # e.node => node[m].content # e.hash
    BY <1>1 DEF EntriesFair, Fair, Apart
  <2> QED
    BY <1>3, <1>4, <1>6, <2>1
<1>8. WritesFair(pass)' /\ NextFair(pass)'
  BY <1>5 DEF WritesFair, NextFair
<1>9. Polling(pass) \/ Listing(pass)
  BY <1>1 DEF Polling, Listing, Transferring
<1>10. PICK h \in Nat : Since(pass, h)
  BY <1>9 DEF Parting, Parted, Horizon
<1>11. /\ g = it.content \/ g > h
       /\ g > h => /\ node[n].content > h
                   /\ \A m \in DOMAIN node : node[m].content = g => m = n
                   /\ \A r \in Path : disk[r].content = g => r = p
  BY <1>1, <1>10 DEF Since, GotSince, g
<1>12. g \in Nat
  BY <1>1 DEF Pass, g
<1>13. OneHolds(h)'
  <2>1. ASSUME NEW m \in DOMAIN node, NEW r \in Path, disk'[r].content = node[m].content
        PROVE  node[m].content <= h \/ node[m].path = r
    <3>1. CASE r # p
      BY <1>4, <1>10, <2>1, <3>1 DEF Since, OneHolds
    <3>2. CASE r = p
      BY <1>3, <1>4, <1>11, <1>12, <2>1, <3>2
    <3> QED
      BY <3>1, <3>2
  <2>2. ASSUME NEW r \in Path, NEW s \in Path, r # s, disk'[r].content = disk'[s].content
        PROVE  disk'[r].content <= h
    <3>1. CASE r # p /\ s # p
      BY <1>4, <1>10, <2>2, <3>1 DEF Since, OneHolds
    <3>2. CASE r = p \/ s = p
      BY <1>4, <1>11, <1>12, <2>2, <3>2
    <3> QED
      BY <3>1, <3>2
  <2> QED
    BY <1>1, <1>10, <2>1, <2>2 DEF Since, OneHolds
<1>14. HeldSince(pass, h)'
  <2>1. \A x : Held(pass, x)' <=> Held(pass, x)
    BY <1>1, <1>5 DEF Held, Listing, Transferring
  <2> QED
    BY <1>1, <1>10, <2>1 DEF Since, HeldSince
<1>15. PutSince(pass, h)'
  <2>1. \A r : After(pass, r)' = After(pass, r)
    BY <1>1, <1>5 DEF After
  <2>2. \A r \in Path : r # p /\ disk'[r].content > h => After(pass, r).hash = disk'[r].content
    BY <1>1, <1>4, <1>10 DEF Since, PutSince
  <2> QED
    BY <1>5, <2>1, <2>2 DEF PutSince
<1>16. GotSince(pass, h)'
  <2>1. \A r \in Path : disk'[r].content = g /\ g > h => r = p
    BY <1>4, <1>11
  <2> QED
    BY <1>1, <1>3, <1>5, <1>11, <2>1 DEF GotSince
<1>17. Since(pass, h)'
  BY <1>10, <1>13, <1>14, <1>15, <1>16 DEF Since
<1> QED
  BY <1>7, <1>8, <1>17 DEF Parting, Parted, Horizon

\* A download of what the item was not of is newer than the poll.
LEMMA StatPlacedParts ==
    ASSUME Keeping, Parting, StatPlaced, UNCHANGED written
    PROVE  Parting'
<1>1. /\ pass \in Pass /\ pass.writes = <<>> /\ pass.pc = "stat" /\ StepInv /\ Kept /\ Fits(pass)
      /\ UNCHANGED <<node, entry, disk>> /\ EntriesFair
  BY PassTyped DEF Keeping, Parting, StatPlaced, On, LeavesState, LeavesServer, LeavesFolder
<1>2. PICK it \in pass.item : pass' \in {Idle, NextItem(<<RecordOf(it)>>)}
  BY DEF StatPlaced
<1>3. CASE pass' = Idle
  <2>1. Idle.writes = <<>> /\ Idle.pc = "idle"
    BY DEF Idle
  <2>2. Parted(Idle)
    BY <2>1, RestParted
  <2> QED
    BY <1>1, <1>3, <2>2, PartOnly
<1>4. CASE pass' = NextItem(<<RecordOf(it)>>)
  <2> DEFINE ws == <<RecordOf(it)>>
             q == NextItem(ws)
             p == it.path
             n == it.id
             g == pass.got
             e == RecordOf(it).entry
  <2>1. /\ ws \in Seq(Record) /\ ws # <<>> /\ Head(ws) = RecordOf(it)
        /\ \A i \in DOMAIN ws : ws[i] = RecordOf(it)
    BY <1>1, RecordFits
  <2>2. RecordOf(it).path = p /\ e.node = n /\ e.hash = g /\ e.remote = it.content
    BY DEF RecordOf, Put
  <2>3. /\ it \in Item /\ p \in Path /\ n \in DOMAIN node /\ node[n].path = p
        /\ \A x \in pass.item : x = it
        /\ g = disk[p].content /\ g \in Nat /\ it.content \in Nat
    BY <1>1 DEF Fits, CarriedFits, ItemFits, Lies, Pass, Item
  <2>4. pass' = q
    BY <1>4
  <2>5. q.writes = ws
    BY <1>1, <2>1, NextItemTyped
  <2>6. /\ q.pc \in {"apply", "mat"} /\ q.item = {}
        /\ \A x : Held(q, x) => Held(pass, x)
    <3>1. CASE pass.page = <<>>
      <4>1. /\ q.pc = "mat" /\ q.page = <<>> /\ q.item = {} /\ q.nodes = pass.nodes
        BY <1>1, <2>1, <3>1, NextListItem
      <4> HIDE DEF q
      <4> QED
        BY <1>1, <3>1, <4>1 DEF Held, Listing, Transferring
    <3>2. CASE pass.page # <<>>
      <4>1. /\ q.pc = "apply" /\ q.page = Tail(pass.page) /\ q.item = {}
        BY <1>1, <2>1, <3>2, NextRowItem
      <4> HIDE DEF q
      <4>2. ~Listing(q)
        BY <4>1 DEF Listing, Transferring
      <4>3. \A x : Held(q, x) => Held(pass, x)
        BY <1>1, <3>2, <4>1, <4>2, RowHeld
      <4> QED
        BY <4>1, <4>3
    <3> QED
      BY <3>1, <3>2
  <2> HIDE DEF q, ws, e
  <2>7. After(q, p) = e /\ \A r : r # p => After(q, r) = After(pass, r)
    BY <1>1, <2>1, <2>2, <2>5 DEF After, e
  <2>8. Polling(pass) \/ Listing(pass)
    BY <1>1 DEF Polling, Listing, Transferring
  <2>9. PICK h \in Nat : Since(pass, h)
    BY <2>8 DEF Parting, Parted, Horizon
  <2>10. it.content <= h
    <3>1. Held(pass, it)
      BY DEF Held
    <3> QED
      BY <2>3, <2>9, <3>1 DEF Since, HeldSince
  <2>11. /\ g = it.content \/ g > h
         /\ g > h => /\ node[n].content > h
                     /\ \A m \in DOMAIN node : node[m].content = g => m = n
                     /\ \A r \in Path : disk[r].content = g => r = p
    BY <1>1, <2>9 DEF Since, GotSince
  <2>12. Fair(p, e)
    <3>1. Apart(p, e)
      <4> SUFFICES ASSUME it.content # g
                   PROVE  /\ \A m \in DOMAIN node : m # n => node[m].content # g
                          /\ \A r \in Path : r # p => disk[r].content # g
                          /\ node[n].content # it.content
        BY <2>2 DEF Apart
      <4>1. node[n].content \in Nat
        BY <1>1, <2>3, ContentsIs
      <4> QED
        BY <2>3, <2>10, <2>11, <4>1
    <3>2. it.content <= written
      <4>1. h <= written /\ written \in Nat
        BY <1>1, <2>9, ContentsIs DEF Since
      <4> QED
        BY <2>3, <2>10, <4>1
    <3> QED
      BY <2>2, <3>1, <3>2 DEF Fair
  <2>13. WritesFair(q)
    BY <2>1, <2>2, <2>5, <2>12 DEF WritesFair, e
  <2>14. PutSince(q, h)
    <3> SUFFICES ASSUME NEW r \in Path, disk[r].content > h
                 PROVE  After(q, r).hash = disk[r].content
      BY DEF PutSince
    <3>1. CASE r = p
      BY <2>2, <2>3, <2>7, <3>1
    <3>2. CASE r # p
      BY <2>3, <2>7, <2>9, <3>2 DEF Since, PutSince
    <3> QED
      BY <3>1, <3>2
  <2>15. Since(q, h)
    BY <2>6, <2>9, <2>14 DEF Since, HeldSince, GotSince
  <2>16. NextFair(q)
    BY <2>6 DEF NextFair
  <2>17. Parted(q)
    BY <2>13, <2>15, <2>16 DEF Parted, Horizon
  <2> QED
    BY <1>1, <2>4, <2>17, PartOnly
<1> QED
  BY <1>2, <1>3, <1>4

---------------------------------------------------------------------------
(* Parting: the write, and the push.                                       *)

LEMMA StateWriteParts ==
    ASSUME Keeping, Telling, Parting, StateWrite, UNCHANGED written
    PROVE  Parting'
<1> DEFINE w == Head(pass.writes)
<1>1. /\ pass \in Pass /\ pass.writes # <<>> /\ pass.writes \in Seq(Record) /\ StepInv
      /\ entry' = [entry EXCEPT ![w.path] = w.entry] /\ pass' = [pass EXCEPT !.writes = Tail(@)]
      /\ UNCHANGED <<node, disk>> /\ entry \in [Path -> Entry] /\ Len(pass.writes) <= 1
  BY PassTyped
     DEF Keeping, StateWrite, LeavesServer, LeavesFolder, Pass, StepInv, StateInv, Telling, Told, Clean
<1>2. w = pass.writes[1] /\ 1 \in DOMAIN pass.writes /\ Tail(pass.writes) = <<>> /\ w \in Record
  BY <1>1
<1>3. \A p \in Path : entry'[p] = After(pass, p)
  BY <1>1 DEF After
<1>4. \A p \in Path : (p = w.path /\ entry'[p] = w.entry) \/ entry'[p] = entry[p]
  BY <1>1
<1>5. Fair(w.path, w.entry)
  BY <1>2 DEF Parting, Parted, WritesFair
<1> HIDE DEF w
<1>6. /\ pass'.pc = pass.pc /\ pass'.page = pass.page /\ pass'.item = pass.item
      /\ pass'.nodes = pass.nodes /\ pass'.got = pass.got /\ pass'.writes = <<>>
  BY <1>1, <1>2 DEF Pass
<1>7. \A p, e : Fair(p, e)' <=> Fair(p, e)
  BY <1>1 DEF Fair, Apart
<1>8. EntriesFair'
  <2> SUFFICES ASSUME NEW p \in Path, NEW e, e = entry'[p] PROVE Fair(p, e)'
    BY DEF EntriesFair, Fair, Apart
  <2> QED
    BY <1>4, <1>5, <1>7 DEF Parting, EntriesFair
<1>9. pass.pc \notin {"place", "stat", "commit", "record"}
  BY <1>1 DEF Parting, Parted, NextFair
<1>10. WritesFair(pass)' /\ NextFair(pass)'
  BY <1>6, <1>9 DEF WritesFair, NextFair
<1>11. Horizon(pass)'
  <2>1. (Polling(pass) \/ Listing(pass))' <=> Polling(pass) \/ Listing(pass)
    BY <1>6 DEF Polling, Listing, Transferring
  <2>2. ASSUME NEW h \in Nat, Since(pass, h) PROVE Since(pass, h)'
    <3>1. \A x : Held(pass, x)' <=> Held(pass, x)
      BY <1>6 DEF Held, Listing, Transferring
    <3>2. OneHolds(h)' /\ HeldSince(pass, h)' /\ h <= written'
      BY <1>1, <2>2, <3>1 DEF Since, OneHolds, HeldSince
    <3>3. \A p \in Path : After(pass, p)' = After(pass, p)
      BY <1>3, <1>6 DEF After
    <3>4. PutSince(pass, h)' /\ GotSince(pass, h)'
      BY <1>1, <1>6, <1>9, <2>2, <3>3 DEF Since, PutSince, GotSince
    <3> QED
      BY <3>2, <3>4 DEF Since
  <2> QED
    BY <2>1, <2>2 DEF Parting, Parted, Horizon
<1> QED
  BY <1>8, <1>10, <1>11 DEF Parting, Parted

\* Between two steps of a push.
LEMMA PushingParted ==
    ASSUME NEW q, q.pc \in {"push", "trash", "record"}, WritesFair(q),
           q.pc = "record" => q.writes = <<>> /\ \A it \in q.item : it.content = q.got
    PROVE  Parted(q)
<1>1. ~Polling(q) /\ ~Listing(q)
  BY DEF Polling, Listing, Transferring
<1> QED
  BY <1>1 DEF Parted, NextFair, Horizon

LEMMA PushingPartedNext ==
    (/\ pass.pc \in {"push", "trash", "record"} /\ WritesFair(pass)
     /\ pass.pc = "record" => pass.writes = <<>> /\ \A it \in pass.item : it.content = pass.got
     => Parted(pass))'
<1>1. /\ pass.pc \in {"push", "trash", "record"} /\ WritesFair(pass)
      /\ pass.pc = "record" => pass.writes = <<>> /\ \A it \in pass.item : it.content = pass.got
      => Parted(pass)
  BY PushingParted
<1> QED
  BY <1>1, PTL

\* What is uploaded is no download of this client.
LEMMA PushFileParts ==
    ASSUME Keeping, Parting, PushFile, UNCHANGED written
    PROVE  Parting'
<1>1. /\ pass \in Pass /\ pass.writes = <<>> /\ pass.pc = "push" /\ StepInv /\ Kept /\ EntriesFair
      /\ UNCHANGED <<node, entry, disk>>
  BY PassTyped DEF Keeping, Parting, PushFile, On, LeavesState, LeavesServer, LeavesFolder
<1>2. PICK p \in pass.paths :
        LET rest == [pass EXCEPT !.paths = @ \ {p}] IN
        \/ pass' = rest
        \/ pass' = Idle
        \/ /\ Exists(p) /\ (Known(p) => Changed(p))
           /\ pass' = [rest EXCEPT !.pc = "commit", !.got = disk[p].content,
                                   !.item = {[id |-> 0, path |-> p, content |-> 0]}]
  BY Zenon DEF PushFile
<1> DEFINE rest == [pass EXCEPT !.paths = @ \ {p}]
           it == [id |-> 0, path |-> p, content |-> 0]
           q == pass'
<1>3. rest.pc = "push" /\ rest.writes = <<>> /\ rest \in Pass /\ p \in Path
  BY <1>1 DEF Pass
<1> HIDE DEF rest
<1>4. Parted(q)
  <2>1. CASE pass' = rest \/ pass' = Idle
    <3>1. q.writes = <<>> /\ q.pc \in {"push", "idle"}
      BY <1>3, <2>1 DEF Idle
    <3> HIDE DEF q
    <3> QED
      BY <3>1, RestParted
  <2>2. CASE /\ Exists(p) /\ (Known(p) => Changed(p))
             /\ pass' = [rest EXCEPT !.pc = "commit", !.got = disk[p].content, !.item = {it}]
    <3>1. entry[p].hash # disk[p].content
      <4>1. CASE Known(p)
        <5>1. Changed(p)
          BY <2>2, <4>1
        <5>2. Changed(p) <=> Exists(p) /\ disk[p].content # entry[p].hash
          BY <1>1, <1>3, <4>1, ChangedIs
        <5> QED
          BY <5>1, <5>2
      <4>2. CASE ~Known(p)
        <5>1. entry[p].hash = 0
          BY <4>2 DEF Known, NoEntry
        <5>2. disk[p].content # 0
          BY <1>1, <1>3, <2>2, FileIs
        <5> QED
          BY <5>1, <5>2
      <4> QED
        BY <4>1, <4>2
    <3>2. it.path = p
      OBVIOUS
    <3> HIDE DEF it
    <3>3. q.pc = "commit" /\ q.item = {it} /\ q.writes = <<>>
      BY <1>3, <2>2 DEF Pass
    <3> HIDE DEF q
    <3>4. ~Polling(q) /\ ~Listing(q)
      BY <3>3 DEF Polling, Listing, Transferring
    <3> QED
      BY <3>1, <3>2, <3>3, <3>4 DEF Parted, WritesFair, NextFair, Horizon
  <2> QED
    BY <1>2, <2>1, <2>2 DEF rest
<1> HIDE DEF q
<1> QED
  BY <1>1, <1>4, PartOnly DEF q

LEMMA StatPushedParts ==
    ASSUME Keeping, Parting, StatPushed, UNCHANGED written
    PROVE  Parting'
<1>1. /\ pass \in Pass /\ pass.writes = <<>> /\ pass.pc = "record" /\ StepInv /\ Kept /\ EntriesFair
      /\ UNCHANGED <<node, entry, disk>>
  BY PassTyped DEF Keeping, Parting, StatPushed, On, LeavesState, LeavesServer, LeavesFolder
<1>2. PICK it \in pass.item :
         pass' \in {Idle, [pass EXCEPT !.pc = "push", !.item = {}, !.got = 0,
                                       !.writes = <<RecordOf(it)>>]}
  BY Zenon DEF StatPushed
<1> DEFINE q == pass'
<1>3. CASE pass' = Idle
  <2>1. q.writes = <<>> /\ q.pc = "idle"
    BY <1>3 DEF Idle
  <2> HIDE DEF q
  <2>2. Parted(q)
    BY <2>1, RestParted
  <2> QED
    BY <1>1, <2>2, PartOnly DEF q
<1>4. CASE pass' = [pass EXCEPT !.pc = "push", !.item = {}, !.got = 0, !.writes = <<RecordOf(it)>>]
  <2> DEFINE r == RecordOf(it)
             ws == <<r>>
  <2>1. \A i \in DOMAIN ws : ws[i] = r
    OBVIOUS
  <2>2. r.entry.hash = pass.got /\ r.entry.remote = it.content
    BY DEF RecordOf, Put
  <2> HIDE DEF ws, r
  <2>3. q.pc = "push" /\ q.writes = ws
    BY <1>1, <1>4 DEF Pass, ws, r
  <2> HIDE DEF q
  <2>4. it.content = pass.got /\ pass.got \in stored
    BY <1>1 DEF Parting, Parted, NextFair, StepInv, PassInv, TransferStored
  <2>5. Fair(r.path, r.entry)
    BY <1>1, <2>2, <2>4, ContentsIs DEF Fair, Apart
  <2>6. WritesFair(q)
    BY <2>1, <2>3, <2>5 DEF WritesFair
  <2>7. Parted(q)
    BY <2>3, <2>6, PushingParted
  <2> QED
    BY <1>1, <2>7, PartOnly DEF q
<1> QED
  BY <1>2, <1>3, <1>4

\* The node gets what lies in the folder, and only there.
LEMMA CommitParts ==
    ASSUME Keeping, Parting, Commit, UNCHANGED written
    PROVE  Parting'
<1>1. PICK it \in pass.item :
       LET ids == IF At(it.path) = {} THEN {Len(node) + 1} ELSE At(it.path) IN
       /\ PutFile(it.path, pass.got)
       /\ pass' = [pass EXCEPT !.pc = "record",
                     !.item = {[id |-> n, path |-> it.path, content |-> pass.got] : n \in ids}]
  BY Zenon DEF Commit
<1> DEFINE p == it.path
           ids == IF At(p) = {} THEN {Len(node) + 1} ELSE At(p)
           items == {[id |-> n, path |-> p, content |-> pass.got] : n \in ids}
<1>2. /\ pass \in Pass /\ pass.writes = <<>> /\ pass.pc = "commit" /\ StepInv /\ Kept /\ Fits(pass)
      /\ p \in Path /\ pass.got \in Nat /\ UNCHANGED <<disk, entry, cursor>> /\ EntriesFair
  BY PassTyped DEF Keeping, Parting, Commit, On, LeavesState, LeavesFolder, Pass
<1>3. Exists(p) /\ pass.got = disk[p].content /\ entry[p].hash # disk[p].content
  BY <1>2 DEF Fits, CarriedFits, ItemFits, Parting, Parted, NextFair
<1>4. PICK n \in DOMAIN node' :
         /\ Touches(n) /\ node'[n].path = p /\ node'[n].content = disk[p].content
  BY <1>1, <1>2, <1>3, PutTouches
<1>5. \A x \in items : x.content = pass.got
  OBVIOUS
<1>6. pass' = [pass EXCEPT !.pc = "record", !.item = items]
  BY <1>1 DEF ids
<1> HIDE DEF items
<1>7. pass'.pc = "record" /\ pass'.item = items /\ pass'.writes = <<>> /\ pass'.got = pass.got
  BY <1>2, <1>6 DEF Pass
<1>8. EntriesFair'
  <2> SUFFICES ASSUME NEW s \in Path, NEW e, e = entry[s]
               PROVE  /\ e.remote # e.hash =>
                           /\ \A m \in DOMAIN node' : m # e.node => node'[m].content # e.hash
                           /\ \A r \in Path : r # s => disk[r].content # e.hash
                           /\ disk[s].content = e.hash => node'[e.node].content # e.remote
                      /\ e.remote <= written
    BY <1>2 DEF EntriesFair, Fair, Apart
  <2>1. e.remote <= written
    BY <1>2 DEF EntriesFair, Fair
  <2> SUFFICES ASSUME e.remote # e.hash
               PROVE  /\ \A m \in DOMAIN node' : m # e.node => node'[m].content # e.hash
                      /\ \A r \in Path : r # s => disk[r].content # e.hash
                      /\ disk[s].content = e.hash => node'[e.node].content # e.remote
    BY <2>1
  <2>2. /\ \A m \in DOMAIN node : m # e.node => node[m].content # e.hash
        /\ \A r \in Path : r # s => disk[r].content # e.hash
        /\ disk[s].content = e.hash => node[e.node].content # e.remote
    BY <1>2 DEF EntriesFair, Fair, Apart
  <2>3. e.node \in DOMAIN node /\ node[e.node].path = s
    BY <1>2, ContentsIs
  <2>4. disk[p].content # e.hash
    BY <1>2, <1>3, <2>2
  <2>5. \A m \in DOMAIN node' : m # n => m \in DOMAIN node /\ node'[m] = node[m]
    BY <1>4 DEF Touches
  <2>6. e.node = n => s = p
    BY <1>4, <2>3 DEF Touches
  <2>7. e.node \in DOMAIN node'
    BY <1>4, <2>3 DEF Touches
  <2> QED
    BY <1>4, <2>2, <2>4, <2>5, <2>6, <2>7
<1>9. WritesFair(pass)'
  BY <1>7 DEF WritesFair
<1>10. Parted(pass)'
  BY <1>5, <1>7, <1>9, PushingPartedNext
<1> QED
  BY <1>8, <1>10 DEF Parting

LEMMA PushDeletionParts ==
    ASSUME Keeping, Parting, PushDeletion, UNCHANGED written
    PROVE  Parting'
<1>1. PICK p \in pass.paths :
         LET n == entry[p].node IN
         /\ IF n \in DOMAIN node /\ node[n].live THEN Trash(n) ELSE LeavesServer
         /\ pass' = [pass EXCEPT !.paths = @ \ {p}, !.writes = <<Forget(p)>>]
  BY Zenon DEF PushDeletion
<1> DEFINE ws == <<Forget(p)>>
<1>2. /\ pass \in Pass /\ pass.pc = "trash" /\ StepInv /\ Kept /\ EntriesFair
      /\ UNCHANGED <<entry, disk, cursor>>
  BY PassTyped DEF Keeping, Parting, PushDeletion, On, LeavesState, LeavesFolder
<1>3. \A i \in DOMAIN ws : ws[i].entry = NoEntry
  BY DEF Forget, Put
<1>4. pass' = [pass EXCEPT !.paths = @ \ {p}, !.writes = ws]
  BY <1>1
<1> HIDE DEF ws
<1>5. pass'.pc = "trash" /\ pass'.writes = ws
  BY <1>2, <1>4 DEF Pass
<1>6. DOMAIN node' = DOMAIN node /\ \A m \in DOMAIN node : node'[m].content = node[m].content
  <2> DEFINE n == entry[p].node
  <2>1. CASE n \in DOMAIN node /\ Trash(n)
    <3>1. Touches(n) /\ node'[n].content = node[n].content
      BY <1>2, <2>1, TrashTouches
    <3> QED
      BY <2>1, <3>1 DEF Touches
  <2>2. CASE LeavesServer
    BY <2>2 DEF LeavesServer
  <2> QED
    BY <1>1, <2>1, <2>2
<1>7. EntriesFair'
  <2> SUFFICES ASSUME NEW s \in Path, NEW e, e = entry[s]
               PROVE  /\ e.remote # e.hash =>
                           /\ \A m \in DOMAIN node' : m # e.node => node'[m].content # e.hash
                           /\ \A r \in Path : r # s => disk[r].content # e.hash
                           /\ disk[s].content = e.hash => node'[e.node].content # e.remote
                      /\ e.remote <= written
    BY <1>2 DEF EntriesFair, Fair, Apart
  <2>1. e.remote # e.hash => e.node \in DOMAIN node
    BY <1>2, ContentsIs
  <2> QED
    BY <1>2, <1>6, <2>1 DEF EntriesFair, Fair, Apart
<1>8. WritesFair(pass)'
  <2>1. NoEntry.remote = 0 /\ NoEntry.hash = 0 /\ written' \in Nat
    BY <1>2, ContentsIs DEF NoEntry
  <2> QED
    BY <1>3, <1>5, <2>1 DEF WritesFair, Fair, Apart
<1>9. Parted(pass)'
  BY <1>5, <1>8, PushingPartedNext
<1> QED
  BY <1>7, <1>9 DEF Parting

---------------------------------------------------------------------------
(* Parting: the server, other devices and the user; and both together.     *)

\* The server takes a content that was never written before, or none.
LEMMA ServerParts ==
    ASSUME Keeping, Parting, NEW k, Touches(k), pass' = pass, disk' = disk,
           node'[k].content \in Nat,
           node'[k].content > written \/ (k \in DOMAIN node /\ node'[k].content = node[k].content),
           written' \in Nat, written <= written'
    PROVE  Parting'
<1>1. /\ StepInv /\ Kept /\ Fits(pass) /\ pass \in Pass /\ entry' = entry /\ EntriesFair
      /\ entry \in [Path -> Entry]
  BY PassTyped DEF Keeping, Touches, Parting, StepInv, StateInv
<1>2. /\ written \in Nat /\ \A c \in stored : c \in Nat /\ c <= written
      /\ \A n \in DOMAIN node : node[n].content \in Nat /\ node[n].content <= written
      /\ \A p \in Path : disk[p].content \in Nat /\ disk[p].content <= written
  BY <1>1, ContentsIs
<1>3. /\ DOMAIN node \subseteq DOMAIN node'
      /\ \A m \in DOMAIN node' : \/ m \in DOMAIN node /\ node'[m].content = node[m].content
                                 \/ m = k /\ node'[m].content > written
      /\ \A m \in DOMAIN node : node'[m].path = node[m].path
      /\ \A m \in DOMAIN node' : node'[m].content \in Nat
  BY <1>2 DEF Touches
<1>4. ASSUME NEW p, NEW e, Fair(p, e), e.remote \in Nat,
             e.remote # e.hash => e.hash \in stored /\ e.node \in DOMAIN node
      PROVE  Fair(p, e)'
  <2> SUFFICES /\ e.remote # e.hash =>
                    /\ \A m \in DOMAIN node' : m # e.node => node'[m].content # e.hash
                    /\ \A r \in Path : r # p => disk'[r].content # e.hash
                    /\ disk'[p].content = e.hash => node'[e.node].content # e.remote
               /\ e.remote <= written'
    BY DEF Fair, Apart
  <2>1. e.remote <= written
    BY <1>4 DEF Fair
  <2>2. e.remote <= written'
    BY <1>2, <1>4, <2>1
  <2> SUFFICES ASSUME e.remote # e.hash
               PROVE  /\ \A m \in DOMAIN node' : m # e.node => node'[m].content # e.hash
                      /\ \A r \in Path : r # p => disk'[r].content # e.hash
                      /\ disk'[p].content = e.hash => node'[e.node].content # e.remote
    BY <2>2
  <2>3. /\ \A m \in DOMAIN node : m # e.node => node[m].content # e.hash
        /\ \A r \in Path : r # p => disk[r].content # e.hash
        /\ disk[p].content = e.hash => node[e.node].content # e.remote
    BY <1>4 DEF Fair, Apart
  <2>4. e.hash \in Nat /\ e.hash <= written /\ e.node \in DOMAIN node
    BY <1>2, <1>4
  <2>5. \A m \in DOMAIN node' : m # e.node => node'[m].content # e.hash
    BY <1>2, <1>3, <2>3, <2>4
  <2>6. disk'[p].content = e.hash => node'[e.node].content # e.remote
    BY <1>2, <1>3, <1>4, <2>1, <2>3, <2>4
  <2> QED
    BY <2>3, <2>5, <2>6
<1>5. EntriesFair'
  <2> SUFFICES ASSUME NEW p \in Path, NEW e, e = entry[p] PROVE Fair(p, e)'
    BY <1>1 DEF EntriesFair, Fair, Apart
  <2>1. e.remote \in Nat
    BY <1>1 DEF Entry
  <2> QED
    BY <1>1, <1>4, <2>1, ContentsIs DEF EntriesFair
<1>6. WritesFair(pass)'
  <2> SUFFICES ASSUME NEW i \in DOMAIN pass.writes, NEW p, p = pass.writes[i].path,
                      NEW e, e = pass.writes[i].entry
               PROVE  Fair(p, e)'
    BY DEF WritesFair, Fair, Apart
  <2>1. Fair(p, e)
    BY DEF Parting, Parted, WritesFair
  <2>2. e.remote \in Nat
    <3>1. pass \in Pass
      BY <1>1
    <3>2. pass.writes \in Seq(Record)
      BY <3>1 DEF Pass
    <3>3. pass.writes[i] \in Record
      BY <3>2
    <3> QED
      BY <3>3 DEF Record, Entry
  <2>3. e.remote # e.hash => e # NoEntry
    BY DEF NoEntry
  <2>4. e # NoEntry => e.hash \in stored /\ e.node \in DOMAIN node
    BY <1>1 DEF StepInv, PassInv, WritesStored, Fits, CarriedFits, WriteFits, Lies
  <2> QED
    BY <1>4, <2>1, <2>2, <2>3, <2>4
<1>7. NextFair(pass)'
  <2>1. ASSUME pass.pc = "place", NEW it \in pass.item, NEW p \in Path,
               entry[p].remote # entry[p].hash, pass.got = entry[p].hash
        PROVE  it.id = entry[p].node /\ node'[it.id].content # entry[p].remote
    <3>1. it.id = entry[p].node /\ node[it.id].content # entry[p].remote
      BY <2>1 DEF Parting, Parted, NextFair
    <3>2. it.id \in DOMAIN node
      BY <1>1, <2>1, <3>1, ContentsIs
    <3>3. entry[p].remote \in Nat /\ entry[p].remote <= written
      BY <1>1 DEF EntriesFair, Fair, Entry
    <3> QED
      BY <1>2, <1>3, <3>1, <3>2, <3>3
  <2> QED
    BY <1>1, <2>1 DEF Parting, Parted, NextFair
<1>8. Horizon(pass)'
  <2>1. (Polling(pass) \/ Listing(pass))' <=> Polling(pass) \/ Listing(pass)
    BY DEF Polling, Listing, Transferring
  <2>2. ASSUME NEW h \in Nat, Since(pass, h) PROVE Since(pass, h)'
    <3>1. h <= written
      BY <2>2 DEF Since
    <3>2. OneHolds(h)'
      <4>1. ASSUME NEW m \in DOMAIN node', NEW n \in DOMAIN node', m # n, node'[m].content = node'[n].content
            PROVE  node'[m].content <= h
        BY <1>2, <1>3, <2>2, <4>1 DEF Since, OneHolds
      <4>2. ASSUME NEW m \in DOMAIN node', NEW p \in Path, disk'[p].content = node'[m].content
            PROVE  node'[m].content <= h \/ node'[m].path = p
        BY <1>2, <1>3, <2>2, <4>2 DEF Since, OneHolds
      <4> QED
        BY <2>2, <4>1, <4>2 DEF Since, OneHolds
    <3>3. HeldSince(pass, h)'
      <4>1. \A x : Held(pass, x)' <=> Held(pass, x)
        BY DEF Held, Listing, Transferring
      <4>2. ASSUME NEW x \in Item, Held(pass, x)
            PROVE  /\ x.id \in DOMAIN node' /\ x.content <= h
                   /\ node'[x.id].content = x.content \/ node'[x.id].content > h
        <5>1. /\ x.id \in DOMAIN node /\ x.content <= h
              /\ node[x.id].content = x.content \/ node[x.id].content > h
          BY <2>2, <4>2 DEF Since, HeldSince
        <5> QED
          BY <1>2, <1>3, <3>1, <5>1
      <4> QED
        BY <4>1, <4>2 DEF HeldSince
    <3>4. PutSince(pass, h)'
      <4>1. \A p : After(pass, p)' = After(pass, p)
        BY <1>1 DEF After
      <4> QED
        BY <2>2, <4>1 DEF Since, PutSince
    <3>5. GotSince(pass, h)'
      <4> SUFFICES ASSUME pass.pc \in {"place", "stat"}, NEW it \in pass.item
                   PROVE  /\ pass.got = it.content \/ pass.got > h
                          /\ pass.got > h =>
                               /\ node'[it.id].content > h
                               /\ \A m \in DOMAIN node' : node'[m].content = pass.got => m = it.id
                               /\ \A p \in Path : disk'[p].content = pass.got => p = it.path
        BY DEF GotSince
      <4>1. /\ pass.got = it.content \/ pass.got > h
            /\ pass.got > h =>
                 /\ node[it.id].content > h
                 /\ \A m \in DOMAIN node : node[m].content = pass.got => m = it.id
                 /\ \A p \in Path : disk[p].content = pass.got => p = it.path
        BY <2>2 DEF Since, GotSince
      <4>2. pass.got \in Nat /\ pass.got <= written
        BY <1>1, <1>2 DEF StepInv, PassInv, TransferStored
      <4>3. it.id \in DOMAIN node
        BY <1>1 DEF Fits, CarriedFits, ItemFits, Lies
      <4> QED
        BY <1>2, <1>3, <3>1, <4>1, <4>2, <4>3
    <3>6. h <= written'
      BY <1>2, <3>1
    <3> QED
      BY <3>2, <3>3, <3>4, <3>5, <3>6 DEF Since
  <2> QED
    BY <2>1, <2>2 DEF Parting, Parted, Horizon
<1> QED
  BY <1>5, <1>6, <1>7, <1>8 DEF Parting, Parted

LEMMA OthersPart ==
    ASSUME Lossless, Keeping, Parting, Others
    PROVE  Parting'
<1>1. /\ StepInv /\ Kept /\ pass' = pass /\ UNCHANGED <<entry, cursor, disk>> /\ written \in Nat
      /\ \A n \in DOMAIN node : node[n].content \in Nat
  BY ContentsIs DEF Keeping, Others
<1>2. CASE \E x \in Names : RemotePut(Named(x))
  <2>1. PICK x \in Names : RemotePut(Named(x))
    BY <1>2
  <2>2. /\ Named(x) \in Path /\ written + 1 \in Nat /\ PutFile(Named(x), written + 1)
        /\ written' = written + 1
    BY <1>1, <2>1, NamedIsPath DEF RemotePut
  <2>3. PICK n \in DOMAIN node' : Touches(n) /\ node'[n].content = written + 1
    BY <1>1, <2>2, PutTouches
  <2>4. /\ node'[n].content \in Nat /\ node'[n].content > written
        /\ written' \in Nat /\ written <= written'
    BY <1>1, <2>2, <2>3
  <2> QED
    BY <1>1, <2>3, <2>4, ServerParts
<1>3. ASSUME NEW n \in DOMAIN node, Trash(n) \/ Restore(n), written' = written PROVE Parting'
  <2>1. Touches(n) /\ node'[n].content = node[n].content
    BY <1>1, <1>3, TrashTouches
  <2>2. node'[n].content \in Nat /\ written' \in Nat /\ written <= written'
    BY <1>1, <1>3, <2>1
  <2> QED
    BY <1>1, <2>1, <2>2, ServerParts
<1>4. \/ \E x \in Names : RemotePut(Named(x))
      \/ \E n \in DOMAIN node : (Trash(n) \/ Restore(n)) /\ written' = written
  BY DEF Others, RemoteOp, Lossless, Calm
<1> QED
  BY <1>2, <1>3, <1>4

\* The user writes what was never written before.
LEMMA UserParts ==
    ASSUME Lossless, Keeping, Parting, User
    PROVE  Parting'
<1>1. /\ StepInv /\ Kept /\ Fits(pass) /\ EntriesFair /\ disk \in [Path -> File]
      /\ UNCHANGED <<entry, pass, node>> /\ pass.pc = "idle"
  BY DEF Keeping, Parting, StepInv, FolderInv, User, UserWrites, UserRemoves, UserMay, LeavesServer,
         Lossless, Calm
<1>2. written \in Nat
  BY <1>1, ContentsIs
<1>3. PICK p \in Path :
        /\ \A r \in Path : r # p => disk'[r] = disk[r]
        /\ disk'[p].content \in {0, written + 1}
        /\ written' \in {written, written + 1}
  <2>1. PICK x \in Names : \/ \E stamp : UserWrites(Named(x), stamp)
                           \/ UserRemoves(Named(x))
    BY DEF User
  <2>2. Named(x) \in Path
    BY NamedIsPath
  <2>3. CASE \E stamp : UserWrites(Named(x), stamp)
    <3>1. PICK stamp : UserWrites(Named(x), stamp)
      BY <2>3
    <3>2. /\ written' = written + 1
          /\ disk' = [disk EXCEPT ![Named(x)] = [content |-> written + 1, stamp |-> stamp]]
      BY <3>1 DEF UserWrites
    <3>3. /\ \A r \in Path : r # Named(x) => disk'[r] = disk[r]
          /\ disk'[Named(x)] = [content |-> written + 1, stamp |-> stamp]
      BY <1>1, <2>2, <3>2
    <3> QED
      BY <2>2, <3>2, <3>3
  <2>4. CASE UserRemoves(Named(x))
    <3>1. written' = written /\ disk' = [disk EXCEPT ![Named(x)] = NoFile]
      BY <2>4 DEF UserRemoves
    <3>2. /\ \A r \in Path : r # Named(x) => disk'[r] = disk[r]
          /\ disk'[Named(x)] = NoFile
      BY <1>1, <2>2, <3>1
    <3> QED
      BY <2>2, <3>1, <3>2 DEF NoFile
  <2> QED
    BY <2>1, <2>3, <2>4
<1>4. EntriesFair'
  <2> SUFFICES ASSUME NEW s \in Path, NEW e, e = entry[s]
               PROVE  /\ e.remote # e.hash =>
                           /\ \A m \in DOMAIN node : m # e.node => node[m].content # e.hash
                           /\ \A r \in Path : r # s => disk'[r].content # e.hash
                           /\ disk'[s].content = e.hash => node[e.node].content # e.remote
                      /\ e.remote <= written'
    BY <1>1 DEF EntriesFair, Fair, Apart
  <2>1. e.remote <= written'
    <3>1. e.remote \in Nat
      BY <1>1 DEF StepInv, StateInv, Entry
    <3> QED
      BY <1>1, <1>2, <1>3, <3>1 DEF EntriesFair, Fair
  <2>2. e.remote # e.hash => e.hash \in Nat /\ e.hash # 0 /\ e.hash <= written
    BY <1>1, ContentsIs
  <2>3. e.remote # e.hash => disk'[p].content # e.hash
    BY <1>2, <1>3, <2>2
  <2>4. e.remote # e.hash =>
          /\ \A m \in DOMAIN node : m # e.node => node[m].content # e.hash
          /\ \A r \in Path : r # s => disk[r].content # e.hash
          /\ disk[s].content = e.hash => node[e.node].content # e.remote
    BY <1>1 DEF EntriesFair, Fair, Apart
  <2> QED
    BY <1>3, <2>1, <2>3, <2>4
<1>5. Parted(pass)'
  <2>1. pass = Idle
    BY <1>1 DEF Fits
  <2>2. pass'.writes = <<>> /\ pass'.pc = "idle"
    BY <1>1, <2>1 DEF Idle
  <2> QED
    BY <2>2, RestPartedNext
<1> QED
  BY <1>4, <1>5 DEF Parting

\* ------------------------------------------------------------ and the whole

LEMMA PartNext ==
    ASSUME Lossless, Keeping, Telling, Parting, [Next]_vars
    PROVE  Parting'
<1>1. EntriesFair /\ Parted(pass)
  BY DEF Parting
<1>2. CASE Step
  <2>1. UNCHANGED written /\ (Pull \/ Push \/ StateWrite)
    BY <1>2 DEF Step
  <2>2. CASE Pull
    <3>1. CASE LatestHead \/ PollHead
      BY <2>1, <3>1, RestParts
    <3>2. CASE PollRows \/ ListChildren
      BY <2>1, <3>2, ReadParts
    <3>3. CASE SavePage \/ SaveHead
      BY <2>1, <3>3, SaveParts
    <3>4. CASE ApplyDelete \/ SkipChange \/ ApplyUpsert
      BY <2>1, <3>4, RowParts
    <3>5. CASE ApplyFileUpsert
      BY <2>1, <3>5, FileUpsertParts
    <3>6. CASE Fetch \/ Place \/ StatPlaced
      BY <2>1, <3>6, FetchParts, PlaceParts, StatPlacedParts
    <3>7. CASE MaterializeFile \/ ListEntries
      BY <2>1, <3>7, VisitParts
    <3>8. CASE RemoveVanished
      <4>1. pass.pc = "vanish" /\ pass.paths # {}
        BY <3>8 DEF RemoveVanished, On
      <4> QED
        BY <4>1 DEF Telling, Told, ListTells, Listing
    <3> QED
      BY <2>2, <3>1, <3>2, <3>3, <3>4, <3>5, <3>6, <3>7, <3>8 DEF Pull
  <2>3. CASE Push
    <3>1. CASE Walk \/ ListGone \/ PushEnds
      BY <2>1, <3>1, RestParts
    <3>2. CASE PushFile \/ StatPushed
      BY <2>1, <3>2, PushFileParts, StatPushedParts
    <3>3. CASE Commit \/ PushDeletion
      BY <2>1, <3>3, CommitParts, PushDeletionParts
    <3> QED
      BY <2>3, <3>1, <3>2, <3>3 DEF Push
  <2>4. CASE StateWrite
    BY <2>1, <2>4, StateWriteParts
  <2> QED
    BY <2>1, <2>2, <2>3, <2>4
<1>3. CASE Sync \/ Tick
  BY <1>3, RestParts DEF Sync, Tick
<1>4. CASE Fault
  <2>1. PassFails /\ UNCHANGED written
    BY <1>4 DEF Fault, Lossless
  <2> QED
    BY <2>1, RestParts
<1>5. CASE User
  BY <1>5, UserParts
<1>6. CASE Others
  BY <1>6, OthersPart
<1>7. CASE Operator
  BY <1>7 DEF Operator, Lossless, Calm
<1>8. CASE UNCHANGED vars
  BY <1>1, <1>8, PartOnly DEF vars
<1> QED
  BY <1>2, <1>3, <1>4, <1>5, <1>6, <1>7, <1>8 DEF Next

LEMMA InitParting == Init => Parting
<1> SUFFICES ASSUME Init PROVE Parting
  OBVIOUS
<1>1. StepInv /\ Kept
  BY InitKeeping DEF Keeping
<1>2. ASSUME NEW p \in Path
      PROVE  entry[p].remote = entry[p].hash /\ entry[p].remote <= written
  <2>1. CASE disk[p] = NoFile
    BY <1>1, <1>2, <2>1, ContentsIs DEF Init, ClientInit, NoEntry
  <2>2. CASE disk[p] # NoFile
    <3> DEFINE c == disk[p].content
    <3>1. entry[p] = [node |-> c, stamp |-> c, hash |-> c, remote |-> c]
      BY <1>2, <2>2 DEF Init, ClientInit
    <3>2. c <= written
      BY <1>1, <1>2, ContentsIs
    <3> QED
      BY <3>1, <3>2
  <2> QED
    BY <2>1, <2>2
<1>3. EntriesFair
  BY <1>2 DEF EntriesFair, Fair, Apart
<1>4. Parted(pass)
  <2>1. pass.writes = <<>> /\ pass.pc = "idle"
    BY DEF Init, ClientInit, Idle
  <2> QED
    BY <2>1, RestParted
<1> QED
  BY <1>3, <1>4 DEF Parting

LEMMA Agrees ==
    ASSUME Keeping, Telling, Parting
    PROVE  CaughtUp
<1> SUFFICES ASSUME pass.pc = "idle", cursor = LatestSeq, NEW p \in Path,
                    \A r \in Path : IF Known(r) THEN Exists(r) /\ ~Changed(r) ELSE ~Exists(r)
             PROVE  Local(p) = Remote(p)
  BY DEF CaughtUp, InSync
<1>1. StepInv /\ Kept
  BY DEF Keeping
<1>2. \A n \in DOMAIN node : Tells(n, entry[node[n].path])
  <2>1. DOMAIN log = 1..Len(log) /\ Len(log) \in Nat /\ cursor = Len(log)
    BY <1>1, SomeRest DEF LatestSeq
  <2>2. \A n : ~Due(n, cursor)
    BY <2>1 DEF Due
  <2> QED
    BY <2>2 DEF Telling, Owed
<1>3. CASE At(p) = {}
  <2>1. ~Known(p)
    <3> SUFFICES ASSUME Known(p) PROVE FALSE
      OBVIOUS
    <3>1. entry[p].node \in DOMAIN node /\ node[entry[p].node].path = p
      BY <1>1 DEF Kept, EntriesLie, Lies
    <3>2. node[entry[p].node].live
      BY <1>2, <3>1 DEF Tells
    <3> QED
      BY <1>3, <3>1, <3>2 DEF At
  <2>2. ~Exists(p)
    BY <2>1
  <2>3. disk[p].content = 0
    BY <1>1, <2>2, FileIs
  <2> QED
    BY <1>3, <2>3 DEF Local, Remote
<1>4. CASE At(p) # {}
  <2> DEFINE n == CHOOSE n \in At(p) : TRUE
             e == entry[p]
  <2>1. n \in DOMAIN node /\ node[n].live /\ node[n].path = p
    BY <1>4 DEF At
  <2>2. Remote(p) = node[n].content
    BY <1>4 DEF Remote
  <2> HIDE DEF n
  <2>3. e.node = n /\ e.remote = node[n].content
    BY <1>2, <2>1 DEF Tells
  <2>4. Known(p)
    BY <1>1, <2>1, <2>3, SomeRest DEF Known
  <2>5. Exists(p) /\ ~Changed(p)
    BY <2>4
  <2>6. disk[p].content = e.hash
    BY <1>1, <2>4, <2>5, ChangedIs
  <2>7. e.remote = e.hash
    BY <2>3, <2>6 DEF Parting, EntriesFair, Fair, Apart
  <2> QED
    BY <2>2, <2>3, <2>6, <2>7 DEF Local
<1> QED
  BY <1>3, <1>4

\* A client that has applied the whole journal and whose folder shows it nothing to push
\* holds exactly the server's tree: however the rows of a page, the downloads, the uploads,
\* the edits and deletes here and on other devices, failures and crashes came between each
\* other.  It takes a server that never loses the read of a node in a poll, for the
\* cursor passes the row all the same.
THEOREM CatchesUp == Lossless => (Spec => []CaughtUp)
<1> SUFFICES ASSUME Lossless PROVE Spec => []CaughtUp
  OBVIOUS
<1> DEFINE All == Keeping /\ Telling /\ Parting
<1>1. All /\ [Next]_vars => All'
  <2> SUFFICES ASSUME Keeping, Telling, Parting, [Next]_vars PROVE All'
    OBVIOUS
  <2>1. Inv
    BY InvSplits DEF Keeping, Kept, Counted
  <2>2. StepInv'
    BY <2>1, NextInv, InvSplits
  <2>3. Keeping'
    BY <2>2, NextFits DEF Keeping, Lossless
  <2> QED
    BY <2>2, <2>3, TellNext, PartNext
<1>2. Init => All
  BY InitKeeping, InitTelling, InitParting
<1>3. All => CaughtUp
  BY Agrees
<1> HIDE DEF All
<1> QED
  BY <1>1, <1>2, <1>3, PTL DEF Spec
=============================================================================
