----------------------------- MODULE Home_proofs -----------------------------
(***************************************************************************)
(* What holds of a user's home for any number of nodes, files, requests,   *)
(* accounts and sessions: the tree and its trash (FileTree), the history   *)
(* of a file and what its versions refer to (Versions), and accounts with  *)
(* their sign-ins (Accounts).                                              *)
(***************************************************************************)
EXTENDS MCHome, PathLemmas, FiniteSetTheorems

-----------------------------------------------------------------------------
(* What is known of the rows                                               *)

NodeTyped == node \in [Id -> Row]

RootStands ==
  node[Root].there /\ node[Root].trash = Live /\ node[Root].kind = "folder" /\ node[Root].path = <<>>

NamesFolded ==
  \A i \in Id \ {Root} : node[i].there => node[i].name \in Name /\ node[i].fold = Fold[node[i].name]

FoldersAbove == \A i \in Id \ {Root} : node[i].there => IsFolder(node[i].parent)

TreeInv ==
  /\ NodeTyped /\ RootStands /\ NamesFolded /\ FoldersAbove /\ SiblingNames(node)
  /\ LiveParents /\ PathsTrue /\ TrashUnits

LEMMA RowFields ==
  ASSUME NodeTyped, NEW i \in Id
  PROVE  /\ node[i].parent \in Id /\ node[i].path \in Seq(Name) /\ Len(node[i].path) \in Nat
         /\ node[i].trash \in Id \cup {Live} /\ node[i].there \in BOOLEAN
         /\ node[i].kind \in {"folder", "file"}
  <1>1. node[i].parent \in Id /\ node[i].path \in Seq(Name) /\ node[i].trash \in Id \cup {Live}
        /\ node[i].there \in BOOLEAN /\ node[i].kind \in {"folder", "file"}
    BY DEF NodeTyped, Row, Path
  <1> QED BY <1>1, LenProperties

\* A node is one level below its parent.
LEMMA OneBelow ==
  ASSUME TreeInv, NEW i \in Id \ {Root}, node[i].there
  PROVE  /\ node[i].parent \in Id /\ node[node[i].parent].there /\ node[i].name \in Name
         /\ node[i].path = Append(node[node[i].parent].path, node[i].name)
         /\ Len(node[i].path) = Len(node[node[i].parent].path) + 1
         /\ node[i].path # <<>>
  <1>1. PICK p \in Id : p = node[i].parent /\ node[p].path \in Seq(Name)
    BY RowFields DEF TreeInv
  <1>2. node[p].there /\ node[i].path = Append(node[p].path, node[i].name) /\ node[i].name \in Name
    BY <1>1 DEF TreeInv, PathsTrue, NamesFolded
  <1> QED BY <1>1, <1>2, AppendProperties

\* Two live nodes do not share a path: the shortest such path would have two parents.
LEMMA LiveUnique ==
  ASSUME TreeInv, NEW i \in Id, NEW j \in Id, IsLive(i), IsLive(j), node[i].path = node[j].path
  PROVE  i = j
  <1> DEFINE Twin(a, b) == IsLive(a) /\ IsLive(b) /\ a # b /\ node[a].path = node[b].path
             S == {Len(node[a].path) : a \in {a \in Id : \E b \in Id : Twin(a, b)}}
  <1> SUFFICES ASSUME i # j PROVE FALSE
    OBVIOUS
  <1>1. S \subseteq Nat /\ S # {}
    <2>1. i \in {a \in Id : \E b \in Id : Twin(a, b)}
      OBVIOUS
    <2>2. S # {}
      BY <2>1
    <2>3. S \subseteq Nat
      BY RowFields DEF TreeInv
    <2> QED BY <2>2, <2>3
  <1>2. PICK n \in S : \A m \in S : n <= m
    <2> HIDE DEF S
    <2> QED BY <1>1, Smallest
  <1>3. PICK a \in Id, b \in Id : Twin(a, b) /\ n = Len(node[a].path)
    BY <1>2
  <1>4. a # Root /\ b # Root
    <2>1. node[Root].path = <<>>
      BY DEF TreeInv, RootStands
    <2>2. ASSUME NEW c \in Id \ {Root}, node[c].there PROVE node[c].path # <<>>
      BY <2>2, OneBelow
    <2> QED BY <1>3, <2>1, <2>2 DEF IsLive
  <1>5. PICK p \in Id, q \in Id : p = node[a].parent /\ q = node[b].parent
    BY RowFields DEF TreeInv
  <1>6. /\ node[a].path = Append(node[p].path, node[a].name) /\ node[a].name \in Name
        /\ node[b].path = Append(node[q].path, node[b].name) /\ node[b].name \in Name
        /\ Len(node[a].path) = Len(node[p].path) + 1
    BY <1>3, <1>4, <1>5, OneBelow DEF IsLive
  <1>7. IsLive(p) /\ IsLive(q)
    BY <1>3, <1>4, <1>5 DEF TreeInv, LiveParents
  <1>8. /\ node[p].path \in Seq(Name) /\ node[q].path \in Seq(Name) /\ Len(node[p].path) \in Nat
        /\ Len(node[a].path) \in Nat
    BY RowFields DEF TreeInv
  <1>9. node[p].path = node[q].path /\ node[a].name = node[b].name
    <2>1. PICK s \in Seq(Name), t \in Seq(Name), e \in Name, f \in Name :
            s = node[p].path /\ t = node[q].path /\ e = node[a].name /\ f = node[b].name
      BY <1>6, <1>8
    <2>2. Append(s, e) = Append(t, f)
      BY <1>3, <1>6, <2>1
    <2>3. s = t /\ e = f
      BY <2>2, SameSteps
    <2> QED BY <2>1, <2>3
  <1>10. CASE p = q
    <2>1. node[a].fold = node[b].fold
      BY <1>3, <1>4, <1>9 DEF TreeInv, NamesFolded, IsLive
    <2> QED BY <1>3, <1>4, <1>5, <1>10, <2>1 DEF TreeInv, SiblingNames, IsLive
  <1>11. CASE p # q
    <2>1. Twin(p, q)
      BY <1>7, <1>9, <1>11
    <2>2. Len(node[p].path) \in S
      BY <2>1
    <2>3. Len(node[a].path) <= Len(node[p].path)
      BY <1>2, <1>3, <2>2
    <2> QED BY <1>6, <1>8, <2>3
  <1> QED BY <1>10, <1>11

\* What hangs together below t goes with t: of the nodes that did not, the one with the
\* shortest path would have a parent that did.
Closed(T) == \A x \in Id : node[x].there /\ x # Root /\ node[x].parent \in T => x \in T

LEMMA Descends ==
  ASSUME TreeInv, NEW T, Closed(T), NEW t \in T, NEW U \in SUBSET Id,
         \A x \in U : x # t => node[x].there /\ x # Root /\ node[x].parent \in U
  PROVE  U \subseteq T
  <1> DEFINE S == {Len(node[x].path) : x \in U \ T}
  <1> SUFFICES ASSUME U \ T # {} PROVE FALSE
    OBVIOUS
  <1>1. S \subseteq Nat /\ S # {}
    BY RowFields DEF TreeInv
  <1>2. PICK n \in S : \A m \in S : n <= m
    <2> HIDE DEF S
    <2> QED BY <1>1, Smallest
  <1>3. PICK x \in U \ T : n = Len(node[x].path)
    BY <1>2
  <1>4. node[x].there /\ x # Root /\ x \in Id /\ node[x].parent \in U
    BY <1>3
  <1>5. PICK p \in Id : p = node[x].parent /\ Len(node[x].path) = Len(node[p].path) + 1
    BY <1>4, OneBelow
  <1>6. p \in U \ T
    BY <1>3, <1>4, <1>5 DEF Closed
  <1>7. Len(node[x].path) <= Len(node[p].path)
    BY <1>2, <1>3, <1>6
  <1>8. PICK k \in Nat : k = Len(node[p].path)
    BY RowFields DEF TreeInv
  <1>9. k + 1 <= k
    BY <1>5, <1>7, <1>8
  <1> QED BY <1>9

LEMMA CascadeClosed ==
  ASSUME TreeInv, NEW S \in SUBSET Id
  PROVE  /\ S \subseteq Cascade(S) /\ Cascade(S) \subseteq Id /\ Closed(Cascade(S))
         /\ \A T \in SUBSET Id : S \subseteq T /\ Closed(T) => Cascade(S) \subseteq T
  BY DEF Cascade, Closed

-----------------------------------------------------------------------------
(* The writes                                                              *)

\* A row keeps its place, its name and its path.
SamePlace(j) ==
  /\ node'[j].there = node[j].there /\ node'[j].kind = node[j].kind
  /\ node'[j].parent = node[j].parent /\ node'[j].name = node[j].name
  /\ node'[j].fold = node[j].fold /\ node'[j].path = node[j].path

LEMMA PlacesKept ==
  ASSUME TreeInv, NodeTyped', \A j \in Id : SamePlace(j)
  PROVE  NamesFolded' /\ FoldersAbove' /\ PathsTrue'
  <1>1. \A j \in Id \ {Root} : node[j].there => node[j].parent \in Id
    BY RowFields DEF TreeInv
  <1>2. NamesFolded'
    BY DEF TreeInv, NamesFolded, SamePlace
  <1>3. FoldersAbove'
    BY <1>1 DEF TreeInv, FoldersAbove, IsFolder, SamePlace
  <1>4. PathsTrue'
    <2> SUFFICES ASSUME NEW i \in Id \ {Root}, node'[i].there
                 PROVE  /\ node'[node'[i].parent].there
                        /\ node'[i].path = Append(node'[node'[i].parent].path, node'[i].name)
      BY DEF PathsTrue
    <2>1. PICK p \in Id : p = node[i].parent /\ p = node'[i].parent
      BY <1>1 DEF SamePlace
    <2>2. node[p].there /\ node[i].path = Append(node[p].path, node[i].name)
      BY <2>1 DEF TreeInv, PathsTrue, SamePlace
    <2> QED BY <2>1, <2>2 DEF SamePlace
  <1> QED BY <1>2, <1>3, <1>4

\* A new row is put below a live folder, under an id nothing refers to.
LEMMA InsertedWell ==
  ASSUME TreeInv, NEW i \in Id, ~node[i].there, \A j \in Id : node[j].there => node[j].trash # i,
         NEW p \in Id, IsLive(p), IsFolder(p), NEW n \in Name, NEW row \in Row,
         row.there, row.parent = p, row.name = n, row.fold = Fold[n],
         row.path = Append(node[p].path, n), row.trash = Live,
         node' = [node EXCEPT ![i] = row], SiblingNames(node')
  PROVE  TreeInv'
  <1>1. NodeTyped'
    BY DEF TreeInv, NodeTyped
  <1>2. /\ node'[i] = row /\ \A j \in Id : j # i => node'[j] = node[j]
        /\ i # Root /\ i # p /\ Root \in Id
    BY TreeAssumption DEF TreeInv, NodeTyped, RootStands, IsLive
  <1>3. \A j \in Id \ {Root} : node[j].there =>
          node[j].parent \in Id /\ node[j].parent # i /\ node[node[j].parent].there
    BY RowFields DEF TreeInv, PathsTrue
  <1>4. \A j \in Id : node'[j].there => j = i \/ node[j].there
    BY <1>2
  <1>5. RootStands' /\ NamesFolded'
    BY <1>2, <1>4 DEF TreeInv, RootStands, NamesFolded
  <1>6. FoldersAbove'
    BY <1>2, <1>3, <1>4 DEF TreeInv, FoldersAbove, IsFolder
  <1>7. LiveParents'
    BY <1>2, <1>3, <1>4 DEF TreeInv, LiveParents, IsLive, IsFolder
  <1>8. PathsTrue'
    BY <1>2, <1>3, <1>4 DEF TreeInv, PathsTrue, IsLive
  <1>9. TrashUnits'
    <2> SUFFICES ASSUME NEW j \in Id, IsTrashed(j)'
                 PROVE  /\ node'[node'[j].trash].there /\ node'[node'[j].trash].trash = node'[j].trash
                        /\ j # node'[j].trash => node'[node'[j].parent].trash = node'[j].trash
      BY DEF TrashUnits
    <2>1. j # i /\ IsTrashed(j) /\ node'[j] = node[j] /\ node[j].trash # i /\ j # Root
      BY <1>2 DEF IsTrashed, TreeInv, RootStands
    <2>2. PICK t \in Id : t = node[j].trash
      BY <2>1, RowFields DEF IsTrashed, TreeInv
    <2>3. node[j].there /\ node[j].parent \in Id /\ node[j].parent # i
      BY <1>3, <2>1 DEF IsTrashed
    <2>4. /\ node[t].there /\ node[t].trash = t
          /\ j # t => node[node[j].parent].trash = t
      BY <2>1, <2>2 DEF TreeInv, TrashUnits
    <2> QED BY <1>2, <2>1, <2>2, <2>3, <2>4
  <1> QED BY <1>1, <1>5, <1>6, <1>7, <1>8, <1>9 DEF TreeInv

\* The rows of one deletion.
LEMMA TrashedWell ==
  ASSUME TreeInv, NEW i \in Id \ {Root}, IsLive(i), NEW gone \in SUBSET Id,
         \A j \in Id : j \in gone <=> \/ j = i
                                      \/ IsFolder(i) /\ IsLive(j) /\ Beneath(node[i].path, node[j]),
         node' = [j \in Id |-> IF j \in gone THEN [node[j] EXCEPT !.trash = i] ELSE node[j]]
  PROVE  TreeInv'
  <1>1. ASSUME NEW j \in Id
        PROVE  /\ SamePlace(j) /\ node'[j] \in Row /\ (j \in gone => node'[j].trash = i)
               /\ j \notin gone => node'[j] = node[j]
    <2>1. node[j] \in Row
      BY DEF TreeInv, NodeTyped
    <2>2. PICK q : q = [node[j] EXCEPT !.trash = i]
      OBVIOUS
    <2>3. /\ q \in Row /\ q.trash = i /\ q.there = node[j].there /\ q.kind = node[j].kind
          /\ q.parent = node[j].parent /\ q.name = node[j].name /\ q.fold = node[j].fold
          /\ q.path = node[j].path
      BY <2>1, <2>2 DEF Row
    <2> QED BY <2>1, <2>2, <2>3 DEF SamePlace
  <1>2. NodeTyped'
    BY <1>1 DEF NodeTyped
  <1>3. NamesFolded' /\ FoldersAbove' /\ PathsTrue'
    BY <1>1, <1>2, PlacesKept
  <1>4. Root \notin gone /\ Root \in Id
    <2>1. node[Root].path = <<>> /\ node[i].path \in Seq(Name) /\ Root \in Id
      BY RowFields, TreeAssumption DEF TreeInv, RootStands
    <2> QED BY <2>1, PrefixOfEmpty DEF Beneath
  <1>5. RootStands'
    BY <1>1, <1>4 DEF TreeInv, RootStands
  <1>6. \A j \in Id : IsLive(j)' => IsLive(j) /\ j \notin gone
    BY <1>1, TreeAssumption DEF IsLive, SamePlace, Live
  <1>7. SiblingNames(node)'
    BY <1>1, <1>6 DEF TreeInv, SiblingNames, IsLive, SamePlace
  \* Whose parent goes, goes.
  <1>8. ASSUME NEW j \in Id \ {Root}, IsLive(j), node[j].parent \in gone PROVE j \in gone
    <2>1. PICK p \in Id : p = node[j].parent /\ p \in gone
      BY <1>8
    <2>2. node[j].there /\ node[j].path = Append(node[p].path, node[j].name) /\ node[j].name \in Name
      BY <1>8, <2>1, OneBelow DEF IsLive
    <2>3. node[p].path \in Seq(Name) /\ node[i].path \in Seq(Name)
      BY RowFields DEF TreeInv
    <2>4. IsFolder(i)
      BY <1>8, <2>1 DEF TreeInv, LiveParents
    <2>5. IsPrefix(node[i].path, node[p].path)
      BY <2>1, <2>3, PrefixItself DEF Beneath, IsStrictPrefix
    <2>6. Beneath(node[i].path, node[j])
      BY <2>2, <2>3, <2>5, PrefixStep DEF Beneath
    <2> QED BY <1>8, <2>4, <2>6
  <1>9. LiveParents'
    <2> SUFFICES ASSUME NEW j \in Id \ {Root}, IsLive(j)'
                 PROVE  IsLive(node[j].parent)' /\ IsFolder(node[j].parent)'
      BY DEF LiveParents
    <2>1. IsLive(j) /\ j \notin gone
      BY <1>6
    <2>2. PICK p \in Id : p = node[j].parent /\ p = node'[j].parent
      BY <1>1, RowFields DEF SamePlace, TreeInv
    <2>3. IsLive(p) /\ IsFolder(p) /\ p \notin gone
      BY <1>8, <2>1, <2>2 DEF TreeInv, LiveParents
    <2> QED BY <1>1, <2>2, <2>3 DEF IsLive, IsFolder
  \* Whose path goes on below the deleted one has a parent there, and that is one node.
  <1>10. ASSUME NEW j \in gone, j # i PROVE j # Root /\ node[j].parent \in gone
    <2>1. IsFolder(i) /\ IsLive(j) /\ Beneath(node[i].path, node[j]) /\ j # Root /\ j \in Id
      BY <1>4, <1>10
    <2>2. PICK p \in Id : p = node[j].parent /\ node[p].there
      BY <2>1, OneBelow DEF IsLive
    <2>3. node[j].path = Append(node[p].path, node[j].name) /\ node[j].name \in Name
      BY <2>1, <2>2, OneBelow DEF IsLive
    <2>4. node[p].path \in Seq(Name) /\ node[i].path \in Seq(Name)
      BY RowFields DEF TreeInv
    <2>5. IsPrefix(node[i].path, node[p].path)
      BY <2>1, <2>3, <2>4, PrefixStep DEF Beneath
    <2>6. IsLive(p)
      BY <2>1, <2>2 DEF TreeInv, LiveParents
    <2>7. CASE node[p].path = node[i].path
      BY <2>1, <2>2, <2>6, <2>7, LiveUnique
    <2>8. CASE node[p].path # node[i].path
      BY <2>1, <2>2, <2>5, <2>6, <2>8 DEF Beneath, IsStrictPrefix
    <2> QED BY <2>7, <2>8
  <1>11. TrashUnits'
    <2> SUFFICES ASSUME NEW j \in Id, IsTrashed(j)'
                 PROVE  /\ node'[node'[j].trash].there /\ node'[node'[j].trash].trash = node'[j].trash
                        /\ j # node'[j].trash => node'[node'[j].parent].trash = node'[j].trash
      BY DEF TrashUnits
    <2>1. CASE j \in gone
      <3>1. node'[j].trash = i /\ i \in gone /\ node'[i].there /\ node'[i].trash = i
        BY <1>1, <2>1 DEF SamePlace, IsLive
      <3>2. j # i => node'[node'[j].parent].trash = i
        BY <1>1, <1>10, <2>1 DEF SamePlace
      <3> QED BY <3>1, <3>2
    <2>2. CASE j \notin gone
      <3>1. IsTrashed(j) /\ node'[j] = node[j] /\ j # Root
        BY <1>1, <1>5, <2>2 DEF IsTrashed, RootStands
      <3>2. PICK t \in Id, p \in Id : t = node[j].trash /\ p = node[j].parent /\ t # Live
        BY <3>1, RowFields DEF IsTrashed, TreeInv
      <3>3. /\ node[t].there /\ node[t].trash = t /\ (j # t => node[p].trash = t)
        BY <3>1, <3>2 DEF TreeInv, TrashUnits
      <3>4. \A k \in Id : node[k].trash = t => k \notin gone
        BY <3>2 DEF IsLive
      <3> QED BY <1>1, <3>1, <3>2, <3>3, <3>4
    <2> QED BY <2>1, <2>2
  <1> QED BY <1>2, <1>3, <1>5, <1>7, <1>9, <1>11 DEF TreeInv

\* A deletion is taken back into a live folder.
LEMMA RestoredWell ==
  ASSUME TreeInv, NEW i \in Id, IsTrashed(i), node[i].trash = i, IsLive(node[i].parent),
         node' = [j \in Id |-> IF node[j].there /\ node[j].trash = i
                               THEN [node[j] EXCEPT !.trash = Live] ELSE node[j]],
         SiblingNames(node')
  PROVE  TreeInv'
  <1> DEFINE back == {j \in Id : node[j].there /\ node[j].trash = i}
  <1>1. ASSUME NEW j \in Id
        PROVE  /\ SamePlace(j) /\ node'[j] \in Row /\ (j \in back => node'[j].trash = Live)
               /\ j \notin back => node'[j] = node[j]
    <2>1. node[j] \in Row
      BY DEF TreeInv, NodeTyped
    <2>2. PICK q : q = [node[j] EXCEPT !.trash = Live]
      OBVIOUS
    <2>3. /\ q \in Row /\ q.trash = Live /\ q.there = node[j].there /\ q.kind = node[j].kind
          /\ q.parent = node[j].parent /\ q.name = node[j].name /\ q.fold = node[j].fold
          /\ q.path = node[j].path
      BY <2>1, <2>2 DEF Row
    <2> QED BY <2>1, <2>2, <2>3 DEF SamePlace
  <1>2. NodeTyped'
    BY <1>1 DEF NodeTyped
  <1>3. NamesFolded' /\ FoldersAbove' /\ PathsTrue'
    BY <1>1, <1>2, PlacesKept
  <1>4. RootStands' /\ Root \in Id /\ i # Live
    BY <1>1, TreeAssumption DEF TreeInv, RootStands, SamePlace, Live
  <1>5. LiveParents'
    <2> SUFFICES ASSUME NEW j \in Id \ {Root}, IsLive(j)'
                 PROVE  IsLive(node[j].parent)' /\ IsFolder(node[j].parent)'
      BY DEF LiveParents
    <2>1. PICK p \in Id : p = node[j].parent /\ p = node'[j].parent
      BY <1>1, RowFields DEF SamePlace, TreeInv
    <2>2. node[j].there /\ node[p].there /\ IsFolder(p)
      BY <1>1, <2>1 DEF IsLive, SamePlace, TreeInv, FoldersAbove, PathsTrue
    <2>3. IsLive(p) \/ p \in back
      <3>1. CASE j \in back
        BY <2>1, <2>2, <3>1, <1>4 DEF TreeInv, TrashUnits, IsTrashed
      <3>2. CASE j \notin back
        BY <1>1, <2>1, <3>2 DEF TreeInv, LiveParents, IsLive
      <3> QED BY <3>1, <3>2
    <2>4. IsLive(p)'
      BY <1>1, <2>2, <2>3 DEF IsLive, SamePlace
    <2> QED BY <1>1, <2>1, <2>2, <2>4 DEF IsFolder, SamePlace
  <1>6. TrashUnits'
    <2> SUFFICES ASSUME NEW j \in Id, IsTrashed(j)'
                 PROVE  /\ node'[node'[j].trash].there /\ node'[node'[j].trash].trash = node'[j].trash
                        /\ j # node'[j].trash => node'[node'[j].parent].trash = node'[j].trash
      BY DEF TrashUnits
    <2>1. j \notin back /\ IsTrashed(j) /\ node'[j] = node[j] /\ j # Root
      BY <1>1, <1>4 DEF IsTrashed, RootStands
    <2>2. PICK t \in Id, p \in Id : t = node[j].trash /\ p = node[j].parent /\ t # i
      BY <2>1, RowFields DEF IsTrashed, TreeInv
    <2>3. node[t].there /\ node[t].trash = t /\ (j # t => node[p].trash = t)
      BY <2>1, <2>2 DEF TreeInv, TrashUnits
    <2>4. \A k \in Id : node[k].trash = t => k \notin back
      BY <2>2
    <2> QED BY <1>1, <2>1, <2>2, <2>3, <2>4
  <1> QED BY <1>2, <1>3, <1>4, <1>5, <1>6 DEF TreeInv

\* What is purged takes with it all that hangs below it: nothing live, and whole deletions.
LEMMA PurgedWell ==
  ASSUME TreeInv, NEW S \in SUBSET Id, \A i \in S : IsTrashed(i), node' = Without(S)
  PROVE  TreeInv'
  <1>1. PICK C \in SUBSET Id : C = Cascade(S) /\ S \subseteq C /\ Closed(C)
    BY CascadeClosed
  <1>2. /\ NoRow \in Row /\ ~NoRow.there
    BY TreeAssumption DEF NoRow, Row, Path, Live
  <1>3. /\ NodeTyped' /\ \A j \in Id : node'[j].there <=> node[j].there /\ j \notin C
        /\ \A j \in Id : j \notin C => node'[j] = node[j]
    <2>1. \A j \in Id : node'[j] = IF j \in C THEN NoRow ELSE node[j]
      BY <1>1 DEF Without
    <2>2. NodeTyped'
      BY <1>1, <1>2 DEF Without, TreeInv, NodeTyped
    <2>3. \A j \in Id : node[j].there \in BOOLEAN
      BY RowFields DEF TreeInv
    <2> QED BY <1>2, <2>1, <2>2, <2>3
  <1>4. ASSUME NEW j \in C PROVE ~IsLive(j)
    <2> DEFINE T == {x \in Id : ~IsLive(x)}
    <2>1. S \subseteq T
      BY DEF IsTrashed, IsLive
    <2>2. Closed(T)
      BY DEF Closed, TreeInv, LiveParents
    <2>3. C \subseteq T
      BY <1>1, <2>1, <2>2, CascadeClosed
    <2> QED BY <2>3
  <1>5. Root \notin C /\ Root \in Id
    BY <1>4, TreeAssumption DEF TreeInv, RootStands, IsLive
  <1>6. ASSUME NEW j \in Id \ {Root}, node'[j].there
        PROVE  /\ j \notin C /\ node[j].there /\ node'[j] = node[j]
               /\ node[j].parent \in Id /\ node[j].parent \notin C
               /\ node'[node[j].parent] = node[node[j].parent]
    <2>1. j \notin C /\ node[j].there /\ node[j].parent \in Id
      BY <1>3, <1>6, RowFields DEF TreeInv
    <2> QED BY <1>1, <1>3, <2>1 DEF Closed
  <1>7. RootStands'
    BY <1>3, <1>5 DEF TreeInv, RootStands
  <1>8. NamesFolded' /\ FoldersAbove' /\ PathsTrue'
    <2>1. NamesFolded' /\ FoldersAbove'
      BY <1>6 DEF TreeInv, NamesFolded, FoldersAbove, IsFolder
    <2> SUFFICES ASSUME NEW j \in Id \ {Root}, node'[j].there
                 PROVE  /\ node'[node'[j].parent].there
                        /\ node'[j].path = Append(node'[node'[j].parent].path, node'[j].name)
      BY <2>1 DEF PathsTrue
    <2>2. PICK p \in Id : p = node[j].parent /\ node'[j] = node[j] /\ node'[p] = node[p] /\ node[j].there
      BY <1>6
    <2>3. node[p].there /\ node[j].path = Append(node[p].path, node[j].name)
      BY <2>2 DEF TreeInv, PathsTrue
    <2> QED BY <2>2, <2>3
  <1>9. SiblingNames(node)'
    BY <1>6 DEF TreeInv, SiblingNames
  <1>10. LiveParents'
    BY <1>6 DEF TreeInv, LiveParents, IsLive, IsFolder
  <1>11. TrashUnits'
    <2> SUFFICES ASSUME NEW j \in Id, IsTrashed(j)'
                 PROVE  /\ node'[node'[j].trash].there /\ node'[node'[j].trash].trash = node'[j].trash
                        /\ j # node'[j].trash => node'[node'[j].parent].trash = node'[j].trash
      BY DEF TrashUnits
    <2>1. j \in Id \ {Root} /\ node'[j].there
      BY <1>7 DEF IsTrashed, RootStands
    <2>2. /\ j \notin C /\ node'[j] = node[j] /\ IsTrashed(j)
          /\ node[j].parent \in Id /\ node'[node[j].parent] = node[node[j].parent]
      BY <1>6, <2>1 DEF IsTrashed
    <2>3. PICK t \in Id : t = node[j].trash /\ t # Live
      BY <2>2, RowFields DEF IsTrashed, TreeInv
    <2>4. node[t].there /\ node[t].trash = t /\ (j # t => node[node[j].parent].trash = t)
      BY <2>2, <2>3 DEF TreeInv, TrashUnits
    <2>5. t \notin C
      <3> DEFINE U == {x \in Id : node[x].there /\ node[x].trash = t}
      <3>1. ASSUME NEW x \in U, x # t PROVE node[x].there /\ x # Root /\ node[x].parent \in U
        <4>1. IsTrashed(x) /\ x # Root
          BY <2>3, <3>1 DEF IsTrashed, TreeInv, RootStands
        <4>2. node[x].parent \in Id /\ node[node[x].parent].there
          BY <3>1, <4>1, OneBelow
        <4>3. node[node[x].parent].trash = t
          BY <3>1, <4>1 DEF TreeInv, TrashUnits
        <4> QED BY <3>1, <4>1, <4>2, <4>3
      <3>2. ASSUME t \in C PROVE U \subseteq C
        <4> HIDE DEF U
        <4>1. U \in SUBSET Id
          BY DEF U
        <4> QED BY <1>1, <3>1, <3>2, <4>1, Descends
      <3>3. j \in U
        BY <2>2, <2>3 DEF IsTrashed
      <3> QED BY <2>2, <3>2, <3>3
    <2> QED BY <1>3, <2>2, <2>3, <2>4, <2>5
  <1> QED BY <1>3, <1>7, <1>8, <1>9, <1>10, <1>11 DEF TreeInv

\* A node goes to a live folder that is not below it, and all that has its path in front
\* goes along: nothing else has, as all of it hangs below the node.
RowsMoved(i, p, n, old, new) ==
  /\ node'[i].parent = p /\ node'[i].name = n /\ node'[i].fold = Fold[n] /\ node'[i].path = new
  /\ \A j \in Id :
       /\ node'[j].there = node[j].there /\ node'[j].kind = node[j].kind
       /\ node'[j].trash = node[j].trash
       /\ j # i => /\ node'[j].parent = node[j].parent
                   /\ node'[j].name = node[j].name /\ node'[j].fold = node[j].fold
                   /\ node'[j].path = IF IsFolder(i) /\ Beneath(old, node[j])
                                      THEN Shifted(old, new, node[j].path)
                                      ELSE node[j].path

LEMMA MovedWell ==
  ASSUME TreeInv, NEW i \in Id \ {Root}, IsLive(i), NEW p \in Id, IsLive(p), IsFolder(p),
         NEW n \in Name, NEW old, NEW new, old = node[i].path, new = Append(node[p].path, n),
         IsFolder(i) => p # i /\ ~IsPrefix(old, node[p].path),
         {j \in Id : Beneath(old, node[j])} \subseteq Cascade({i}), SiblingNames(node'),
         node' \in [Id -> Row],
         RowsMoved(i, p, n, old, new)
  PROVE  TreeInv'
  <1> USE DEF RowsMoved
  <1>1. /\ old \in Seq(Name) /\ node[p].path \in Seq(Name) /\ new \in Seq(Name) /\ Root \in Id
        /\ \A j \in Id : node[j].path \in Seq(Name)
    <2>1. old \in Seq(Name) /\ node[p].path \in Seq(Name) /\ \A j \in Id : node[j].path \in Seq(Name)
      BY RowFields DEF TreeInv
    <2> QED BY <2>1, AppendProperties, TreeAssumption
  <1>2. p # i
    BY DEF IsFolder
  <1>3. node'[p].path = node[p].path
    BY <1>2 DEF Beneath, IsStrictPrefix
  <1>4. RootStands'
    BY <1>1, PrefixOfEmpty DEF TreeInv, RootStands, Beneath
  <1>5. NamesFolded'
    BY DEF TreeInv, NamesFolded
  <1>6. \A j \in Id \ {Root} : node[j].there /\ j # i =>
          node[j].parent \in Id /\ node'[j].parent = node[j].parent /\ node[node[j].parent].there
    BY OneBelow
  <1>7. FoldersAbove'
    BY <1>6 DEF TreeInv, FoldersAbove, IsFolder
  <1>8. LiveParents'
    BY <1>6 DEF TreeInv, LiveParents, IsLive, IsFolder
  <1>9. TrashUnits'
    <2> SUFFICES ASSUME NEW j \in Id, IsTrashed(j)'
                 PROVE  /\ node'[node'[j].trash].there /\ node'[node'[j].trash].trash = node'[j].trash
                        /\ j # node'[j].trash => node'[node'[j].parent].trash = node'[j].trash
      BY DEF TrashUnits
    <2>1. IsTrashed(j) /\ j # i /\ j # Root /\ node[j].there /\ node'[j].trash = node[j].trash
      BY DEF IsTrashed, IsLive, TreeInv, RootStands
    <2>2. PICK t \in Id : t = node[j].trash
      BY <2>1, RowFields DEF IsTrashed, TreeInv
    <2>3. node[t].there /\ node[t].trash = t /\ (j # t => node[node[j].parent].trash = t)
      BY <2>1, <2>2 DEF TreeInv, TrashUnits
    <2> QED BY <1>6, <2>1, <2>2, <2>3
  \* One level down, a path goes on below the old one when its parent's does.
  <1>10. ASSUME NEW j \in Id \ {Root}, node[j].there
         PROVE  Beneath(old, node[j]) <=> IsPrefix(old, node[node[j].parent].path)
    <2>1. PICK k \in Id, m \in Name : k = node[j].parent /\ m = node[j].name
      BY <1>10, OneBelow
    <2>2. node[j].path = Append(node[k].path, m)
      BY <1>10, <2>1, OneBelow
    <2> QED BY <1>1, <1>10, <2>1, <2>2, PrefixStep DEF Beneath
  <1>11. ASSUME NEW j \in Id \ {Root}, node[j].there, Beneath(old, node[j])
         PROVE  node[j].parent = i \/ Beneath(old, node[node[j].parent])
    <2> DEFINE B == {x \in Id : Beneath(old, node[x])}
               T == {i} \cup {x \in Id \ {Root} : node[x].there /\ (node[x].parent = i \/ node[x].parent \in B)}
    <2>1. {i} \subseteq T /\ T \in SUBSET Id
      OBVIOUS
    <2>2. Closed(T)
      <3> SUFFICES ASSUME NEW x \in Id, node[x].there, x # Root, node[x].parent \in T PROVE x \in T
        BY DEF Closed
      <3>1. PICK y \in T : y = node[x].parent
        OBVIOUS
      <3>2. CASE y = i
        BY <3>1, <3>2
      <3>3. CASE y # i
        <4>1. y \in Id \ {Root} /\ node[y].there /\ (node[y].parent = i \/ node[y].parent \in B)
          BY <3>3
        <4>2. IsPrefix(old, node[node[y].parent].path)
          BY <1>1, <4>1, PrefixItself DEF Beneath, IsStrictPrefix
        <4>3. y \in B
          BY <1>10, <4>1, <4>2
        <4> QED BY <3>1, <4>3
      <3> QED BY <3>2, <3>3
    <2>3. Cascade({i}) \subseteq T
      <3> HIDE DEF T
      <3>1. {i} \in SUBSET Id
        OBVIOUS
      <3> QED BY <2>1, <2>2, <3>1, CascadeClosed
    <2>4. j \in T /\ j # i
      <3>1. j \in T
        BY <1>11, <2>3
      <3>2. j # i
        BY <1>11 DEF Beneath, IsStrictPrefix
      <3> QED BY <3>1, <3>2
    <2> QED BY <2>4
  <1>12. PathsTrue'
    <2> SUFFICES ASSUME NEW j \in Id \ {Root}, node'[j].there
                 PROVE  /\ node'[node'[j].parent].there
                        /\ node'[j].path = Append(node'[node'[j].parent].path, node'[j].name)
      BY DEF PathsTrue
    <2>1. CASE j = i
      BY <1>3, <2>1 DEF IsLive
    <2>2. CASE j # i
      <3>1. node[j].there
        OBVIOUS
      <3>2. PICK k \in Id, m \in Name : k = node[j].parent /\ m = node[j].name
        BY <3>1, OneBelow
      <3>3. node[k].there /\ node[j].path = Append(node[k].path, m) /\ node'[j].parent = k /\ node'[j].name = m
        BY <2>2, <3>1, <3>2, OneBelow
      <3>4. ASSUME Len(old) <= Len(node[k].path)
            PROVE  Shifted(old, new, node[j].path) = Append(Shifted(old, new, node[k].path), m)
        <4>1. PICK q \in Seq(Name), o \in Seq(Name), w \in Seq(Name) : q = node[k].path /\ o = old /\ w = new
          BY <1>1
        <4>2. Shifted(o, w, Append(q, m)) = Append(Shifted(o, w, q), m)
          <5>1. Len(o) <= Len(q)
            BY <3>4, <4>1
          <5> QED BY <5>1, ShiftedDown
        <4> QED BY <3>3, <4>1, <4>2
      <3>5. CASE ~IsFolder(i)
        <4>1. k # i
          BY <3>1, <3>2, <3>5 DEF TreeInv, FoldersAbove
        <4> QED BY <2>2, <3>3, <3>5, <4>1
      <3>6. CASE IsFolder(i) /\ k = i
        <4>0. IsPrefix(old, old) /\ Shifted(old, new, old) = new
          BY <1>1, PrefixItself, ShiftedItself
        <4>1. Beneath(old, node[j])
          BY <1>10, <3>1, <3>2, <3>6, <4>0
        <4>2. Len(old) <= Len(node[k].path)
          <5>1. Len(old) \in Nat
            BY <1>1, LenProperties
          <5> QED BY <3>6, <5>1
        <4>3. node'[j].path = Append(new, m)
          BY <2>2, <3>4, <3>6, <4>0, <4>1, <4>2
        <4>4. node'[j].path = Append(node'[k].path, m) /\ node'[k].there
          BY <3>3, <3>6, <4>3
        <4> QED BY <3>3, <4>4
      <3>7. CASE IsFolder(i) /\ k # i /\ Beneath(old, node[k])
        <4>1. IsPrefix(old, node[k].path) /\ Len(old) <= Len(node[k].path)
          BY <3>7 DEF Beneath, IsStrictPrefix, IsPrefix
        <4>2. Beneath(old, node[j])
          BY <1>10, <3>1, <3>2, <4>1
        <4> QED BY <2>2, <3>3, <3>4, <3>7, <4>1, <4>2
      <3>8. CASE IsFolder(i) /\ k # i /\ ~Beneath(old, node[k])
        <4>1. ~Beneath(old, node[j])
          BY <1>11, <3>1, <3>2, <3>8
        <4> QED BY <2>2, <3>3, <3>8, <4>1
      <3> QED BY <3>5, <3>6, <3>7, <3>8
    <2> QED BY <2>1, <2>2
  <1> QED BY <1>4, <1>5, <1>7, <1>8, <1>9, <1>12 DEF TreeInv, NodeTyped

(***************************************************************************)
(* What is seen by path                                                    *)
(***************************************************************************)

Seen == [FileSystem!Next]_Visible

LEMMA SamePrefix == \A s, t : FileSystem!IsPrefix(s, t) <=> IsPrefix(s, t)
  BY DEF FileSystem!IsPrefix, IsPrefix

LEMMA SameFront == \A s : FileSystem!Front(s) = Front(s)
  BY DEF FileSystem!Front, Front

\* Every live row is seen under its path, and nothing else is.
Shown ==
  /\ Visible = [q \in DOMAIN Visible |-> Visible[q]]
  /\ \A i \in Id : IsLive(i) => node[i].path \in DOMAIN Visible /\ Visible[node[i].path] = node[i].kind
  /\ \A q \in DOMAIN Visible : \E i \in Id : IsLive(i) /\ node[i].path = q

LEMMA RowsShown == TreeInv => Shown
  <1> SUFFICES ASSUME TreeInv PROVE Shown
    OBVIOUS
  <1>1. ASSUME NEW i \in Id, IsLive(i) PROVE PathAt(node[i].path) = i
    <2>1. PathAt(node[i].path) \in Id /\ IsLive(PathAt(node[i].path)) /\ node[PathAt(node[i].path)].path = node[i].path
      BY <1>1 DEF PathAt
    <2> QED BY <1>1, <2>1, LiveUnique
  <1> QED BY <1>1 DEF Shown, Visible

\* One row has a path.
Single == \A i, j \in Id : IsLive(i) /\ IsLive(j) /\ node[i].path = node[j].path => i = j

LEMMA OneEach == TreeInv => Single
  BY LiveUnique DEF Single

\* And so after a step.
LEMMA After == TreeInv' => Shown' /\ Single'
  <1>1. TreeInv => Shown /\ Single
    BY RowsShown, OneEach
  <1> QED BY <1>1, PTL

LEMMA Unseen ==
  ASSUME TreeInv, TreeInv',
         \A j \in Id : IsLive(j)' <=> IsLive(j),
         \A j \in Id : IsLive(j) => node'[j].path = node[j].path /\ node'[j].kind = node[j].kind
  PROVE  Seen
  <1>1. Shown /\ Shown'
    BY RowsShown, After
  <1>2. PICK v, w : v = Visible /\ w = Visible'
    OBVIOUS
  <1>3. /\ v = [q \in DOMAIN v |-> v[q]]
        /\ \A i \in Id : IsLive(i) => node[i].path \in DOMAIN v /\ v[node[i].path] = node[i].kind
        /\ \A q \in DOMAIN v : \E i \in Id : IsLive(i) /\ node[i].path = q
    BY <1>1, <1>2 DEF Shown
  <1>4. /\ w = [q \in DOMAIN w |-> w[q]]
        /\ \A i \in Id : IsLive(i) => node[i].path \in DOMAIN w /\ w[node[i].path] = node[i].kind
        /\ \A q \in DOMAIN w : \E i \in Id : IsLive(i) /\ node[i].path = q
    BY <1>1, <1>2 DEF Shown
  <1>5. DOMAIN v = DOMAIN w /\ \A q \in DOMAIN v : v[q] = w[q]
    BY <1>3, <1>4
  <1>6. v = w
    BY <1>3, <1>4, <1>5
  <1> QED BY <1>2, <1>6 DEF Seen

LEMMA Still == ASSUME node' = node PROVE Seen
  BY DEF Seen, Visible, PathAt, IsLive

\* A node comes into a live folder, with what is below it.
LEMMA AddSeen ==
  ASSUME TreeInv, TreeInv', NEW i \in Id \ {Root}, ~IsLive(i), IsLive(i)',
         NEW p \in Id, p = node'[i].parent, IsLive(p), node'[p].path = node[p].path,
         IsFolder(p),
         \A j \in Id : IsLive(j) => IsLive(j)' /\ node'[j].path = node[j].path /\ node'[j].kind = node[j].kind,
         \A j \in Id : IsLive(j)' => IsLive(j) \/ IsPrefix(node'[i].path, node'[j].path)
  PROVE  Seen
  <1>1. Shown /\ Shown' /\ Single'
    BY RowsShown, After
  <1>2. PICK v, w : v = Visible /\ w = Visible'
    OBVIOUS
  <1>3. /\ v = [q \in DOMAIN v |-> v[q]]
        /\ \A k \in Id : IsLive(k) => node[k].path \in DOMAIN v /\ v[node[k].path] = node[k].kind
        /\ \A q \in DOMAIN v : \E k \in Id : IsLive(k) /\ node[k].path = q
    BY <1>1, <1>2 DEF Shown
  <1>4. /\ w = [q \in DOMAIN w |-> w[q]]
        /\ \A k \in Id : IsLive(k)' => node'[k].path \in DOMAIN w /\ w[node'[k].path] = node'[k].kind
        /\ \A q \in DOMAIN w : \E k \in Id : IsLive(k)' /\ node'[k].path = q
    BY <1>1, <1>2 DEF Shown
  <1>5. PICK q : q = node'[i].path
    OBVIOUS
  <1>6. PICK a \in Seq(Name), n \in Name : a = node[p].path /\ q = Append(a, n)
    <2>1. node[p].path \in Seq(Name)
      BY RowFields DEF TreeInv
    <2>2. node'[i].path = Append(node'[p].path, node'[i].name) /\ node'[i].name \in Name
      BY DEF TreeInv, PathsTrue, NamesFolded, IsLive
    <2> QED BY <1>5, <2>1, <2>2
  <1>7. q # <<>> /\ Front(q) = a
    <2>1. PICK m \in Nat : m = Len(a)
      BY LenProperties
    <2>2. q \in Seq(Name) /\ Len(q) = m + 1 /\ \A x \in 1 .. m : q[x] = a[x]
      BY <1>6, <2>1, AppendProperties
    <2>3. q # <<>>
      BY <2>1, <2>2
    <2> QED BY <1>6, <2>3, FrontOfAppend
  <1>8. q \notin DOMAIN v
    <2> SUFFICES ASSUME NEW k \in Id, IsLive(k), node[k].path = q PROVE FALSE
      BY <1>3
    <2>1. IsLive(k)' /\ node'[k].path = node'[i].path
      BY <1>5
    <2>2. k = i
      BY <1>1, <2>1 DEF Single
    <2> QED BY <2>2
  <1>9. FileSystem!Room(v, q)
    BY <1>3, <1>6, <1>7, <1>8, SameFront DEF FileSystem!Room, FileSystem!Dir, IsFolder
  <1>10. q \in DOMAIN w
    BY <1>4, <1>5
  <1>11. \A x \in DOMAIN v : x \in DOMAIN w /\ w[x] = v[x]
    BY <1>3, <1>4
  <1>12. \A x \in DOMAIN w : x \in DOMAIN v \/ IsPrefix(q, x)
    BY <1>3, <1>4, <1>5
  <1>13. DOMAIN w = DOMAIN v \cup FileSystem!Subtree(w, q)
    BY <1>11, <1>12, SamePrefix DEF FileSystem!Subtree
  <1>14. FileSystem!Add
    BY <1>2, <1>9, <1>10, <1>11, <1>13 DEF FileSystem!Add
  <1> QED BY <1>14 DEF Seen, FileSystem!Next

\* Nothing live is below a file.
LEMMA FilesEmpty ==
  ASSUME TreeInv, NEW i \in Id, IsLive(i), NEW j \in Id, IsLive(j), Beneath(node[i].path, node[j])
  PROVE  IsFolder(i)
  <1> DEFINE B == {x \in Id : IsLive(x) /\ Beneath(node[i].path, node[x])}
             S == {Len(node[x].path) : x \in B}
  <1>1. S \subseteq Nat /\ S # {}
    <2>1. j \in B
      OBVIOUS
    <2>2. S # {}
      BY <2>1
    <2>3. S \subseteq Nat
      BY RowFields DEF TreeInv
    <2> QED BY <2>2, <2>3
  <1>2. PICK n \in S : \A m \in S : n <= m
    <2> HIDE DEF S
    <2> QED BY <1>1, Smallest
  <1>3. PICK x \in B : n = Len(node[x].path)
    BY <1>2
  <1>4. node[i].path \in Seq(Name) /\ x \in Id /\ IsLive(x) /\ Beneath(node[i].path, node[x])
    BY <1>3, RowFields DEF TreeInv
  <1>5. x # Root
    BY <1>4, PrefixOfEmpty DEF TreeInv, RootStands, Beneath
  <1>6. PICK p \in Id : p = node[x].parent /\ node[p].there
    BY <1>4, <1>5, OneBelow DEF IsLive
  <1>7. /\ node[x].path = Append(node[p].path, node[x].name) /\ node[x].name \in Name
        /\ Len(node[x].path) = Len(node[p].path) + 1
    BY <1>4, <1>5, <1>6, OneBelow DEF IsLive
  <1>8. node[p].path \in Seq(Name) /\ Len(node[p].path) \in Nat
    BY RowFields DEF TreeInv
  <1>9. IsPrefix(node[i].path, node[p].path)
    BY <1>4, <1>7, <1>8, PrefixStep DEF Beneath
  <1>10. IsLive(p) /\ IsFolder(p)
    BY <1>4, <1>5, <1>6 DEF TreeInv, LiveParents
  <1>11. CASE node[p].path = node[i].path
    BY <1>10, <1>11, LiveUnique
  <1>12. CASE node[p].path # node[i].path
    <2>1. p \in B
      BY <1>9, <1>10, <1>12 DEF Beneath, IsStrictPrefix, IsLive
    <2>2. Len(node[x].path) <= Len(node[p].path)
      BY <1>2, <1>3, <2>1
    <2> QED BY <1>7, <1>8, <2>2
  <1> QED BY <1>11, <1>12

\* A purge takes nothing live.
LEMMA PurgeUnseen ==
  ASSUME TreeInv, NEW S \in SUBSET Id, \A i \in S : IsTrashed(i), node' = Without(S) PROVE Seen
  <1>1. PICK C \in SUBSET Id : C = Cascade(S)
    BY CascadeClosed
  <1>2. PICK T \in SUBSET Id : \A x \in Id : x \in T <=> ~IsLive(x)
    <2>1. \A x \in Id : x \in {y \in Id : ~IsLive(y)} <=> ~IsLive(x)
      OBVIOUS
    <2>2. {y \in Id : ~IsLive(y)} \in SUBSET Id
      OBVIOUS
    <2> QED BY <2>1, <2>2
  <1>3. S \subseteq T
    BY <1>2 DEF IsTrashed, IsLive
  <1>4. Closed(T)
    BY <1>2 DEF Closed, TreeInv, LiveParents
  <1>5. C \subseteq T
    BY <1>1, <1>3, <1>4, CascadeClosed
  <1>6. \A j \in Id : node'[j] = IF j \in C THEN NoRow ELSE node[j]
    BY <1>1 DEF Without
  <1>7. ~NoRow.there
    BY DEF NoRow
  <1>8. \A j \in Id : IsLive(j)' <=> IsLive(j)
    BY <1>2, <1>5, <1>6, <1>7 DEF IsLive
  <1>9. \A j \in Id : IsLive(j) => node'[j].path = node[j].path /\ node'[j].kind = node[j].kind
    BY <1>2, <1>5, <1>6
  <1>10. TreeInv'
    BY PurgedWell
  <1> QED BY <1>8, <1>9, <1>10, Unseen

\* The rows of one deletion lie below the node that was deleted.
LEMMA UnitBelow ==
  ASSUME TreeInv, NEW i \in Id, IsTrashed(i), node[i].trash = i, NEW j \in Id, node[j].there, node[j].trash = i
  PROVE  IsPrefix(node[i].path, node[j].path)
  <1>1. PICK q \in Seq(Name) : q = node[i].path /\ IsPrefix(q, q)
    BY RowFields, PrefixItself DEF TreeInv
  <1>2. PICK T \in SUBSET Id : \A x \in Id : x \in T <=> IsPrefix(q, node[x].path)
    <2>1. \A x \in Id : x \in {y \in Id : IsPrefix(q, node[y].path)} <=> IsPrefix(q, node[x].path)
      OBVIOUS
    <2>2. {y \in Id : IsPrefix(q, node[y].path)} \in SUBSET Id
      OBVIOUS
    <2> QED BY <2>1, <2>2
  <1>3. Closed(T)
    <2> SUFFICES ASSUME NEW x \in Id, node[x].there, x # Root, node[x].parent \in T PROVE x \in T
      BY DEF Closed
    <2>1. PICK p \in T : p = node[x].parent /\ node[p].path \in Seq(Name)
      BY RowFields DEF TreeInv
    <2>2. node[x].path = Append(node[p].path, node[x].name) /\ node[x].name \in Name
      BY <2>1, OneBelow
    <2>3. IsStrictPrefix(q, node[x].path)
      BY <1>2, <2>1, <2>2, PrefixStep
    <2> QED BY <1>2, <2>3 DEF IsStrictPrefix
  <1>4. PICK U \in SUBSET Id : \A x \in Id : x \in U <=> node[x].there /\ node[x].trash = i
    <2>1. \A x \in Id : x \in {y \in Id : node[y].there /\ node[y].trash = i} <=> node[x].there /\ node[x].trash = i
      OBVIOUS
    <2>2. {y \in Id : node[y].there /\ node[y].trash = i} \in SUBSET Id
      OBVIOUS
    <2> QED BY <2>1, <2>2
  <1>5. ASSUME NEW x \in U, x # i PROVE node[x].there /\ x # Root /\ node[x].parent \in U
    <2>1. x \in Id /\ node[x].there /\ node[x].trash = i /\ i # Live
      BY <1>4 DEF IsTrashed
    <2>2. x # Root /\ IsTrashed(x)
      BY <2>1 DEF TreeInv, RootStands, IsTrashed
    <2>3. node[x].parent \in Id /\ node[node[x].parent].there
      BY <2>1, <2>2, OneBelow
    <2>4. node[node[x].parent].trash = i
      BY <1>5, <2>1, <2>2 DEF TreeInv, TrashUnits
    <2> QED BY <1>4, <2>1, <2>2, <2>3, <2>4
  <1>6. i \in T
    BY <1>1, <1>2
  <1>7. U \subseteq T
    BY <1>3, <1>5, <1>6, Descends
  <1> QED BY <1>1, <1>2, <1>4, <1>7

LEMMA TakeAwaySeen ==
  ASSUME TreeInv, TreeInv', NEW i \in Id \ {Root}, IsLive(i),
         \A j \in Id : IsLive(j)' <=> IsLive(j) /\ j # i /\ ~(IsFolder(i) /\ Beneath(node[i].path, node[j])),
         \A j \in Id : node'[j].path = node[j].path /\ node'[j].kind = node[j].kind
  PROVE  Seen
  <1>1. Shown /\ Shown' /\ Single
    BY RowsShown, OneEach, After
  <1>2. PICK v, w : v = Visible /\ w = Visible'
    OBVIOUS
  <1>3. /\ v = [q \in DOMAIN v |-> v[q]]
        /\ \A k \in Id : IsLive(k) => node[k].path \in DOMAIN v /\ v[node[k].path] = node[k].kind
        /\ \A q \in DOMAIN v : \E k \in Id : IsLive(k) /\ node[k].path = q
    BY <1>1, <1>2 DEF Shown
  <1>4. /\ w = [q \in DOMAIN w |-> w[q]]
        /\ \A k \in Id : IsLive(k)' => node[k].path \in DOMAIN w /\ w[node[k].path] = node[k].kind
        /\ \A q \in DOMAIN w : \E k \in Id : IsLive(k)' /\ node[k].path = q
    BY <1>1, <1>2 DEF Shown
  <1>5. PICK q \in Seq(Name) : q = node[i].path /\ IsPrefix(q, q)
    BY RowFields, PrefixItself DEF TreeInv
  <1>6. q \in DOMAIN v \ {<<>>}
    BY <1>3, <1>5, OneBelow DEF IsLive
  <1>7. ASSUME NEW k \in Id, IsLive(k) PROVE ~IsLive(k)' <=> IsPrefix(q, node[k].path)
    <2>1. Beneath(q, node[k]) => IsFolder(i)
      BY <1>5, <1>7, FilesEmpty
    <2>2. node[k].path = q => k = i
      BY <1>1, <1>5, <1>7 DEF Single
    <2>3. IsPrefix(q, node[k].path) <=> Beneath(q, node[k]) \/ node[k].path = q
      BY <1>5, <1>7 DEF Beneath, IsStrictPrefix, IsLive
    <2> QED BY <1>5, <1>7, <2>1, <2>2, <2>3
  <1>8. DOMAIN w = DOMAIN v \ FileSystem!Subtree(v, q)
    <2>1. ASSUME NEW x \in DOMAIN w PROVE x \in DOMAIN v /\ ~IsPrefix(q, x)
      <3>1. PICK k \in Id : IsLive(k)' /\ node[k].path = x
        BY <1>4
      <3>2. IsLive(k)
        BY <3>1
      <3> QED BY <1>3, <1>7, <3>1, <3>2
    <2>2. ASSUME NEW x \in DOMAIN v, ~IsPrefix(q, x) PROVE x \in DOMAIN w
      <3>1. PICK k \in Id : IsLive(k) /\ node[k].path = x
        BY <1>3
      <3> QED BY <1>4, <1>7, <2>2, <3>1
    <2> QED BY <2>1, <2>2, SamePrefix DEF FileSystem!Subtree
  <1>9. \A x \in DOMAIN w : w[x] = v[x]
    BY <1>3, <1>4
  <1>10. w = [x \in DOMAIN v \ FileSystem!Subtree(v, q) |-> v[x]]
    BY <1>4, <1>8, <1>9
  <1>11. FileSystem!TakeAway
    BY <1>2, <1>6, <1>10 DEF FileSystem!TakeAway
  <1> QED BY <1>11 DEF Seen, FileSystem!Next

LEMMA MoveSeen ==
  ASSUME TreeInv, TreeInv', NEW i \in Id \ {Root}, IsLive(i), NEW p \in Id, IsLive(p), IsFolder(p),
         NEW n \in Name, NEW old, NEW new, old = node[i].path, new = Append(node[p].path, n), old # new,
         IsFolder(i) => p # i /\ ~IsPrefix(old, node[p].path),
         RowsMoved(i, p, n, old, new)
  PROVE  Seen
  <1>1. Shown /\ Shown' /\ Single /\ Single'
    BY RowsShown, OneEach, After
  <1>2. PICK v, w : v = Visible /\ w = Visible'
    OBVIOUS
  <1>3. /\ v = [q \in DOMAIN v |-> v[q]]
        /\ \A k \in Id : IsLive(k) => node[k].path \in DOMAIN v /\ v[node[k].path] = node[k].kind
        /\ \A q \in DOMAIN v : \E k \in Id : IsLive(k) /\ node[k].path = q
    BY <1>1, <1>2 DEF Shown
  <1>4. /\ w = [q \in DOMAIN w |-> w[q]]
        /\ \A k \in Id : IsLive(k) => node'[k].path \in DOMAIN w /\ w[node'[k].path] = node[k].kind
        /\ \A q \in DOMAIN w : \E k \in Id : IsLive(k) /\ node'[k].path = q
    <2>1. \A k \in Id : IsLive(k)' <=> IsLive(k)
      BY DEF RowsMoved, IsLive
    <2>2. \A k \in Id : node'[k].kind = node[k].kind
      BY DEF RowsMoved
    <2> QED BY <1>1, <1>2, <2>1, <2>2 DEF Shown
  <1>5. PICK a \in Seq(Name) : a = node[p].path /\ new = Append(a, n)
    BY RowFields DEF TreeInv
  <1>6. /\ old \in Seq(Name) /\ new \in Seq(Name) /\ new # <<>> /\ Front(new) = a /\ old # <<>>
    <2>1. PICK m \in Nat : m = Len(a)
      BY LenProperties
    <2>2. new \in Seq(Name) /\ Len(new) = m + 1
      BY <1>5, <2>1, AppendProperties
    <2>3. new # <<>>
      BY <2>1, <2>2
    <2>4. old \in Seq(Name) /\ old # <<>>
      BY RowFields, OneBelow DEF IsLive, TreeInv
    <2> QED BY <1>5, <2>2, <2>3, <2>4, FrontOfAppend
  <1>7. ASSUME NEW k \in Id, IsLive(k), k # i
        PROVE  /\ IsPrefix(old, node[k].path) <=> IsFolder(i) /\ Beneath(old, node[k])
               /\ node[k].path # old
    <2>1. Beneath(old, node[k]) => IsFolder(i)
      BY <1>7, FilesEmpty
    <2>2. node[k].path # old
      BY <1>1, <1>7 DEF Single
    <2> QED BY <1>7, <2>1, <2>2 DEF Beneath, IsStrictPrefix, IsLive
  <1>8. ~IsPrefix(old, node[p].path)
    <2>1. CASE p = i
      BY <2>1
    <2>2. CASE p # i
      BY <1>7, <2>2
    <2> QED BY <2>1, <2>2
  <1>9. ~IsPrefix(old, new)
    BY <1>5, <1>6, <1>8, PrefixStep DEF IsStrictPrefix
  <1>10. ASSUME NEW k \in Id, IsLive(k) PROVE node'[k].path = FileSystem!Place(old, new, node[k].path)
    <2>1. CASE k = i
      <3>1. IsPrefix(old, old) /\ Shifted(old, new, old) = new
        BY <1>6, PrefixItself, ShiftedItself
      <3> QED BY <2>1, <3>1, SamePrefix DEF RowsMoved, FileSystem!Place, Shifted
    <2>2. CASE k # i
      BY <1>7, <1>10, <2>2, SamePrefix DEF RowsMoved, FileSystem!Place, Shifted
    <2> QED BY <2>1, <2>2
  <1>11. new \notin DOMAIN v
    <2> SUFFICES ASSUME NEW k \in Id, IsLive(k), node[k].path = new PROVE FALSE
      BY <1>3
    <2>1. k # i /\ ~IsPrefix(old, node[k].path)
      BY <1>9
    <2>2. node'[k].path = new /\ node'[i].path = new
      BY <1>10, <2>1, SamePrefix DEF FileSystem!Place, RowsMoved
    <2>3. IsLive(k)' /\ IsLive(i)'
      BY DEF RowsMoved, IsLive
    <2> QED BY <1>1, <2>1, <2>2, <2>3 DEF Single
  <1>12. FileSystem!Room(v, new)
    BY <1>3, <1>5, <1>6, <1>11, SameFront DEF FileSystem!Room, FileSystem!Dir, IsFolder
  <1>13. old \in DOMAIN v \ {<<>>} /\ new \in DOMAIN w
    <2>1. node'[i].path = new
      BY DEF RowsMoved
    <2> QED BY <1>3, <1>4, <1>6, <2>1
  <1>14. DOMAIN w = {FileSystem!Place(old, new, q) : q \in DOMAIN v}
    <2>1. ASSUME NEW x \in DOMAIN w PROVE \E q \in DOMAIN v : x = FileSystem!Place(old, new, q)
      BY <1>3, <1>4, <1>10
    <2>2. ASSUME NEW q \in DOMAIN v PROVE FileSystem!Place(old, new, q) \in DOMAIN w
      <3>1. PICK k \in Id : IsLive(k) /\ node[k].path = q
        BY <1>3
      <3> QED BY <1>4, <1>10, <3>1
    <2> QED BY <2>1, <2>2
  <1>15. \A q \in DOMAIN v : w[FileSystem!Place(old, new, q)] = v[q]
    BY <1>3, <1>4, <1>10
  <1>16. FileSystem!Move
    <2>1. \E from \in DOMAIN v \ {<<>>}, to \in DOMAIN w :
             /\ FileSystem!Room(v, to) /\ ~FileSystem!IsPrefix(from, to)
             /\ DOMAIN w = {FileSystem!Place(from, to, q) : q \in DOMAIN v}
             /\ \A q \in DOMAIN v : w[FileSystem!Place(from, to, q)] = v[q]
      <3>1. ~FileSystem!IsPrefix(old, new)
        BY <1>9, SamePrefix
      <3> QED BY <1>12, <1>13, <1>14, <1>15, <3>1
    <2> QED BY <1>2, <2>1 DEF FileSystem!Move
  <1> QED BY <1>16 DEF Seen, FileSystem!Next

-----------------------------------------------------------------------------
(* Requests                                                                *)

Named(q) == q.pc \in {"mkdir", "sibling", "new", "head", "move", "rewrite"} => q.name \in Name
TreeTyped == TypeOK /\ \A r \in Request : Named(req[r])

\* No other request is under way, and what this one has read is still so.
Turn(r) == \A o \in Request \ {r} : req[o].pc = "idle"

ReadsTrue(q) ==
  /\ q.pc \in {"mkdir", "sibling", "new", "rewrite"} =>
       IsLive(q.parent) /\ IsFolder(q.parent) /\ q.ppath = node[q.parent].path
  /\ q.pc = "head" => node[q.id].name = q.name
  /\ q.pc \in {"move", "rewrite", "trash"} => q.id # Root /\ IsLive(q.id) /\ q.seen = node[q.id]
  /\ q.pc = "rewrite" /\ q.seen.kind = "folder" =>
       q.parent # q.id /\ ~IsPrefix(q.seen.path, node[q.parent].path)
  /\ q.pc = "rewrite" => q.seen.path # Append(q.ppath, q.name)
  /\ q.pc \in {"restore", "untrash"} => IsTrashed(q.id) /\ node[q.id].trash = q.id /\ q.seen = node[q.id]
  /\ q.pc = "untrash" => IsLive(q.seen.parent)
  /\ q.pc = "purge" => IsTrashed(q.id)

OneByOne ==
  /\ \A r \in Request : req[r].pc # "idle" => Turn(r)
  /\ \A r \in Request : ReadsTrue(req[r])

\* What holds while no hazard strikes.
Sound == Hazards = {} /\ TreeInv /\ OneByOne

LEMMA IdleTyped == Idle \in Req /\ Idle.pc = "idle" /\ Named(Idle) /\ NoRow \in Row /\ RootRow \in Row
  <1>1. NoRow \in Row
    BY TreeAssumption DEF NoRow, Row, Path, Live
  <1>2. Idle \in Req
    BY <1>1, TreeAssumption DEF Idle, Req, ReqPc, Path
  <1>3. RootRow \in Row
    <2>1. PICK q : q = [NoRow EXCEPT !.there = TRUE, !.kind = "folder"]
      OBVIOUS
    <2> QED BY <1>1, <2>1 DEF RootRow, Row
  <1> QED BY <1>1, <1>2, <1>3 DEF Idle, Named

LEMMA ReqRow ==
  ASSUME TreeTyped, NEW r \in Request
  PROVE  /\ req[r] \in Req /\ Named(req[r]) /\ req[r].id \in Id /\ req[r].parent \in Id
         /\ req[r].seen \in Row /\ req[r].ppath \in Seq(Name) /\ NodeTyped
  BY DEF TreeTyped, TypeOK, Req, Path, NodeTyped

LEMMA Acts ==
  ASSUME Sound, NEW r \in Request, req[r].pc # "idle" \/ Starts(r) PROVE Turn(r)
  BY DEF Sound, OneByOne, Starts, Turn

\* A statement that reads.
LEMMA Read ==
  ASSUME TreeTyped, NEW r \in Request, NEW q \in Req, Named(q), node' = node, req' = [req EXCEPT ![r] = q],
         Sound => Turn(r) /\ ReadsTrue(q)
  PROVE  TreeTyped' /\ (Sound => Sound' /\ Seen)
  <1>1. req' \in [Request -> Req] /\ req'[r] = q /\ \A o \in Request \ {r} : req'[o] = req[o]
    BY DEF TreeTyped, TypeOK
  <1>2. TreeTyped'
    BY <1>1 DEF TreeTyped, TypeOK, Named
  <1>3. ASSUME Sound PROVE Sound' /\ Seen
    <2>1. TreeInv'
      BY <1>3 DEF Sound, TreeInv, NodeTyped, RootStands, NamesFolded, FoldersAbove, LiveParents, PathsTrue,
                  TrashUnits, IsFolder, IsLive, IsTrashed
    <2>2. \A o \in Request : req'[o].pc # "idle" => Turn(o)'
      BY <1>1, <1>3 DEF Turn
    <2>3. ASSUME NEW o \in Request PROVE ReadsTrue(req[o])'
      <3>1. PICK k : k = req'[o] /\ ReadsTrue(k)
        BY <1>1, <1>3 DEF Sound, OneByOne
      <3> QED BY <3>1 DEF ReadsTrue, IsLive, IsFolder, IsTrashed
    <2> QED BY <1>3, <2>1, <2>2, <2>3, Still DEF Sound, OneByOne
  <1> QED BY <1>2, <1>3

\* The transaction that writes, with which a request ends.
LEMMA Wrote ==
  ASSUME TreeTyped, NEW r \in Request, Ends(r), NodeTyped', Sound => Turn(r) /\ TreeInv' /\ Seen
  PROVE  TreeTyped' /\ (Sound => Sound' /\ Seen)
  <1>1. req' \in [Request -> Req] /\ req'[r] = Idle /\ \A o \in Request \ {r} : req'[o] = req[o]
    BY IdleTyped DEF TreeTyped, TypeOK, Ends
  <1>2. TreeTyped'
    BY <1>1, IdleTyped DEF TreeTyped, TypeOK, NodeTyped, Named
  <1>3. ASSUME Sound PROVE Sound' /\ Seen
    <2>1. \A o \in Request : req'[o].pc = "idle"
      BY <1>1, <1>3, IdleTyped DEF Turn
    <2>2. OneByOne'
      BY <2>1 DEF OneByOne, Turn, ReadsTrue
    <2> QED BY <1>3, <2>2 DEF Sound
  <1> QED BY <1>2, <1>3

\* A purge of the background or of the whole trash.
LEMMA WroteAlone ==
  ASSUME TreeTyped, UNCHANGED req, NodeTyped', Sound => (\A o \in Request : req[o].pc = "idle") /\ TreeInv' /\ Seen
  PROVE  TreeTyped' /\ (Sound => Sound' /\ Seen)
  <1>1. TreeTyped'
    BY DEF TreeTyped, TypeOK, NodeTyped
  <1>2. ASSUME Sound PROVE Sound' /\ Seen
    BY <1>2 DEF Sound, OneByOne, Turn, ReadsTrue
  <1> QED BY <1>1, <1>2

LEMMA ReadParentKeeps ==
  ASSUME TreeTyped, NEW r \in Request, NEW p \in Id, NEW n \in Name, NEW pc \in {"mkdir", "sibling"},
         ReadParent(r, p, n, pc)
  PROVE  TreeTyped' /\ (Sound => Sound' /\ Seen)
  <1>1. PICK q : q = [Idle EXCEPT !.pc = pc, !.parent = p, !.name = n, !.ppath = node[p].path]
    OBVIOUS
  <1>2. /\ q \in Req /\ q.pc = pc /\ q.parent = p /\ q.name = n /\ q.ppath = node[p].path
    <2>1. node[p].path \in Path
      BY DEF TreeTyped, TypeOK, Row
    <2> QED BY <1>1, <2>1, IdleTyped DEF Req, ReqPc
  <1>3. /\ node' = node /\ req' = [req EXCEPT ![r] = q] /\ Starts(r) /\ IsLive(p) /\ IsFolder(p)
    BY <1>1 DEF ReadParent
  <1>4. Named(q) /\ ReadsTrue(q)
    BY <1>2, <1>3 DEF Named, ReadsTrue
  <1> QED BY <1>2, <1>3, <1>4, Read, Acts

LEMMA InsertKeeps ==
  ASSUME TreeTyped, NEW r \in Request, NEW k \in {"folder", "file"}, req[r].pc \in {"mkdir", "new"}, Insert(r, k)
  PROVE  TreeTyped' /\ (Sound => Sound' /\ Seen)
  <1>1. PICK p \in Id, n \in Name, pp \in Seq(Name) : p = req[r].parent /\ n = req[r].name /\ pp = req[r].ppath
    BY ReqRow DEF Named
  <1>2. Ends(r)
    BY DEF Insert
  <1>3. CASE node' = node
    <2>1. NodeTyped'
      BY <1>3, ReqRow DEF NodeTyped
    <2>2. Sound => TreeInv' /\ Seen
      BY <1>3, Still DEF Sound, TreeInv, NodeTyped, RootStands, NamesFolded, FoldersAbove, LiveParents, PathsTrue,
                  TrashUnits, IsFolder, IsLive, IsTrashed
    <2> QED BY <1>2, <2>1, <2>2, Wrote, Acts
  <1>4. ASSUME NEW i \in Fresh, node' = [node EXCEPT ![i] = NewRow(r, k)], SiblingNames(node')
        PROVE  TreeTyped' /\ (Sound => Sound' /\ Seen)
    <2>1. PICK row : row = NewRow(r, k)
      OBVIOUS
    <2>2. /\ row \in Row /\ row.there /\ row.parent = p /\ row.name = n /\ row.fold = Fold[n]
          /\ row.path = Append(pp, n) /\ row.trash = Live
      <3>1. Append(pp, n) \in Path /\ Fold[n] \in Name
        BY AppendProperties, TreeAssumption DEF Path
      <3>2. PICK w \in Path : w = Append(pp, n)
        BY <3>1
      <3>3. row = [there |-> TRUE, kind |-> k, parent |-> p, name |-> n, fold |-> Fold[n],
                   path |-> w, trash |-> Live]
        BY <1>1, <2>1, <3>2 DEF NewRow, JoinPath
      <3>4. row \in Row /\ row.path = w
        BY <3>1, <3>3 DEF Row
      <3> QED BY <3>2, <3>3, <3>4
    <2>3. i \in Id /\ ~node[i].there /\ \A j \in Id : node[j].there => node[j].trash # i
      BY DEF Fresh
    <2>4. NodeTyped'
      BY <1>4, <2>1, <2>2, ReqRow DEF NodeTyped
    <2>5. ASSUME Sound PROVE TreeInv' /\ Seen
      <3>1. IsLive(p) /\ IsFolder(p) /\ pp = node[p].path /\ TreeInv
        BY <1>1, <2>5 DEF Sound, OneByOne, ReadsTrue
      <3>2. TreeInv'
        BY <1>4, <2>1, <2>2, <2>3, <3>1, InsertedWell
      <3>3. node'[i] = row /\ \A j \in Id : j # i => node'[j] = node[j]
        BY <1>4, <2>1, <2>3, <3>1 DEF TreeInv, NodeTyped
      <3>4. i # Root /\ i # p /\ ~IsLive(i) /\ IsLive(i)' /\ row.path \in Seq(Name)
        BY <2>2, <2>3, <3>1, <3>3 DEF TreeInv, RootStands, IsLive, Row, Path
      <3>5. \A j \in Id : IsLive(j)' <=> IsLive(j) \/ j = i
        BY <3>3, <3>4 DEF IsLive
      <3>6. \A j \in Id : IsLive(j)' => IsLive(j) \/ IsPrefix(node'[i].path, node'[j].path)
        BY <3>3, <3>4, <3>5, PrefixItself
      <3>7. \A j \in Id : IsLive(j) => IsLive(j)' /\ node'[j].path = node[j].path /\ node'[j].kind = node[j].kind
        BY <3>3, <3>4, <3>5
      <3>8. p = node'[i].parent /\ node'[p].path = node[p].path /\ i \in Id \ {Root}
        BY <2>2, <2>3, <3>3, <3>4
      <3> QED BY <3>1, <3>2, <3>4, <3>6, <3>7, <3>8, AddSeen
    <2> QED BY <1>2, <2>4, <2>5, Wrote, Acts
  <1> QED BY <1>3, <1>4 DEF Insert

LEMMA SiblingKeeps ==
  ASSUME TreeTyped, NEW r \in Request, FindSibling(r) PROVE TreeTyped' /\ (Sound => Sound' /\ Seen)
  <1>1. req[r].pc = "sibling" /\ node' = node /\ req[r].name \in Name
    BY ReqRow DEF FindSibling, Named
  <1>2. CASE req' = [req EXCEPT ![r].pc = "new"]
    <2>1. PICK q : q = [req[r] EXCEPT !.pc = "new"]
      OBVIOUS
    <2>2. /\ q \in Req /\ q.pc = "new" /\ q.parent = req[r].parent /\ q.name = req[r].name
          /\ q.ppath = req[r].ppath
      BY <2>1, ReqRow DEF Req, ReqPc
    <2>3. Named(q) /\ (Sound => ReadsTrue(q))
      BY <1>1, <2>2 DEF Named, Sound, OneByOne, ReadsTrue
    <2> QED BY <1>1, <1>2, <2>1, <2>2, <2>3, Read, Acts
  <1>3. ASSUME NEW i \in Id, "recase" \in Hazards \/ node[i].name = req[r].name,
               req' = [req EXCEPT ![r].pc = "head", ![r].id = i]
        PROVE  TreeTyped' /\ (Sound => Sound' /\ Seen)
    <2>1. PICK q : q = [req[r] EXCEPT !.pc = "head", !.id = i]
      OBVIOUS
    <2>2. q \in Req /\ q.pc = "head" /\ q.id = i /\ q.name = req[r].name
      BY <2>1, ReqRow DEF Req, ReqPc
    <2>3. Named(q) /\ (Sound => ReadsTrue(q))
      BY <1>1, <1>3, <2>2 DEF Named, Sound, ReadsTrue
    <2>4. req' = [req EXCEPT ![r] = q]
      BY <1>3, <2>1, ReqRow DEF TreeTyped, TypeOK, Req
    <2> QED BY <1>1, <2>2, <2>3, <2>4, Read, Acts
  <1>4. CASE Ends(r)
    <2>1. req' = [req EXCEPT ![r] = Idle]
      BY <1>4 DEF Ends
    <2>2. ReadsTrue(Idle)
      BY IdleTyped DEF ReadsTrue
    <2> QED BY <1>1, <2>1, <2>2, IdleTyped, Read, Acts
  <1> QED BY <1>2, <1>3, <1>4 DEF FindSibling

LEMMA Failing ==
  ASSUME TreeTyped, NEW r \in Request, req[r].pc # "idle", Ends(r), node' = node
  PROVE  TreeTyped' /\ (Sound => Sound' /\ Seen)
  <1>1. req' = [req EXCEPT ![r] = Idle]
    BY DEF Ends
  <1>2. ReadsTrue(Idle)
    BY IdleTyped DEF ReadsTrue
  <1> QED BY <1>1, <1>2, IdleTyped, Read, Acts

LEMMA VersionKeeps ==
  ASSUME TreeTyped, NEW r \in Request, PutVersion(r) PROVE TreeTyped' /\ (Sound => Sound' /\ Seen)
  <1>1. PICK i \in Id : i = req[r].id /\ req[r].pc = "head" /\ Ends(r) /\ req[r].name \in Name
    BY ReqRow DEF PutVersion, Named
  <1>2. CASE node' = node
    BY <1>1, <1>2, Failing
  <1>3. CASE node' = [node EXCEPT ![i].name = req[r].name]
    <2>1. PICK row : row = [node[i] EXCEPT !.name = req[r].name]
      OBVIOUS
    <2>2. row \in Row /\ node' = [node EXCEPT ![i] = row]
      <3>1. node[i] \in Row
        BY DEF TreeTyped, TypeOK
      <3>2. row \in Row
        BY <1>1, <2>1, <3>1 DEF Row
      <3> QED BY <1>3, <2>1, <3>2
    <2>3. NodeTyped'
      BY <2>2, ReqRow DEF NodeTyped
    <2>4. ASSUME Sound PROVE node' = node
      <3>1. node[i].name = req[r].name
        BY <1>1, <2>4 DEF Sound, OneByOne, ReadsTrue
      <3>2. row = node[i]
        BY <2>1, <3>1 DEF TreeTyped, TypeOK, Row
      <3> QED BY <2>2, <3>2 DEF TreeTyped, TypeOK
    <2>5. CASE Sound
      BY <1>1, <2>4, <2>5, Failing
    <2>6. CASE ~Sound
      BY <1>1, <2>3, <2>6, Wrote
    <2> QED BY <2>5, <2>6
  <1> QED BY <1>1, <1>2, <1>3 DEF PutVersion

LEMMA GetForMoveKeeps ==
  ASSUME TreeTyped, NEW r \in Request, NEW i \in Id, NEW p \in Id, NEW n \in Name, GetForMove(r, i, p, n)
  PROVE  TreeTyped' /\ (Sound => Sound' /\ Seen)
  <1>1. PICK q : q = [Idle EXCEPT !.pc = "move", !.id = i, !.seen = node[i], !.parent = p, !.name = n]
    OBVIOUS
  <1>2. q \in Req /\ q.pc = "move" /\ q.id = i /\ q.seen = node[i] /\ q.parent = p /\ q.name = n
    <2>1. node[i] \in Row
      BY DEF TreeTyped, TypeOK
    <2> QED BY <1>1, <2>1, IdleTyped DEF Req, ReqPc
  <1>3. node' = node /\ req' = [req EXCEPT ![r] = q] /\ Starts(r) /\ IsLive(i) /\ i # Root
    BY <1>1 DEF GetForMove
  <1>4. Named(q) /\ ReadsTrue(q)
    BY <1>2, <1>3 DEF Named, ReadsTrue
  <1> QED BY <1>2, <1>3, <1>4, Read, Acts

LEMMA CheckMoveKeeps ==
  ASSUME TreeTyped, NEW r \in Request, CheckMove(r) PROVE TreeTyped' /\ (Sound => Sound' /\ Seen)
  <1>1. PICK p \in Id : p = req[r].parent /\ req[r].pc = "move" /\ node' = node /\ req[r].name \in Name
    BY ReqRow DEF CheckMove, Named
  <1>2. CASE Ends(r)
    BY <1>1, <1>2, Failing
  <1>3. ASSUME IsLive(p), IsFolder(p), ~IntoItself(r, p),
               p # req[r].seen.parent \/ Append(node[p].path, req[r].name) # req[r].seen.path,
               req' = [req EXCEPT ![r].pc = "rewrite", ![r].ppath = node[p].path]
        PROVE  TreeTyped' /\ (Sound => Sound' /\ Seen)
    <2>1. PICK q : q = [req[r] EXCEPT !.pc = "rewrite", !.ppath = node[p].path]
      OBVIOUS
    <2>2. /\ q \in Req /\ q.pc = "rewrite" /\ q.ppath = node[p].path /\ q.name = req[r].name
          /\ q.parent = p /\ q.id = req[r].id /\ q.seen = req[r].seen
      <3>1. node[p].path \in Path
        BY DEF TreeTyped, TypeOK, Row
      <3> QED BY <1>1, <2>1, <3>1, ReqRow DEF Req, ReqPc
    <2>3. Named(q)
      BY <1>1, <2>2 DEF Named
    <2>4. ASSUME Sound PROVE ReadsTrue(q)
      <3>1. PICK i \in Id : i = q.id /\ i # Root /\ IsLive(i) /\ q.seen = node[i] /\ TreeInv
        BY <1>1, <2>2, <2>4, ReqRow DEF Sound, OneByOne, ReadsTrue
      <3>2. PICK h \in Id : h = node[i].parent /\ IsLive(h)
        BY <3>1, RowFields DEF TreeInv, LiveParents
      <3>3. node[i].path = Append(node[h].path, node[i].name) /\ node[i].name \in Name
        BY <3>1, <3>2, OneBelow DEF IsLive
      <3>4. node[h].path \in Seq(Name) /\ node[p].path \in Seq(Name)
        BY <3>1, RowFields DEF TreeInv
      <3>5. q.seen.path # Append(q.ppath, q.name)
        <4> SUFFICES ASSUME q.seen.path = Append(q.ppath, q.name) PROVE FALSE
          OBVIOUS
        <4>1. node[p].path = node[h].path
          <5>1. PICK a \in Seq(Name), b \in Seq(Name), m \in Name, n \in Name :
                  a = node[p].path /\ b = node[h].path /\ m = req[r].name /\ n = node[i].name
            BY <1>1, <3>3, <3>4
          <5>2. Append(a, m) = Append(b, n)
            <6>1. q.ppath = a /\ q.name = m /\ q.seen.path = node[i].path
              BY <2>2, <3>1, <5>1
            <6>2. node[i].path = Append(b, n)
              BY <3>3, <5>1
            <6> QED BY <6>1, <6>2
          <5>3. a = b
            BY <5>2, SameSteps
          <5> QED BY <5>1, <5>3
        <4>2. p = h
          BY <1>3, <3>1, <3>2, <4>1, LiveUnique
        <4> QED BY <1>3, <2>2, <3>1, <3>2, <4>2
      <3> QED BY <1>1, <1>3, <2>2, <3>1, <3>5 DEF ReadsTrue, IntoItself
    <2>5. req' = [req EXCEPT ![r] = q]
      BY <1>3, <2>1, ReqRow DEF TreeTyped, TypeOK, Req
    <2> QED BY <1>1, <2>2, <2>3, <2>4, <2>5, Read, Acts
  <1> QED BY <1>1, <1>2, <1>3 DEF CheckMove, JoinPath

\* What the second UPDATE of a move does to a row.
LEMMA SplicedRow ==
  ASSUME NEW old \in Seq(Name), NEW new \in Seq(Name), NEW row \in Row, NEW q, q = Spliced(old, new, row)
  PROVE  /\ q \in Row /\ q.there = row.there /\ q.kind = row.kind /\ q.trash = row.trash
         /\ q.parent = row.parent /\ q.name = row.name /\ q.fold = row.fold
         /\ q.path = IF Beneath(old, row) THEN Shifted(old, new, row.path) ELSE row.path
  <1>1. CASE Beneath(old, row)
    <2>1. row.path \in Seq(Name) /\ Len(old) <= Len(row.path)
      BY <1>1 DEF Row, Path, Beneath, IsStrictPrefix, IsPrefix
    <2>2. PICK w \in Path : w = Shifted(old, new, row.path)
      BY <2>1, TailTyped, ConcatProperties DEF Shifted, Path
    <2>3. q = [row EXCEPT !.path = w]
      BY <1>1, <2>2 DEF Spliced, Shifted
    <2> QED BY <1>1, <2>2, <2>3 DEF Row
  <1>2. CASE ~Beneath(old, row)
    BY <1>2 DEF Spliced
  <1> QED BY <1>1, <1>2

LEMMA MoveKeeps ==
  ASSUME TreeTyped, NEW r \in Request, MoveOrRename(r) PROVE TreeTyped' /\ (Sound => Sound' /\ Seen)
  <1>1. PICK i \in Id, p \in Id, n \in Name, old \in Seq(Name), pp \in Seq(Name), kind \in {"folder", "file"} :
          /\ i = req[r].id /\ p = req[r].parent /\ n = req[r].name /\ old = req[r].seen.path
          /\ pp = req[r].ppath /\ req[r].pc = "rewrite" /\ kind = req[r].seen.kind
    BY ReqRow DEF MoveOrRename, Named, Row, Path
  <1>2. PICK new \in Seq(Name) : new = Append(pp, n)
    BY AppendProperties
  <1>3. PICK mine : mine = IF node[i].there
                           THEN [node[i] EXCEPT !.parent = p, !.name = n, !.fold = Fold[n], !.path = new]
                           ELSE node[i]
    OBVIOUS
  <1>4. PICK moved : moved = [node EXCEPT ![i] = mine]
    OBVIOUS
  <1>5. PICK below : below = IF kind = "folder" THEN [j \in Id |-> Spliced(old, new, moved[j])] ELSE moved
    OBVIOUS
  <1>6. /\ "samepath" \in Hazards \/ {j \in Id : Beneath(old, node[j])} \subseteq Cascade({i})
        /\ node' = IF node[p].there /\ SiblingNames(moved) THEN below ELSE node
        /\ Ends(r)
    <2>1. moved = [node EXCEPT ![req[r].id] =
                     IF @.there THEN [@ EXCEPT !.parent = req[r].parent, !.name = req[r].name,
                                               !.fold = Fold[req[r].name],
                                               !.path = Append(req[r].ppath, req[r].name)] ELSE @]
      BY <1>1, <1>2, <1>3, <1>4 DEF TreeTyped, TypeOK
    <2>2. below = IF req[r].seen.kind = "folder"
                    THEN [j \in Id |-> Spliced(req[r].seen.path, Append(req[r].ppath, req[r].name), moved[j])]
                    ELSE moved
      BY <1>1, <1>2, <1>5
    <2>3. node' = IF node[req[r].parent].there /\ SiblingNames(moved) THEN below ELSE node
      BY <2>1, <2>2 DEF MoveOrRename, JoinPath
    <2>4. "samepath" \in Hazards \/ {j \in Id : Beneath(req[r].seen.path, node[j])} \subseteq Cascade({req[r].id})
      BY DEF MoveOrRename
    <2>5. Ends(r)
      BY DEF MoveOrRename
    <2> QED BY <1>1, <2>3, <2>4, <2>5
  <1>7. /\ mine \in Row
        /\ node[i].there => /\ mine.there /\ mine.kind = node[i].kind /\ mine.trash = node[i].trash
                            /\ mine.parent = p /\ mine.name = n /\ mine.fold = Fold[n] /\ mine.path = new
    <2>1. node[i] \in Row /\ Fold[n] \in Name /\ new \in Path
      BY TreeAssumption DEF TreeTyped, TypeOK, Path
    <2> QED BY <1>3, <2>1 DEF Row
  <1>8. moved \in [Id -> Row] /\ moved[i] = mine /\ \A j \in Id : j # i => moved[j] = node[j]
    BY <1>4, <1>7 DEF TreeTyped, TypeOK
  <1>9. ASSUME NEW j \in Id
        PROVE  /\ below[j] \in Row /\ below[j].there = moved[j].there /\ below[j].kind = moved[j].kind
               /\ below[j].trash = moved[j].trash /\ below[j].parent = moved[j].parent
               /\ below[j].name = moved[j].name /\ below[j].fold = moved[j].fold
               /\ below[j].path = IF kind = "folder" /\ Beneath(old, moved[j])
                                  THEN Shifted(old, new, moved[j].path) ELSE moved[j].path
    <2>1. moved[j] \in Row
      BY <1>8
    <2>2. CASE kind = "folder"
      <3>1. PICK row \in Row : row = moved[j]
        BY <2>1
      <3>2. PICK q : q = Spliced(old, new, row)
        OBVIOUS
      <3>3. /\ q \in Row /\ q.there = row.there /\ q.kind = row.kind /\ q.trash = row.trash
            /\ q.parent = row.parent /\ q.name = row.name /\ q.fold = row.fold
            /\ q.path = IF Beneath(old, row) THEN Shifted(old, new, row.path) ELSE row.path
        BY <3>2, SplicedRow
      <3>4. below[j] = q
        BY <1>5, <2>2, <3>1, <3>2
      <3> QED BY <2>2, <3>1, <3>3, <3>4
    <2>3. CASE kind # "folder"
      BY <1>5, <2>1, <2>3
    <2> QED BY <2>2, <2>3
  <1>10. below \in [Id -> Row]
    BY <1>5, <1>8, <1>9
  <1>11. CASE ~(node[p].there /\ SiblingNames(moved))
    BY <1>1, <1>6, <1>11, Failing
  <1>12. CASE node[p].there /\ SiblingNames(moved)
    <2>1. node' = below /\ NodeTyped'
      BY <1>6, <1>10, <1>12 DEF NodeTyped
    <2>2. ASSUME Sound PROVE TreeInv' /\ Seen
      <3>1. /\ TreeInv /\ i # Root /\ IsLive(i) /\ IsLive(p) /\ IsFolder(p) /\ pp = node[p].path
            /\ old = node[i].path /\ kind = node[i].kind
            /\ kind = "folder" => p # i /\ ~IsPrefix(old, node[p].path)
            /\ old # new
        BY <1>1, <1>2, <2>2 DEF Sound, OneByOne, ReadsTrue
      <3>2. SiblingNames(node')
        BY <1>9, <1>12, <2>1 DEF SiblingNames
      <3>3. {j \in Id : Beneath(old, node[j])} \subseteq Cascade({i})
        BY <1>6, <2>2 DEF Sound
      <3>4. /\ node'[i].parent = p /\ node'[i].name = n /\ node'[i].fold = Fold[n] /\ node'[i].path = new
            /\ node'[i].there = node[i].there /\ node'[i].kind = node[i].kind /\ node'[i].trash = node[i].trash
        <4>1. /\ mine.there /\ mine.kind = node[i].kind /\ mine.trash = node[i].trash
              /\ mine.parent = p /\ mine.name = n /\ mine.fold = Fold[n] /\ mine.path = new /\ node[i].there
          BY <1>7, <3>1 DEF IsLive
        <4>2. kind = "folder" => ~Beneath(old, mine)
          BY <1>2, <3>1, <4>1, PrefixStep DEF Beneath
        <4> QED BY <1>8, <1>9, <2>1, <4>1, <4>2
      <3>5. \A j \in Id : /\ node'[j].there = node[j].there /\ node'[j].kind = node[j].kind
                          /\ node'[j].trash = node[j].trash
                          /\ j # i => /\ node'[j].parent = node[j].parent
                                      /\ node'[j].name = node[j].name /\ node'[j].fold = node[j].fold
                                      /\ node'[j].path = IF IsFolder(i) /\ Beneath(old, node[j])
                                                         THEN Shifted(old, new, node[j].path)
                                                         ELSE node[j].path
        BY <1>8, <1>9, <2>1, <3>1, <3>4 DEF IsFolder
      <3>6. new = Append(node[p].path, n) /\ (IsFolder(i) => p # i /\ ~IsPrefix(old, node[p].path))
            /\ node' \in [Id -> Row]
        BY <1>2, <1>10, <2>1, <3>1 DEF IsFolder
      <3>7. RowsMoved(i, p, n, old, new)
        BY <3>4, <3>5 DEF RowsMoved
      <3>8. i \in Id \ {Root}
        BY <3>1
      <3>9. TreeInv'
        BY <3>1, <3>2, <3>3, <3>6, <3>7, <3>8, MovedWell
      <3> QED BY <3>1, <3>6, <3>7, <3>8, <3>9, MoveSeen
    <2> QED BY <1>1, <1>6, <2>1, <2>2, Wrote, Acts
  <1> QED BY <1>11, <1>12

\* A request for the trash reads the node first.
LEMMA GetKeeps ==
  ASSUME TreeTyped, NEW r \in Request, NEW i \in Id, GetForTrash(r, i) \/ GetForRestore(r, i) \/ GetForPurge(r, i)
  PROVE  TreeTyped' /\ (Sound => Sound' /\ Seen)
  <1>1. PICK pc \in {"trash", "restore", "purge"} :
          /\ req' = [req EXCEPT ![r] = [Idle EXCEPT !.pc = pc, !.id = i, !.seen = node[i]]]
          /\ node' = node /\ Starts(r)
          /\ pc = "trash" => IsLive(i) /\ i # Root
          /\ pc = "restore" => IsTrashed(i) /\ node[i].trash = i
          /\ pc = "purge" => IsTrashed(i)
    BY DEF GetForTrash, GetForRestore, GetForPurge, MayPurge
  <1>2. PICK q : q = [Idle EXCEPT !.pc = pc, !.id = i, !.seen = node[i]]
    OBVIOUS
  <1>3. q \in Req /\ q.pc = pc /\ q.id = i /\ q.seen = node[i]
    <2>1. node[i] \in Row
      BY DEF TreeTyped, TypeOK
    <2> QED BY <1>2, <2>1, IdleTyped DEF Req, ReqPc
  <1>4. Named(q) /\ ReadsTrue(q)
    BY <1>1, <1>3 DEF Named, ReadsTrue
  <1> QED BY <1>1, <1>2, <1>3, <1>4, Read, Acts

LEMMA TrashKeeps ==
  ASSUME TreeTyped, NEW r \in Request, Trash(r) PROVE TreeTyped' /\ (Sound => Sound' /\ Seen)
  <1>1. PICK i \in Id : i = req[r].id /\ req[r].pc = "trash" /\ Ends(r)
    BY ReqRow DEF Trash
  <1>2. CASE node' = node
    BY <1>1, <1>2, Failing
  <1>3. ASSUME IsLive(i),
               node' = [j \in Id |-> IF j \in Stamped(r) THEN [node[j] EXCEPT !.trash = i] ELSE node[j]]
        PROVE  TreeTyped' /\ (Sound => Sound' /\ Seen)
    <2>1. NodeTyped'
      <3>1. ASSUME NEW j \in Id PROVE [node[j] EXCEPT !.trash = i] \in Row /\ node[j] \in Row
        <4>1. node[j] \in Row
          BY DEF TreeTyped, TypeOK
        <4>2. PICK q : q = [node[j] EXCEPT !.trash = i]
          OBVIOUS
        <4>3. q \in Row
          BY <4>1, <4>2 DEF Row
        <4> QED BY <4>1, <4>2, <4>3
      <3> QED BY <1>3, <3>1 DEF NodeTyped
    <2>2. ASSUME Sound PROVE TreeInv' /\ Seen
      <3>1. TreeInv /\ i # Root /\ req[r].seen = node[i]
        BY <1>1, <2>2 DEF Sound, OneByOne, ReadsTrue
      <3>2. PICK gone \in SUBSET Id : gone = Stamped(r)
        BY DEF Stamped
      <3>3. \A j \in Id : j \in gone <=> \/ j = i
                                         \/ IsFolder(i) /\ IsLive(j) /\ Beneath(node[i].path, node[j])
        BY <1>1, <3>1, <3>2 DEF Stamped, IsFolder
      <3>4. TreeInv'
        BY <1>3, <3>1, <3>2, <3>3, TrashedWell
      <3>5. ASSUME NEW j \in Id
            PROVE  /\ node'[j].there = node[j].there /\ node'[j].path = node[j].path /\ node'[j].kind = node[j].kind
                   /\ node'[j].trash = IF j \in gone THEN i ELSE node[j].trash
        <4>1. node[j] \in Row
          BY DEF TreeTyped, TypeOK
        <4> QED BY <1>3, <3>2, <4>1 DEF Row
      <3>6. \A j \in Id : IsLive(j)' <=> IsLive(j) /\ j \notin gone
        BY <3>5, TreeAssumption DEF IsLive, Live
      <3>7. \A j \in Id : IsLive(j)' <=> IsLive(j) /\ j # i /\ ~(IsFolder(i) /\ Beneath(node[i].path, node[j]))
        BY <3>3, <3>6
      <3> QED BY <1>3, <3>1, <3>4, <3>5, <3>7, TakeAwaySeen
    <2> QED BY <1>1, <2>1, <2>2, Wrote, Acts
  <1> QED BY <1>1, <1>2, <1>3 DEF Trash

LEMMA RestoreParentKeeps ==
  ASSUME TreeTyped, NEW r \in Request, RestoreParent(r) PROVE TreeTyped' /\ (Sound => Sound' /\ Seen)
  <1>1. req[r].pc = "restore" /\ node' = node
    BY DEF RestoreParent
  <1>2. CASE Ends(r)
    BY <1>1, <1>2, Failing
  <1>3. CASE HasHome(r) /\ req' = [req EXCEPT ![r].pc = "untrash"]
    <2>1. PICK q : q = [req[r] EXCEPT !.pc = "untrash"]
      OBVIOUS
    <2>2. /\ q \in Req /\ q.pc = "untrash" /\ q.id = req[r].id /\ q.seen = req[r].seen
      BY <2>1, ReqRow DEF Req, ReqPc
    <2>3. Named(q) /\ (Sound => ReadsTrue(q))
      BY <1>1, <1>3, <2>2 DEF Named, Sound, OneByOne, ReadsTrue, HasHome
    <2> QED BY <1>1, <1>3, <2>1, <2>2, <2>3, Read, Acts
  <1> QED BY <1>2, <1>3 DEF RestoreParent

LEMMA RestoreKeeps ==
  ASSUME TreeTyped, NEW r \in Request, Restore(r) PROVE TreeTyped' /\ (Sound => Sound' /\ Seen)
  <1>1. PICK i \in Id : i = req[r].id /\ req[r].pc = "untrash" /\ Ends(r)
    BY ReqRow DEF Restore
  <1>2. CASE node' = node
    BY <1>1, <1>2, Failing
  <1>3. ASSUME node' = [j \in Id |-> IF node[j].there /\ node[j].trash = i
                                     THEN [node[j] EXCEPT !.trash = Live] ELSE node[j]],
               SiblingNames(node')
        PROVE  TreeTyped' /\ (Sound => Sound' /\ Seen)
    <2>1. NodeTyped'
      <3>1. ASSUME NEW j \in Id PROVE [node[j] EXCEPT !.trash = Live] \in Row /\ node[j] \in Row
        <4>1. node[j] \in Row
          BY DEF TreeTyped, TypeOK
        <4>2. PICK q : q = [node[j] EXCEPT !.trash = Live]
          OBVIOUS
        <4>3. q \in Row
          BY <4>1, <4>2 DEF Row
        <4> QED BY <4>1, <4>2, <4>3
      <3> QED BY <1>3, <3>1 DEF NodeTyped
    <2>2. ASSUME Sound PROVE TreeInv' /\ Seen
      <3>1. TreeInv /\ IsTrashed(i) /\ node[i].trash = i /\ IsLive(node[i].parent)
        BY <1>1, <2>2 DEF Sound, OneByOne, ReadsTrue
      <3>2. TreeInv'
        BY <1>3, <3>1, RestoredWell
      <3>3. ASSUME NEW j \in Id
            PROVE  /\ node'[j].there = node[j].there /\ node'[j].path = node[j].path /\ node'[j].kind = node[j].kind
                   /\ node'[j].parent = node[j].parent
                   /\ node'[j].trash = IF node[j].there /\ node[j].trash = i THEN Live ELSE node[j].trash
        <4>1. node[j] \in Row
          BY DEF TreeTyped, TypeOK
        <4> QED BY <1>3, <4>1 DEF Row
      <3>4. \A j \in Id : IsLive(j)' <=> IsLive(j) \/ (node[j].there /\ node[j].trash = i)
        BY <3>3 DEF IsLive
      <3>5. i \in Id \ {Root} /\ node[i].there /\ ~IsLive(i)
        BY <3>1 DEF IsTrashed, IsLive, TreeInv, RootStands
      <3>6. PICK p \in Id : p = node[i].parent /\ IsLive(p) /\ IsFolder(p)
        BY <3>1, <3>5, RowFields DEF TreeInv, FoldersAbove
      <3>7. \A j \in Id : node[j].there /\ node[j].trash = i => IsPrefix(node[i].path, node[j].path)
        BY <3>1, UnitBelow
      <3>8. \A j \in Id : IsLive(j)' => IsLive(j) \/ IsPrefix(node'[i].path, node'[j].path)
        BY <3>3, <3>4, <3>7
      <3>9. IsLive(i)' /\ p = node'[i].parent /\ node'[p].path = node[p].path
        BY <3>1, <3>3, <3>4, <3>5, <3>6
      <3>10. \A j \in Id : IsLive(j) => IsLive(j)' /\ node'[j].path = node[j].path /\ node'[j].kind = node[j].kind
        BY <3>3, <3>4
      <3> QED BY <3>1, <3>2, <3>5, <3>6, <3>8, <3>9, <3>10, AddSeen
    <2> QED BY <1>1, <2>1, <2>2, Wrote, Acts
  <1> QED BY <1>1, <1>2, <1>3 DEF Restore

LEMMA WithoutTyped == ASSUME TreeTyped, NEW S, node' = Without(S) PROVE NodeTyped'
  BY IdleTyped DEF TreeTyped, TypeOK, NodeTyped, Without

LEMMA PurgeKeeps ==
  ASSUME TreeTyped, NEW r \in Request, Purge(r) PROVE TreeTyped' /\ (Sound => Sound' /\ Seen)
  <1>1. PICK i \in Id : i = req[r].id /\ req[r].pc = "purge" /\ Ends(r)
    BY ReqRow DEF Purge
  <1>2. CASE node' = node
    BY <1>1, <1>2, Failing
  <1>3. CASE node' = Without({i})
    <2>1. ASSUME Sound PROVE TreeInv' /\ Seen
      <3>1. TreeInv /\ IsTrashed(i)
        BY <1>1, <2>1 DEF Sound, OneByOne, ReadsTrue
      <3>2. {i} \in SUBSET Id /\ \A k \in {i} : IsTrashed(k)
        BY <3>1
      <3> QED BY <1>3, <3>1, <3>2, PurgedWell, PurgeUnseen
    <2> QED BY <1>1, <1>3, <2>1, WithoutTyped, Wrote, Acts
  <1> QED BY <1>1, <1>2, <1>3 DEF Purge

LEMMA RootsPurged ==
  ASSUME TreeTyped, NEW S \in SUBSET TrashRoots, node' = Without(S), UNCHANGED req,
         Sound => \A o \in Request : req[o].pc = "idle"
  PROVE  TreeTyped' /\ (Sound => Sound' /\ Seen)
  <1>1. ASSUME Sound PROVE TreeInv' /\ Seen
    <2>1. S \in SUBSET Id /\ \A i \in S : IsTrashed(i)
      BY DEF TrashRoots
    <2> QED BY <1>1, <2>1, PurgedWell, PurgeUnseen DEF Sound
  <1> QED BY <1>1, WithoutTyped, WroteAlone

LEMMA TreeStep == ASSUME TreeTyped, [Next]_vars PROVE TreeTyped' /\ (Sound => Sound' /\ Seen)
  <1>1. ASSUME NEW r \in Request, Begin(r) PROVE TreeTyped' /\ (Sound => Sound' /\ Seen)
    BY <1>1, ReadParentKeeps, GetForMoveKeeps, GetKeeps DEF Begin
  <1>2. ASSUME NEW r \in Request, Step(r) PROVE TreeTyped' /\ (Sound => Sound' /\ Seen)
    BY <1>2, InsertKeeps, SiblingKeeps, VersionKeeps, CheckMoveKeeps, MoveKeeps, TrashKeeps, RestoreParentKeeps,
       RestoreKeeps, PurgeKeeps DEF Step, CreateFolder, PutNewFile
  <1>3. ASSUME NEW r \in Request, EmptyTrash(r) PROVE TreeTyped' /\ (Sound => Sound' /\ Seen)
    <2>1. Sound => \A o \in Request : req[o].pc = "idle"
      BY <1>3 DEF EmptyTrash, Starts, Sound
    <2>2. TrashRoots \in SUBSET TrashRoots
      OBVIOUS
    <2> QED BY <1>3, <2>1, <2>2, RootsPurged DEF EmptyTrash
  <1>4. ASSUME NEW r \in Request, Fail(r) PROVE TreeTyped' /\ (Sound => Sound' /\ Seen)
    BY <1>4, Failing DEF Fail
  <1>5. CASE AutoPurgeTrash
    <2>1. Sound => \A o \in Request : req[o].pc = "idle"
      BY <1>5 DEF AutoPurgeTrash, Sound
    <2> QED BY <1>5, <2>1, RootsPurged DEF AutoPurgeTrash
  <1>6. CASE UNCHANGED vars
    BY <1>6 DEF vars, TreeTyped, TypeOK, Sound, TreeInv, NodeTyped, RootStands, NamesFolded, FoldersAbove,
                LiveParents, PathsTrue, TrashUnits, IsFolder, IsLive, IsTrashed, OneByOne, Turn, ReadsTrue,
                Seen, Visible, PathAt
  <1> QED BY <1>1, <1>2, <1>3, <1>4, <1>5, <1>6 DEF Next

LEMMA TreeStart == Init => TreeTyped /\ (Hazards = {} => Sound)
  <1> SUFFICES ASSUME Init PROVE TreeTyped /\ (Hazards = {} => Sound)
    OBVIOUS
  <1>1. NodeTyped /\ TreeTyped
    BY IdleTyped DEF Init, TreeTyped, TypeOK, NodeTyped
  <1>2. OneByOne
    BY IdleTyped DEF Init, OneByOne, Turn, ReadsTrue
  <1>3. /\ node[Root] = RootRow /\ \A i \in Id \ {Root} : node[i] = NoRow /\ ~node[i].there
    BY TreeAssumption DEF Init, NoRow
  <1>4. RootRow.there /\ RootRow.trash = Live /\ RootRow.kind = "folder" /\ RootRow.path = <<>>
    BY DEF RootRow, NoRow
  <1>5. TreeInv
    BY <1>1, <1>3, <1>4, TreeAssumption DEF TreeInv, RootStands, NamesFolded, FoldersAbove, SiblingNames,
       LiveParents, PathsTrue, TrashUnits, IsLive, IsTrashed
  <1> QED BY <1>1, <1>2, <1>5 DEF Sound

\* The rows of nodes and what the requests have read have the shapes that the schema and the
\* handlers give them, whatever is under way (files/store.go).
THEOREM TreeTypesHold == Spec => []TypeOK
  <1>1. Init => TreeTyped
    BY TreeStart
  <1>2. TreeTyped /\ [Next]_vars => TreeTyped'
    BY TreeStep
  <1>3. TreeTyped => TypeOK
    BY DEF TreeTyped
  <1> QED BY <1>1, <1>2, <1>3, PTL DEF Spec

\* The tree is one (files/store.go): as long as the listed hazards stay away, every live node is
\* in a live folder, every path is that of the parent and the name after any sequence of
\* moves, and what was deleted together stays together until it is restored or purged.
THEOREM TreeIsSound == Hazards = {} => (Spec => []TreeSound)
  <1> SUFFICES ASSUME Hazards = {} PROVE Spec => []TreeSound
    OBVIOUS
  <1>1. Init => TreeTyped /\ Sound
    BY TreeStart
  <1>2. TreeTyped /\ Sound /\ [Next]_vars => TreeTyped' /\ Sound'
    BY TreeStep
  <1>3. Sound => TreeSound
    BY DEF Sound, TreeInv, TreeSound
  <1> QED BY <1>1, <1>2, <1>3, PTL DEF Spec
LEMMA SeenStart == Init => FileSystem!Init
  <1> SUFFICES ASSUME Init PROVE FileSystem!Init
    OBVIOUS
  <1>1. node[Root] = RootRow /\ \A i \in Id \ {Root} : ~node[i].there
    BY TreeAssumption DEF Init, NoRow
  <1>2. RootRow.there /\ RootRow.trash = Live /\ RootRow.kind = "folder" /\ RootRow.path = <<>>
    BY DEF RootRow, NoRow
  <1>3. \A i \in Id : IsLive(i) <=> i = Root
    BY <1>1, <1>2 DEF IsLive
  <1>4. {node[i].path : i \in {j \in Id : IsLive(j)}} = {<<>>}
    BY <1>1, <1>2, <1>3, TreeAssumption
  <1>5. PathAt(<<>>) = Root
    BY <1>1, <1>2, <1>3, TreeAssumption DEF PathAt
  <1>6. Visible = [p \in {<<>>} |-> "folder"]
    BY <1>1, <1>2, <1>4, <1>5 DEF Visible
  <1> QED BY <1>6 DEF FileSystem!Init

\* What is seen by path is a file system (files/store.go): as long as the listed hazards stay
\* away, each step of the tree adds one whole subtree under a folder, takes one whole subtree
\* away, moves one to a free place outside of it, or shows nothing.
THEOREM TreeIsFileSystem == Hazards = {} => (Spec => PathTreeSpec)
  <1> SUFFICES ASSUME Hazards = {} PROVE Spec => PathTreeSpec
    OBVIOUS
  <1>1. Init => TreeTyped /\ Sound /\ FileSystem!Init
    BY TreeStart, SeenStart
  <1>2. TreeTyped /\ Sound /\ [Next]_vars => TreeTyped' /\ Sound' /\ [FileSystem!Next]_Visible
    BY TreeStep DEF Seen
  <1> QED BY <1>1, <1>2, PTL DEF Spec, PathTreeSpec, FileSystem!Spec

(***************************************************************************)
(* The history of a file                                                   *)
(***************************************************************************)
VersionRow == [blob : Nat, manifest : Data \cup {NoData}, data : Data]

\* What a row says that was read from the table at any time: blobs are numbered, their
\* bytes never change, and a manifest is that of the content.
Recorded(row) ==
  /\ row \in VersionRow /\ row.blob <= puts
  /\ (row.blob = NoBlob) # (row.manifest = NoData)
  /\ row.blob = NoBlob /\ ~Cancels => row.manifest = row.data
  /\ row.blob \in DOMAIN disk => disk[row.blob] = row.data

\* What the foreign keys add for a row that is in the table.
Referenced(row) ==
  IF row.blob # NoBlob THEN row.blob \in DOMAIN blobs ELSE row.manifest \in manifests

Numbered ==
  /\ created \in Nat /\ puts \in Nat
  /\ DOMAIN versions \subseteq 1..created
  /\ DOMAIN blobs \subseteq 1..puts /\ DOMAIN disk \subseteq 1..puts
  /\ manifests \subseteq Data /\ \A b \in DOMAIN disk : disk[b] \in Data

RowsKnown == \A v \in DOMAIN versions : Recorded(versions[v]) /\ Referenced(versions[v])

\* Only a request that is cancelled after its commit takes the bytes from under a row.
Stored == ~Cancels => DOMAIN blobs \subseteq DOMAIN disk

UploadKnown ==
  \/ upload = Waiting
  \/ /\ upload.at = "putfile" /\ upload.data \in Data
     /\ upload.blob \in DOMAIN disk \ DOMAIN blobs /\ disk[upload.blob] = upload.data

RestoreKnown == restore = Waiting \/ (restore.at = "insert" /\ Recorded(restore.row))

MigrationKnown(m) ==
  \/ migration[m] = Waiting
  \/ /\ migration[m].at \in {"write", "switch"} /\ migration[m].blob \in 1..puts
     /\ migration[m].at = "switch" =>
          /\ migration[m].manifest \in Data
          /\ migration[m].blob \in DOMAIN disk => disk[migration[m].blob] = migration[m].manifest

\* The collector has a blob that was committed, and its row is gone before its bytes.
CollectorKnown ==
  \/ collector = Waiting
  \/ /\ collector.at \in {"row", "bytes"} /\ collector.blob \in 1..puts
     /\ collector.at = "bytes" => collector.blob \notin DOMAIN blobs
     /\ upload # Waiting => collector.blob # upload.blob

WorkKnown ==
  /\ UploadKnown /\ RestoreKnown /\ CollectorKnown
  /\ migration = [m \in Migrator |-> migration[m]]
  /\ \A m \in Migrator : MigrationKnown(m)

HeadThere ==
  /\ file \in {"live", "trashed", "gone"}
  /\ IF file = "gone" THEN versions = << >> ELSE head \in DOMAIN versions

HistoryInv ==
  /\ Numbered /\ RowsKnown /\ Stored /\ WorkKnown /\ HeadThere
  /\ BlobRefsExact /\ NewestKept

-----------------------------------------------------------------------------
LEMMA WaitingIdle == Waiting.at = "idle"
  BY DEF Waiting

\* The sets that the counts are of are finite.
LEMMA FewRows ==
  ASSUME NEW vs, NEW n \in Nat, DOMAIN vs \subseteq 1..n
  PROVE  IsFiniteSet(DOMAIN vs) /\ \A b : IsFiniteSet(Pointing(vs, b))
  <1>1. IsFiniteSet(1..n)
    BY FS_Interval
  <1>2. IsFiniteSet(DOMAIN vs)
    BY <1>1, FS_Subset
  <1> QED BY <1>2, FS_Subset DEF Pointing

\* A count that follows what comes and goes is exact.
LEMMA Recount ==
  ASSUME NEW O, NEW N, IsFiniteSet(O), IsFiniteSet(N)
  PROVE  (Cardinality(O) + Cardinality(N \ O)) - Cardinality(O \ N) = Cardinality(N)
  <1>1. /\ Cardinality(O \ N) = Cardinality(O) - Cardinality(O \cap N)
        /\ Cardinality(N \ O) = Cardinality(N) - Cardinality(N \cap O)
    BY FS_Difference
  <1>2. N \cap O = O \cap N /\ IsFiniteSet(O \cap N)
    BY FS_Subset
  <1>3. PICK o \in Nat, n \in Nat, x \in Nat :
          o = Cardinality(O) /\ n = Cardinality(N) /\ x = Cardinality(O \cap N)
    BY <1>2, FS_CardinalityType
  <1>4. (o + (n - x)) - (o - x) = n
    OBVIOUS
  <1> QED BY <1>1, <1>2, <1>3, <1>4

\* The trigger keeps the counts through any change of the rows.
LEMMA TriggerCounts ==
  ASSUME Numbered, Numbered', BlobRefsExact, blobs' = Bumped(versions')
  PROVE  BlobRefsExact' /\ DOMAIN blobs' = DOMAIN blobs
  <1>1. ASSUME NEW b \in DOMAIN blobs PROVE blobs'[b] = Cardinality(Pointing(versions', b))
    <2>1. PICK O : O = Pointing(versions, b) /\ IsFiniteSet(O)
      BY FewRows DEF Numbered
    <2>2. PICK N : N = Pointing(versions', b) /\ IsFiniteSet(N)
      BY FewRows DEF Numbered
    <2>3. blobs'[b] = (Cardinality(O) + Cardinality(N \ O)) - Cardinality(O \ N)
      BY <2>1, <2>2 DEF Bumped, BlobRefsExact
    <2> QED BY <2>1, <2>2, <2>3, Recount
  <1> QED BY <1>1 DEF BlobRefsExact, Bumped, Pointing

\* Bytes never change, and no number is given twice.
Settled ==
  /\ puts' \in Nat /\ puts <= puts' /\ DOMAIN disk' \subseteq 1..puts'
  /\ \A b \in 1..puts : b \in DOMAIN disk' => b \in DOMAIN disk /\ disk'[b] = disk[b]

LEMMA RecordedStays ==
  ASSUME Numbered, Settled, NEW row, Recorded(row)
  PROVE  Recorded(row)'
  <1>1. row.blob \in Nat /\ puts \in Nat
    BY DEF Recorded, VersionRow, Numbered
  <1>2. row.blob \in DOMAIN disk' => disk'[row.blob] = row.data
    <2>1. row.blob = 0 \/ row.blob \in 1..puts
      BY <1>1 DEF Recorded
    <2>2. CASE row.blob = 0
      BY <2>2 DEF Settled
    <2>3. CASE row.blob \in 1..puts
      BY <2>3 DEF Recorded, Settled
    <2> QED BY <2>1, <2>2, <2>3
  <1> QED BY <1>1, <1>2 DEF Recorded, Settled

\* What a request knows stays true while it waits, or is forgotten with it.
LEMMA UploadStays ==
  ASSUME UploadKnown, upload' \in {upload, Waiting}, disk' = disk, DOMAIN blobs' \subseteq DOMAIN blobs
  PROVE  UploadKnown'
  BY DEF UploadKnown

LEMMA RestoreStays ==
  ASSUME Numbered, Settled, RestoreKnown, restore' \in {restore, Waiting}
  PROVE  RestoreKnown'
  <1>1. CASE restore = Waiting \/ restore' = Waiting
    BY <1>1 DEF RestoreKnown
  <1>2. CASE restore' = restore /\ restore # Waiting
    <2>1. PICK row : row = restore.row /\ Recorded(row)
      BY <1>2 DEF RestoreKnown
    <2>2. Recorded(row)'
      BY <2>1, RecordedStays
    <2> QED BY <1>2, <2>1, <2>2 DEF RestoreKnown
  <1> QED BY <1>1, <1>2

LEMMA MigrationStays ==
  ASSUME Numbered, Settled, NEW m \in Migrator, MigrationKnown(m), migration'[m] \in {migration[m], Waiting}
  PROVE  MigrationKnown(m)'
  BY DEF MigrationKnown, Settled, Numbered

LEMMA CollectorStays ==
  ASSUME Numbered, Settled, CollectorKnown, collector' \in {collector, Waiting},
         upload' \in {upload, Waiting}, DOMAIN blobs' \subseteq DOMAIN blobs
  PROVE  CollectorKnown'
  BY DEF CollectorKnown, Settled, Numbered

LEMMA WorkStays ==
  ASSUME Numbered, WorkKnown, puts' = puts, disk' = disk, DOMAIN blobs' \subseteq DOMAIN blobs,
         upload' \in {upload, Waiting}, restore' \in {restore, Waiting},
         collector' \in {collector, Waiting}, migration' = [m \in Migrator |-> migration'[m]],
         \A m \in Migrator : migration'[m] \in {migration[m], Waiting}
  PROVE  WorkKnown'
  <1>1. Settled
    BY DEF Settled, Numbered
  <1> QED BY <1>1, UploadStays, RestoreStays, MigrationStays, CollectorStays DEF WorkKnown

\* A row that stays in its table stays what it is.
LEMMA RowsStay ==
  ASSUME Numbered, Settled, RowsKnown, manifests \subseteq manifests', DOMAIN blobs \subseteq DOMAIN blobs',
         NEW v \in DOMAIN versions, v \in DOMAIN versions', versions'[v] = versions[v]
  PROVE  (Recorded(versions[v]) /\ Referenced(versions[v]))'
  <1>1. PICK row : row = versions[v] /\ Recorded(row) /\ Referenced(row)
    BY DEF RowsKnown
  <1>2. Recorded(row)' /\ Referenced(row)'
    BY <1>1, RecordedStays DEF Referenced
  <1> QED BY <1>1, <1>2

\* Requests come and go while the tables stay.
LEMMA TablesStay ==
  ASSUME HistoryInv, UNCHANGED <<file, created, puts, versions, head, blobs, disk, manifests>>, WorkKnown'
  PROVE  HistoryInv'
  <1>1. Numbered' /\ RowsKnown' /\ Stored' /\ HeadThere'
    BY DEF HistoryInv, Numbered, RowsKnown, Recorded, Referenced, Stored, HeadThere
  <1>2. BlobRefsExact' /\ NewestKept'
    BY DEF HistoryInv, BlobRefsExact, NewestKept, Pointing
  <1> QED BY <1>1, <1>2 DEF HistoryInv

\* Rows change under the trigger while blobs and manifests stay.
LEMMA RowsChange ==
  ASSUME HistoryInv, blobs' = Bumped(versions'), UNCHANGED <<puts, disk, manifests>>,
         created' \in Nat, DOMAIN versions' \subseteq 1..created',
         RowsKnown', HeadThere', NewestKept', WorkKnown'
  PROVE  HistoryInv'
  <1>1. DOMAIN blobs' = DOMAIN blobs
    BY DEF Bumped
  <1>2. Numbered' /\ Stored'
    BY <1>1 DEF HistoryInv, Numbered, Stored
  <1>3. BlobRefsExact'
    BY <1>2, TriggerCounts DEF HistoryInv
  <1> QED BY <1>2, <1>3 DEF HistoryInv

-----------------------------------------------------------------------------
LEMMA PutBlobKeeps ==
  ASSUME HistoryInv, NEW d \in Data, PutBlob(d)
  PROVE  HistoryInv'
  <1>1. PICK b : b = puts + 1 /\ b \in Nat /\ b \notin 1..puts /\ puts \in Nat
    BY DEF HistoryInv, Numbered
  <1>2. /\ puts' = b /\ upload = Waiting /\ upload' = [at |-> "putfile", blob |-> b, data |-> d]
        /\ disk' = [x \in DOMAIN disk \cup {b} |-> IF x = b THEN d ELSE disk[x]]
        /\ UNCHANGED <<file, created, versions, head, aged, blobs, manifests,
                       restore, migration, collector>>
    BY <1>1 DEF PutBlob
  <1>3. Numbered' /\ Settled
    BY <1>1, <1>2 DEF HistoryInv, Numbered, Settled
  <1>4. RowsKnown'
    BY <1>2, <1>3, RowsStay DEF HistoryInv, RowsKnown
  <1>5. Stored' /\ HeadThere' /\ BlobRefsExact' /\ NewestKept'
    BY <1>2 DEF HistoryInv, Stored, HeadThere, BlobRefsExact, NewestKept, Pointing
  <1>6. UploadKnown'
    BY <1>1, <1>2 DEF UploadKnown, HistoryInv, Numbered
  <1>7. CollectorKnown'
    BY <1>1, <1>2, <1>3 DEF HistoryInv, WorkKnown, CollectorKnown
  <1>8. RestoreKnown' /\ \A m \in Migrator : MigrationKnown(m)'
    BY <1>2, <1>3, RestoreStays, MigrationStays DEF HistoryInv, WorkKnown
  <1> QED BY <1>2, <1>3, <1>4, <1>5, <1>6, <1>7, <1>8 DEF HistoryInv, WorkKnown

\* A row that the uploaded blob is for is the only one to point to it.
LEMMA CommitsKeeps ==
  ASSUME HistoryInv, upload.at = "putfile", Commits, UNCHANGED puts,
         WorkKnown', Settled, Numbered', Stored', manifests' = manifests, file' = file,
         NEW row, row = [blob |-> upload.blob, manifest |-> NoData, data |-> upload.data],
         Recorded(row)'
  PROVE  HistoryInv'
  <1>1. PICK b, n : b = upload.blob /\ n = created + 1
    OBVIOUS
  <1>2. /\ created' = n /\ head' = n /\ file = "live"
        /\ versions' = [v \in DOMAIN versions \cup {n} |-> IF v = n THEN row ELSE versions[v]]
        /\ blobs' = [x \in DOMAIN blobs \cup {b} |-> IF x = b THEN 1 ELSE blobs[x]]
    BY <1>1 DEF Commits, With
  <1>3. n \notin DOMAIN versions /\ b \notin DOMAIN blobs /\ b # NoBlob /\ row.blob = b
        /\ n = created + 1 /\ created \in Nat
    BY <1>1, WaitingIdle DEF HistoryInv, Numbered, WorkKnown, UploadKnown, NoBlob
  <1>4. RowsKnown'
    <2>1. ASSUME NEW v \in DOMAIN versions PROVE (Recorded(versions[v]) /\ Referenced(versions[v]))'
      BY <1>2, <1>3, <2>1, RowsStay DEF HistoryInv
    <2>2. (Recorded(versions[n]) /\ Referenced(versions[n]))'
      BY <1>2, <1>3 DEF Referenced
    <2> QED BY <1>2, <2>1, <2>2 DEF RowsKnown
  <1>5. HeadThere'
    BY <1>2 DEF HeadThere
  <1>6. NewestKept'
    BY <1>2, <1>3, VersionAssumption DEF HistoryInv, NewestKept, Numbered
  <1>7. BlobRefsExact'
    <2>1. Pointing(versions', b) = {n}
      BY <1>2, <1>3 DEF Pointing, HistoryInv, RowsKnown, Referenced
    <2>2. \A x \in DOMAIN blobs : Pointing(versions', x) = Pointing(versions, x)
      BY <1>2, <1>3 DEF Pointing
    <2>3. Cardinality({n}) = 1
      BY FS_Singleton
    <2> QED BY <1>2, <1>3, <2>1, <2>2, <2>3 DEF HistoryInv, BlobRefsExact
  <1> QED BY <1>4, <1>5, <1>6, <1>7 DEF HistoryInv

LEMMA PutFileKeeps ==
  ASSUME HistoryInv, PutFile PROVE HistoryInv'
  <1>1. /\ upload.at = "putfile" /\ upload' = Waiting /\ Commits
        /\ UNCHANGED <<file, puts, aged, disk, manifests, restore, migration, collector>>
    BY DEF PutFile
  <1>2. /\ upload.data \in Data /\ upload.blob \in DOMAIN disk /\ disk[upload.blob] = upload.data
        /\ upload.blob \in 1..puts /\ puts \in Nat /\ upload # Waiting
    BY <1>1, WaitingIdle DEF HistoryInv, WorkKnown, UploadKnown, Numbered
  <1>3. PICK row : row = [blob |-> upload.blob, manifest |-> NoData, data |-> upload.data]
    OBVIOUS
  <1>4. Recorded(row)'
    BY <1>1, <1>2, <1>3 DEF Recorded, VersionRow, NoBlob
  <1>5. /\ created' = created + 1 /\ DOMAIN versions' = DOMAIN versions \cup {created + 1}
        /\ DOMAIN blobs' = DOMAIN blobs \cup {upload.blob}
    BY <1>1 DEF Commits, With
  <1>6. Numbered' /\ Settled /\ Stored'
    BY <1>1, <1>2, <1>5 DEF HistoryInv, Numbered, Settled, Stored
  <1>7. CollectorKnown' /\ UploadKnown'
    BY <1>1, <1>2, <1>5 DEF HistoryInv, WorkKnown, CollectorKnown, UploadKnown
  <1>8. RestoreKnown' /\ \A m \in Migrator : MigrationKnown(m)'
    BY <1>1, <1>6, RestoreStays, MigrationStays DEF HistoryInv, WorkKnown
  <1>9. WorkKnown'
    BY <1>1, <1>7, <1>8 DEF HistoryInv, WorkKnown
  <1> QED BY <1>1, <1>3, <1>4, <1>6, <1>9, CommitsKeeps

\* The bytes of an upload that failed are those of no row, or the request was cancelled
\* after its commit.
LEMMA PutFileFailsKeeps ==
  ASSUME HistoryInv, PutFileFails PROVE HistoryInv'
  <1>1. PICK b : b = upload.blob /\ b \in DOMAIN disk \ DOMAIN blobs /\ disk[b] = upload.data
                 /\ upload.data \in Data /\ upload.at = "putfile" /\ upload # Waiting
    BY WaitingIdle DEF HistoryInv, WorkKnown, UploadKnown, PutFileFails
  <1>2. /\ upload' = Waiting /\ disk' = [x \in DOMAIN disk \ {b} |-> disk[x]]
        /\ UNCHANGED <<file, puts, aged, manifests, restore, migration, collector>>
        /\ UNCHANGED <<versions, head, blobs, created>> \/ (Cancels /\ Commits)
    BY <1>1 DEF PutFileFails
  <1>3. Settled
    BY <1>2 DEF HistoryInv, Numbered, Settled
  <1>4. RestoreKnown' /\ UploadKnown' /\ \A m \in Migrator : MigrationKnown(m)'
    BY <1>2, <1>3, RestoreStays, MigrationStays DEF HistoryInv, WorkKnown, UploadKnown
  <1>5. CASE UNCHANGED <<versions, head, blobs, created>>
    <2>1. Numbered' /\ Stored' /\ HeadThere' /\ BlobRefsExact' /\ NewestKept'
      BY <1>1, <1>2, <1>5
         DEF HistoryInv, Numbered, Stored, HeadThere, BlobRefsExact, NewestKept, Pointing
    <2>2. RowsKnown'
      BY <1>2, <1>3, <1>5, RowsStay DEF HistoryInv, RowsKnown
    <2>3. CollectorKnown'
      BY <1>2, <1>3, <1>5, CollectorStays DEF HistoryInv, WorkKnown
    <2> QED BY <1>2, <1>4, <2>1, <2>2, <2>3 DEF HistoryInv, WorkKnown
  <1>6. CASE Cancels /\ Commits
    <2>1. PICK row : row = [blob |-> b, manifest |-> NoData, data |-> upload.data]
      OBVIOUS
    <2>2. b \in 1..puts /\ puts \in Nat
      BY <1>1 DEF HistoryInv, Numbered
    <2>3. Recorded(row)'
      BY <1>1, <1>2, <2>1, <2>2 DEF Recorded, VersionRow, NoBlob
    <2>4. /\ created' = created + 1 /\ DOMAIN versions' = DOMAIN versions \cup {created + 1}
          /\ DOMAIN blobs' = DOMAIN blobs \cup {b}
      BY <1>1, <1>6 DEF Commits, With
    <2>5. Numbered' /\ Stored'
      BY <1>2, <1>6, <2>2, <2>4 DEF HistoryInv, Numbered, Stored
    <2>6. CollectorKnown'
      BY <1>1, <1>2, <2>4 DEF HistoryInv, WorkKnown, CollectorKnown
    <2>7. WorkKnown'
      BY <1>2, <1>4, <2>6 DEF HistoryInv, WorkKnown
    <2> QED BY <1>1, <1>2, <1>3, <1>6, <2>1, <2>3, <2>5, <2>7, CommitsKeeps
  <1> QED BY <1>2, <1>5, <1>6

\* A request that ends while the tables stay.
LEMMA WorkEnds ==
  ASSUME HistoryInv, UNCHANGED <<file, created, puts, versions, head, blobs, disk, manifests>>,
         upload' \in {upload, Waiting}, restore' \in {restore, Waiting}, collector' \in {collector, Waiting},
         migration' = [m \in Migrator |-> migration'[m]],
         \A m \in Migrator : migration'[m] \in {migration[m], Waiting}
  PROVE  HistoryInv'
  <1>1. WorkKnown'
    BY WorkStays DEF HistoryInv
  <1> QED BY <1>1, TablesStay

LEMMA RequestsEnd ==
  ASSUME HistoryInv, UploadDies \/ (\E v : VersionAges(v)) \/ \E m \in Migrator : MigrationDies(m)
  PROVE  HistoryInv'
  <1>1. migration = [m \in Migrator |-> migration[m]]
    BY DEF HistoryInv, WorkKnown
  <1>2. CASE UploadDies
    BY <1>1, <1>2, WorkEnds DEF UploadDies
  <1>3. CASE \E v : VersionAges(v)
    BY <1>1, <1>3, WorkEnds DEF VersionAges, versionWork
  <1>4. ASSUME NEW m \in Migrator, MigrationDies(m) PROVE HistoryInv'
    BY <1>1, <1>4, WorkEnds DEF MigrationDies
  <1> QED BY <1>2, <1>3, <1>4

LEMMA ReadVersionKeeps ==
  ASSUME HistoryInv, NEW v, ReadVersion(v) PROVE HistoryInv'
  <1>1. PICK row : row = versions[v] /\ Recorded(row)
    BY DEF ReadVersion, HistoryInv, RowsKnown
  <1>2. /\ restore' = [at |-> "insert", row |-> row]
        /\ UNCHANGED <<file, created, puts, versions, head, blobs, disk, manifests,
                       upload, migration, collector>>
    BY <1>1 DEF ReadVersion
  <1>3. Settled
    BY <1>2 DEF HistoryInv, Numbered, Settled
  <1>4. Recorded(row)'
    BY <1>1, <1>3, RecordedStays DEF HistoryInv
  <1>5. RestoreKnown'
    BY <1>2, <1>4 DEF RestoreKnown
  <1>6. UploadKnown' /\ CollectorKnown' /\ \A m \in Migrator : MigrationKnown(m)'
    BY <1>2, <1>3, UploadStays, CollectorStays, MigrationStays DEF HistoryInv, WorkKnown
  <1> QED BY <1>2, <1>5, <1>6, TablesStay DEF HistoryInv, WorkKnown

\* The row is inserted only while what it points to is there.
LEMMA RestoreVersionKeeps ==
  ASSUME HistoryInv, RestoreVersion PROVE HistoryInv'
  <1>1. PICK row : row = restore.row /\ Recorded(row)
    BY WaitingIdle DEF RestoreVersion, HistoryInv, WorkKnown, RestoreKnown
  <1>2. /\ restore' = Waiting
        /\ UNCHANGED <<file, puts, disk, manifests, upload, migration, collector>>
        /\ migration = [m \in Migrator |-> migration[m]]
    BY DEF RestoreVersion, HistoryInv, WorkKnown
  <1>3. CASE UNCHANGED <<versions, blobs, created, head>>
    BY <1>2, <1>3, WorkEnds
  <1>4. CASE ~UNCHANGED <<versions, blobs, created, head>>
    <2>1. PICK n : n = created + 1 /\ n \notin DOMAIN versions /\ created \in Nat
      BY DEF HistoryInv, Numbered
    <2>2. /\ file # "gone" /\ (row.blob \in DOMAIN blobs \/ row.manifest \in manifests)
          /\ versions' = [v \in DOMAIN versions \cup {n} |-> IF v = n THEN row ELSE versions[v]]
          /\ blobs' = Bumped(versions') /\ created' = n /\ head' = n
      BY <1>1, <1>4, <2>1 DEF RestoreVersion, With
    <2>3. Settled /\ DOMAIN blobs' = DOMAIN blobs /\ 0 \notin DOMAIN blobs
      BY <1>2, <2>2 DEF HistoryInv, Numbered, Settled, Bumped
    <2>4. Recorded(row)' /\ Referenced(row)'
      <3>1. Recorded(row)'
        BY <1>1, <2>3, RecordedStays DEF HistoryInv
      <3>2. row.manifest \in manifests => row.manifest # NoData
        BY VersionAssumption DEF HistoryInv, Numbered, NoData
      <3> QED BY <1>1, <1>2, <2>2, <2>3, <3>1, <3>2 DEF Recorded, Referenced, NoBlob
    <2>5. RowsKnown'
      <3>1. ASSUME NEW v \in DOMAIN versions PROVE (Recorded(versions[v]) /\ Referenced(versions[v]))'
        BY <1>2, <2>1, <2>2, <2>3, <3>1, RowsStay DEF HistoryInv
      <3>2. (Recorded(versions[n]) /\ Referenced(versions[n]))'
        BY <2>2, <2>4
      <3> QED BY <2>2, <3>1, <3>2 DEF RowsKnown
    <2>6. HeadThere' /\ DOMAIN versions' \subseteq 1..created' /\ created' \in Nat
      BY <1>2, <2>1, <2>2 DEF HeadThere, HistoryInv, Numbered
    <2>7. NewestKept'
      BY <1>2, <2>1, <2>2, VersionAssumption DEF HistoryInv, NewestKept, Numbered
    <2>8. WorkKnown'
      BY <1>2, <2>3, WorkStays DEF HistoryInv
    <2> QED BY <1>2, <2>2, <2>5, <2>6, <2>7, <2>8, RowsChange
  <1> QED BY <1>3, <1>4

LEMMA ListMigratableKeeps ==
  ASSUME HistoryInv, NEW m \in Migrator, ListMigratable(m) PROVE HistoryInv'
  <1>0. PICK v \in DOMAIN versions :
          /\ versions[v].blob # NoBlob
          /\ migration' = [migration EXCEPT ![m] = [at |-> "write", version |-> v, blob |-> versions[v].blob]]
    BY DEF ListMigratable
  <1>1. PICK g : /\ g = [at |-> "write", version |-> v, blob |-> versions[v].blob]
                 /\ versions[v].blob # NoBlob /\ migration' = [migration EXCEPT ![m] = g]
    BY <1>0
  <1>2. g.blob \in 1..puts /\ g.at = "write"
    BY <1>1 DEF HistoryInv, RowsKnown, Recorded, VersionRow, Numbered, NoBlob
  <1>3. UNCHANGED <<file, created, puts, versions, head, blobs, disk, manifests, upload, restore, collector>>
    BY DEF ListMigratable
  <1>4. Settled
    BY <1>3 DEF HistoryInv, Numbered, Settled
  <1>5. \A k \in Migrator : MigrationKnown(k)'
    <2>1. MigrationKnown(m)'
      BY <1>1, <1>2, <1>3 DEF MigrationKnown, HistoryInv, WorkKnown
    <2>2. ASSUME NEW k \in Migrator \ {m} PROVE MigrationKnown(k)'
      BY <1>1, <1>4, MigrationStays DEF HistoryInv, WorkKnown
    <2> QED BY <2>1, <2>2
  <1>6. UploadKnown' /\ CollectorKnown' /\ RestoreKnown'
    BY <1>3, <1>4, UploadStays, CollectorStays, RestoreStays DEF HistoryInv, WorkKnown
  <1> QED BY <1>1, <1>3, <1>5, <1>6, TablesStay DEF HistoryInv, WorkKnown

\* Manifests come and go while the rows stay, which keep theirs.
LEMMA ManifestsChange ==
  ASSUME HistoryInv, UNCHANGED <<file, created, puts, versions, head, blobs, disk>>, WorkKnown',
         manifests' \subseteq Data, \A d \in manifests \ manifests' : Unreferenced(d)
  PROVE  HistoryInv'
  <1>1. Numbered' /\ Stored' /\ HeadThere' /\ BlobRefsExact' /\ NewestKept'
    BY DEF HistoryInv, Numbered, Stored, HeadThere, BlobRefsExact, NewestKept, Pointing
  <1>2. RowsKnown'
    BY DEF HistoryInv, RowsKnown, Recorded, Referenced, Unreferenced
  <1> QED BY <1>1, <1>2 DEF HistoryInv

LEMMA WriteManifestKeeps ==
  ASSUME HistoryInv, NEW m \in Migrator, WriteManifest(m) PROVE HistoryInv'
  <1>1. PICK b : b = migration[m].blob /\ b \in 1..puts /\ migration = [k \in Migrator |-> migration[k]]
    BY WaitingIdle DEF WriteManifest, HistoryInv, WorkKnown, MigrationKnown
  <1>2. UNCHANGED <<file, created, puts, versions, head, blobs, disk, upload, restore, collector>>
    BY DEF WriteManifest
  <1>3. CASE b \in DOMAIN disk
    <2>1. PICK d \in Data : d = disk[b]
      BY <1>3 DEF HistoryInv, Numbered
    <2>2. PICK g : /\ g.at = "switch" /\ g.blob = b /\ g.manifest = d
                   /\ migration' = [migration EXCEPT ![m] = g] /\ manifests' = manifests \cup {d}
      BY <1>1, <1>3, <2>1 DEF WriteManifest
    <2>3. Settled
      BY <1>2 DEF HistoryInv, Numbered, Settled
    <2>4. ASSUME NEW k \in Migrator PROVE MigrationKnown(k)'
      <3>1. CASE k = m
        BY <1>1, <1>2, <2>1, <2>2, <3>1 DEF MigrationKnown
      <3>2. CASE k # m
        BY <1>1, <2>2, <2>3, <3>2, MigrationStays DEF HistoryInv, WorkKnown
      <3> QED BY <3>1, <3>2
    <2>5. UploadKnown' /\ CollectorKnown' /\ RestoreKnown'
      BY <1>2, <2>3, UploadStays, CollectorStays, RestoreStays DEF HistoryInv, WorkKnown
    <2>6. manifests' \subseteq Data /\ manifests \ manifests' = {}
      BY <2>1, <2>2 DEF HistoryInv, Numbered
    <2> QED BY <1>1, <1>2, <2>2, <2>4, <2>5, <2>6, ManifestsChange DEF WorkKnown
  <1>4. CASE b \notin DOMAIN disk
    BY <1>1, <1>2, <1>4, WorkEnds DEF WriteManifest
  <1> QED BY <1>3, <1>4

\* A version still points to the blob that was read, so the manifest is of its content.
LEMMA SwitchKeeps ==
  ASSUME HistoryInv, NEW m \in Migrator, SwitchToManifest(m) PROVE HistoryInv'
  <1>1. PICK v, b, d : /\ v = migration[m].version /\ b = migration[m].blob /\ d = migration[m].manifest
                       /\ b \in 1..puts /\ d \in Data /\ (b \in DOMAIN disk => disk[b] = d)
    BY WaitingIdle DEF SwitchToManifest, HistoryInv, WorkKnown, MigrationKnown
  <1>2. /\ migration' = [migration EXCEPT ![m] = Waiting]
        /\ UNCHANGED <<file, created, puts, head, disk, upload, restore, collector>>
        /\ migration = [k \in Migrator |-> migration[k]]
    BY DEF SwitchToManifest, HistoryInv, WorkKnown
  <1>3. Settled
    BY <1>2 DEF HistoryInv, Numbered, Settled
  <1>4. CASE Switchable(m)
    <2>1. PICK row : row = [versions[v] EXCEPT !.blob = NoBlob, !.manifest = d]
      OBVIOUS
    <2>2. /\ v \in DOMAIN versions /\ versions[v].blob = b /\ d \in manifests
          /\ versions' = Switched(m) /\ blobs' = Bumped(versions') /\ manifests' = manifests
      BY <1>1, <1>4 DEF SwitchToManifest, Switchable
    <2>3. versions' = [versions EXCEPT ![v] = row]
      BY <1>1, <2>1, <2>2 DEF Switched
    <2>4. DOMAIN blobs' = DOMAIN blobs
      BY <2>2 DEF Bumped
    <2>5. Recorded(versions[v]) /\ Referenced(versions[v]) /\ (~Cancels => b \in DOMAIN disk)
      BY <1>1, <2>2 DEF HistoryInv, RowsKnown, Referenced, Stored, NoBlob
    <2>6. (Recorded(versions[v]) /\ Referenced(versions[v]))'
      <3>1. row \in VersionRow /\ row.blob = NoBlob /\ row.manifest = d /\ row.data = versions[v].data
        BY <1>1, <2>1, <2>5 DEF Recorded, VersionRow, NoBlob
      <3>2. d # NoData /\ puts' \in Nat /\ 0 \notin DOMAIN disk'
        BY <1>1, <1>2, VersionAssumption DEF NoData, HistoryInv, Numbered
      <3>3. ~Cancels => d = row.data
        BY <1>1, <2>2, <2>5, <3>1 DEF Recorded
      <3>4. Recorded(row)' /\ Referenced(row)'
        BY <2>2, <3>1, <3>2, <3>3 DEF Recorded, Referenced, NoBlob
      <3> QED BY <2>2, <2>3, <3>4
    <2>7. RowsKnown'
      <3>1. ASSUME NEW w \in DOMAIN versions, w # v PROVE (Recorded(versions[w]) /\ Referenced(versions[w]))'
        BY <1>3, <2>2, <2>3, <2>4, <3>1, RowsStay DEF HistoryInv
      <3> QED BY <2>3, <2>6, <3>1 DEF RowsKnown
    <2>8. HeadThere' /\ NewestKept' /\ DOMAIN versions' \subseteq 1..created' /\ created' \in Nat
      BY <1>2, <2>2, <2>3 DEF HistoryInv, HeadThere, NewestKept, Numbered
    <2>9. WorkKnown'
      BY <1>2, <2>4, WorkStays DEF HistoryInv
    <2> QED BY <1>2, <2>2, <2>7, <2>8, <2>9, RowsChange
  <1>5. CASE ~Switchable(m)
    <2>1. manifests' = Dropped(m) /\ UNCHANGED <<versions, blobs>>
      BY <1>5 DEF SwitchToManifest
    <2>2. WorkKnown'
      BY <1>2, <2>1, WorkStays DEF HistoryInv
    <2>3. manifests' \subseteq Data /\ \A x \in manifests \ manifests' : Unreferenced(x)
      BY <2>1 DEF Dropped, HistoryInv, Numbered
    <2> QED BY <1>2, <2>1, <2>2, <2>3, ManifestsChange
  <1> QED BY <1>4, <1>5

\* What the statement spares: the head, and the newest Keep.
LEMMA PruneKeeps ==
  ASSUME HistoryInv, PruneVersions PROVE HistoryInv'
  <1>1. PICK pruned : /\ pruned = {v \in DOMAIN versions \cap aged : v # head /\ Rank(v) > Keep}
                      /\ versions' = [v \in DOMAIN versions \ pruned |-> versions[v]]
                      /\ blobs' = Bumped(versions')
    BY DEF PruneVersions
  <1>2. /\ UNCHANGED <<file, created, puts, head, disk, manifests, upload, restore, migration, collector>>
        /\ migration = [k \in Migrator |-> migration[k]]
    BY DEF PruneVersions, versionWork, HistoryInv, WorkKnown
  <1>3. Settled /\ DOMAIN blobs' = DOMAIN blobs
    BY <1>1, <1>2 DEF HistoryInv, Numbered, Settled, Bumped
  <1>4. RowsKnown'
    BY <1>1, <1>2, <1>3, RowsStay DEF HistoryInv, RowsKnown
  <1>5. ASSUME NEW v \in DOMAIN versions, created - v < Keep PROVE v \notin pruned
    <2>1. v \in Nat /\ v <= created /\ created \in Nat
      BY DEF HistoryInv, Numbered
    <2>2. IsFiniteSet(v..created) /\ Cardinality(v..created) = (created - v) + 1
      BY <2>1, FS_Interval
    <2>3. {w \in DOMAIN versions : w >= v} \in SUBSET (v..created)
      BY <2>1 DEF HistoryInv, Numbered
    <2>4. Rank(v) <= Cardinality(v..created) /\ Rank(v) \in Nat
      BY <2>2, <2>3, FS_Subset, FS_CardinalityType DEF Rank
    <2> QED BY <1>1, <1>5, <2>1, <2>2, <2>4, VersionAssumption
  <1>6. NewestKept'
    BY <1>1, <1>2, <1>5 DEF HistoryInv, NewestKept
  <1>7. HeadThere' /\ DOMAIN versions' \subseteq 1..created' /\ created' \in Nat
    BY <1>1, <1>2 DEF HistoryInv, HeadThere, Numbered
  <1>8. WorkKnown'
    BY <1>2, <1>3, WorkStays DEF HistoryInv
  <1> QED BY <1>1, <1>2, <1>4, <1>6, <1>7, <1>8, RowsChange

LEMMA ListBlobsKeeps ==
  ASSUME HistoryInv, ListBlobs PROVE HistoryInv'
  <1>1. PICK b \in DOMAIN blobs : collector' = [at |-> "row", blob |-> b]
    BY DEF ListBlobs
  <1>2. UNCHANGED <<file, created, puts, versions, head, blobs, disk, manifests, upload, restore, migration>>
    BY DEF ListBlobs
  <1>3. CollectorKnown'
    BY <1>1, <1>2 DEF HistoryInv, Numbered, WorkKnown, UploadKnown, CollectorKnown
  <1>4. Settled
    BY <1>2 DEF HistoryInv, Numbered, Settled
  <1>5. UploadKnown' /\ RestoreKnown' /\ \A m \in Migrator : MigrationKnown(m)'
    BY <1>2, <1>4, UploadStays, RestoreStays, MigrationStays DEF HistoryInv, WorkKnown
  <1> QED BY <1>2, <1>3, <1>5, TablesStay DEF HistoryInv, WorkKnown

\* A blob whose count is zero has no version: its row can go.
LEMMA DeleteBlobRowKeeps ==
  ASSUME HistoryInv, DeleteBlobRow PROVE HistoryInv'
  <1>1. /\ UNCHANGED <<file, created, puts, versions, head, disk, manifests, upload, restore, migration>>
        /\ migration = [k \in Migrator |-> migration[k]]
    BY DEF DeleteBlobRow, HistoryInv, WorkKnown
  <1>2. PICK b : b = collector.blob
    OBVIOUS
  <1>3. CASE b \in DOMAIN blobs /\ blobs[b] = 0
    <2>1. /\ blobs' = [x \in DOMAIN blobs \ {b} |-> blobs[x]]
          /\ collector # Waiting /\ collector' = [collector EXCEPT !.at = "bytes"]
      BY <1>2, <1>3, WaitingIdle DEF DeleteBlobRow
    <2>2. IsFiniteSet(Pointing(versions, b)) /\ Cardinality(Pointing(versions, b)) = 0
      BY <1>3, FewRows DEF HistoryInv, Numbered, BlobRefsExact
    <2>3. Pointing(versions, b) = {}
      BY <2>2, FS_EmptySet
    <2>4. \A v \in DOMAIN versions : versions[v].blob # b
      BY <2>3 DEF Pointing
    <2>5. RowsKnown'
      BY <1>1, <2>1, <2>4 DEF HistoryInv, RowsKnown, Recorded, Referenced
    <2>6. Numbered' /\ Stored' /\ HeadThere' /\ NewestKept' /\ BlobRefsExact' /\ Settled
      BY <1>1, <2>1 DEF HistoryInv, Numbered, Stored, HeadThere, NewestKept, BlobRefsExact, Pointing, Settled
    <2>7. CollectorKnown' /\ UploadKnown'
      <3>1. collector'.at = "bytes" /\ collector'.blob = b /\ b \in 1..puts
        BY <1>2, <2>1 DEF HistoryInv, WorkKnown, CollectorKnown
      <3>2. CollectorKnown'
        BY <1>1, <1>2, <2>1, <3>1 DEF HistoryInv, WorkKnown, CollectorKnown
      <3> QED BY <1>1, <2>1, <3>2, UploadStays DEF HistoryInv, WorkKnown
    <2>8. RestoreKnown' /\ \A m \in Migrator : MigrationKnown(m)'
      BY <1>1, <2>6, RestoreStays, MigrationStays DEF HistoryInv, WorkKnown
    <2> QED BY <1>1, <2>5, <2>6, <2>7, <2>8 DEF HistoryInv, WorkKnown
  <1>4. CASE ~(b \in DOMAIN blobs /\ blobs[b] = 0)
    BY <1>1, <1>2, <1>4, WorkEnds DEF DeleteBlobRow
  <1> QED BY <1>3, <1>4

LEMMA DeleteBlobBytesKeeps ==
  ASSUME HistoryInv, DeleteBlobBytes PROVE HistoryInv'
  <1>1. PICK b : b = collector.blob /\ b \notin DOMAIN blobs /\ (upload # Waiting => b # upload.blob)
    BY WaitingIdle DEF DeleteBlobBytes, HistoryInv, WorkKnown, CollectorKnown
  <1>2. /\ UNCHANGED <<file, created, puts, versions, head, blobs, manifests, upload, restore, migration>>
        /\ collector' = Waiting /\ disk' \in {disk, [x \in DOMAIN disk \ {b} |-> disk[x]]}
    BY <1>1 DEF DeleteBlobBytes
  <1>3. Settled /\ Numbered' /\ Stored'
    BY <1>1, <1>2 DEF HistoryInv, Numbered, Settled, Stored
  <1>4. HeadThere' /\ NewestKept' /\ BlobRefsExact'
    BY <1>2 DEF HistoryInv, HeadThere, NewestKept, BlobRefsExact, Pointing
  <1>5. RowsKnown'
    BY <1>2, <1>3, RowsStay DEF HistoryInv, RowsKnown
  <1>6. UploadKnown' /\ CollectorKnown'
    BY <1>1, <1>2 DEF HistoryInv, WorkKnown, UploadKnown, CollectorKnown
  <1>7. RestoreKnown' /\ \A m \in Migrator : MigrationKnown(m)'
    BY <1>2, <1>3, RestoreStays, MigrationStays DEF HistoryInv, WorkKnown
  <1> QED BY <1>2, <1>3, <1>4, <1>5, <1>6, <1>7 DEF HistoryInv, WorkKnown

LEMMA CollectManifestKeeps ==
  ASSUME HistoryInv, NEW d \in Data, CollectManifest(d) PROVE HistoryInv'
  <1>1. /\ manifests' = manifests \ {d} /\ Unreferenced(d)
        /\ UNCHANGED <<file, created, puts, versions, head, blobs, disk, upload, restore, migration, collector>>
        /\ migration = [k \in Migrator |-> migration[k]]
    BY DEF CollectManifest, versionWork, HistoryInv, WorkKnown
  <1>2. WorkKnown'
    BY <1>1, WorkStays DEF HistoryInv
  <1>3. manifests' \subseteq Data
    BY <1>1 DEF HistoryInv, Numbered
  <1> QED BY <1>1, <1>2, <1>3, ManifestsChange

LEMMA TrashingKeeps ==
  ASSUME HistoryInv, TrashFile \/ RestoreFile PROVE HistoryInv'
  <1>1. /\ file # "gone" /\ file' \in {"live", "trashed"}
        /\ UNCHANGED <<created, puts, versions, head, blobs, disk, manifests, upload, restore, migration, collector>>
        /\ migration = [k \in Migrator |-> migration[k]]
    BY DEF TrashFile, RestoreFile, versionWork, HistoryInv, WorkKnown
  <1>2. WorkKnown'
    BY <1>1, WorkStays DEF HistoryInv
  <1>3. Numbered' /\ Stored' /\ RowsKnown'
    BY <1>1 DEF HistoryInv, Numbered, Stored, RowsKnown, Recorded, Referenced
  <1>4. HeadThere' /\ NewestKept' /\ BlobRefsExact'
    BY <1>1 DEF HistoryInv, HeadThere, NewestKept, BlobRefsExact, Pointing
  <1> QED BY <1>2, <1>3, <1>4 DEF HistoryInv

LEMMA PurgeFileKeeps ==
  ASSUME HistoryInv, PurgeFile PROVE HistoryInv'
  <1>1. /\ file' = "gone" /\ versions' = << >> /\ blobs' = Bumped(versions')
        /\ UNCHANGED <<created, puts, disk, manifests, upload, restore, migration, collector>>
        /\ migration = [k \in Migrator |-> migration[k]]
    BY DEF PurgeFile, versionWork, HistoryInv, WorkKnown
  <1>2. DOMAIN versions' = {}
    BY <1>1
  <1>3. RowsKnown' /\ HeadThere' /\ NewestKept' /\ DOMAIN versions' \subseteq 1..created' /\ created' \in Nat
    BY <1>1, <1>2 DEF RowsKnown, HeadThere, NewestKept, HistoryInv, Numbered
  <1>4. WorkKnown'
    <2>1. DOMAIN blobs' = DOMAIN blobs
      BY <1>1 DEF Bumped
    <2> QED BY <1>1, <2>1, WorkStays DEF HistoryInv
  <1> QED BY <1>1, <1>3, <1>4, RowsChange

-----------------------------------------------------------------------------
LEMMA HistoryStart == VersionInit => HistoryInv
  <1> SUFFICES ASSUME VersionInit PROVE HistoryInv
    OBVIOUS
  <1>0. PICK d \in Data : /\ versions = [v \in {1} |-> [blob |-> 1, manifest |-> NoData, data |-> d]]
                          /\ disk = [b \in {1} |-> d]
    BY DEF VersionInit
  <1>1. PICK row : /\ row = [blob |-> 1, manifest |-> NoData, data |-> d]
                   /\ versions = [v \in {1} |-> row] /\ disk = [b \in {1} |-> d]
    BY <1>0
  <1>2. /\ DOMAIN versions = {1} /\ versions[1] = row /\ DOMAIN disk = {1} /\ disk[1] = d
        /\ DOMAIN blobs = {1} /\ blobs[1] = 1
    BY <1>1 DEF VersionInit
  <1>3. /\ created = 1 /\ puts = 1 /\ head = 1 /\ manifests = {} /\ file = "live"
        /\ upload = Waiting /\ restore = Waiting /\ collector = Waiting
        /\ migration = [m \in Migrator |-> Waiting]
    BY DEF VersionInit
  <1>4. Numbered /\ Stored /\ HeadThere /\ NewestKept
    BY <1>2, <1>3 DEF Numbered, Stored, HeadThere, NewestKept
  <1>5. RowsKnown
    BY <1>1, <1>2, <1>3 DEF RowsKnown, Recorded, Referenced, VersionRow, NoBlob
  <1>6. BlobRefsExact
    <2>1. Pointing(versions, 1) = {1}
      BY <1>1, <1>2 DEF Pointing
    <2> QED BY <1>2, <2>1, FS_Singleton DEF BlobRefsExact
  <1>7. WorkKnown
    BY <1>3 DEF WorkKnown, UploadKnown, RestoreKnown, CollectorKnown, MigrationKnown
  <1> QED BY <1>4, <1>5, <1>6, <1>7 DEF HistoryInv

LEMMA HistoryStep == HistoryInv /\ [VersionNext]_versionVars => HistoryInv'
  <1> SUFFICES ASSUME HistoryInv, [VersionNext]_versionVars PROVE HistoryInv'
    OBVIOUS
  <1>1. ASSUME NEW d \in Data, PutBlob(d) \/ CollectManifest(d) PROVE HistoryInv'
    BY <1>1, PutBlobKeeps, CollectManifestKeeps
  <1>2. CASE PutFile \/ PutFileFails \/ UploadDies
    BY <1>2, PutFileKeeps, PutFileFailsKeeps, RequestsEnd
  <1>3. ASSUME NEW v \in 1..created, ReadVersion(v) \/ VersionAges(v) PROVE HistoryInv'
    BY <1>3, ReadVersionKeeps, RequestsEnd
  <1>4. ASSUME NEW m \in Migrator,
               ListMigratable(m) \/ WriteManifest(m) \/ SwitchToManifest(m) \/ MigrationDies(m)
        PROVE  HistoryInv'
    BY <1>4, ListMigratableKeeps, WriteManifestKeeps, SwitchKeeps, RequestsEnd
  <1>5. CASE RestoreVersion \/ PruneVersions
    BY <1>5, RestoreVersionKeeps, PruneKeeps
  <1>6. CASE ListBlobs \/ DeleteBlobRow \/ DeleteBlobBytes
    BY <1>6, ListBlobsKeeps, DeleteBlobRowKeeps, DeleteBlobBytesKeeps
  <1>7. CASE TrashFile \/ RestoreFile \/ PurgeFile
    BY <1>7, TrashingKeeps, PurgeFileKeeps
  <1>8. CASE UNCHANGED versionVars
    BY <1>8, WorkEnds DEF versionVars, HistoryInv, WorkKnown
  <1> QED BY <1>1, <1>2, <1>3, <1>4, <1>5, <1>6, <1>7, <1>8 DEF VersionNext

\* Every version is a blob or a manifest and not both, and a file that exists has its
\* head among its versions (files/store.go, PutFile; files/versions.go, RestoreVersion
\* and PruneVersions).
THEOREM HistoryTypesHold == VersionSpec => []VersionTypeOK
  <1>1. HistoryInv => VersionTypeOK
    BY DEF HistoryInv, RowsKnown, Recorded, HeadThere, VersionTypeOK
  <1> QED BY <1>1, HistoryStart, HistoryStep, PTL DEF VersionSpec

\* The counts that the collector trusts are exact, and the newest versions are kept, with
\* every cancellation (the trigger blob_refcount_bump; files/versions.go, PruneVersions).
THEOREM CountsAndNewestHold == VersionSpec => [](BlobRefsExact /\ NewestKept)
  <1>1. HistoryInv => BlobRefsExact /\ NewestKept
    BY DEF HistoryInv
  <1> QED BY <1>1, HistoryStart, HistoryStep, PTL DEF VersionSpec

\* As long as no request is cancelled between the commit of an upload and its answer, the
\* history of a file is exact, reaches back as promised, and can be served with the
\* content it was made with (files/service.go, Upload, MigrateBlobs, CollectGarbage).
THEOREM HistoryIsSound == ~Cancels => (VersionSpec => []HistorySound)
  <1> SUFFICES ASSUME ~Cancels PROVE VersionSpec => []HistorySound
    OBVIOUS
  <1>1. HistoryInv => VersionsServed
    <2> SUFFICES ASSUME HistoryInv, NEW v \in DOMAIN versions
                 PROVE  LET row == versions[v] IN
                          IF row.blob # NoBlob
                          THEN row.blob \in DOMAIN blobs /\ row.blob \in DOMAIN disk /\ disk[row.blob] = row.data
                          ELSE row.manifest = row.data /\ row.manifest \in manifests
      BY DEF VersionsServed
    <2> QED BY DEF HistoryInv, RowsKnown, Recorded, Referenced, Stored
  <1>2. HistoryInv => HistorySound
    BY <1>1 DEF HistoryInv, HistorySound
  <1> QED BY <1>2, HistoryStart, HistoryStep, PTL DEF VersionSpec

(***************************************************************************)
(* Accounts: types                                                         *)
(***************************************************************************)
CallPoints == {"user", "credential", "codes", "session", "consume", "provision",
               "update", "delete", "revoke", "apps"}
CallOps == {"create", "enrol", "login", "redeem", "token", "oidc", "forget", "add", "addAdmin",
            "demote", "disable", "promote", "enable", "lock", "reset"}
CodeProof == (0..MaxSets) \X (Code \cup {0})
CallRow == [at : CallPoints, op : CallOps, user : User, kind : Kinds, proof : CodeProof,
            seen : 0..MaxDisables, key : SUBSET Passkey]
CeremonyRow == [state : {"open"}, kind : {"registration", "bootstrap", "login"}, user : User,
                via : Kinds \cup {"nobody"}]
CodeRow == [set : 0..MaxSets, unused : SUBSET Code]

TablesTyped ==
  /\ users \in [User -> {"absent", "active", "disabled"}]
  /\ admins \subseteq User /\ linked \subseteq User /\ cut \subseteq User
  /\ passkeys \in [User -> SUBSET Passkey] /\ appPasswords \in [User -> SUBSET AppPassword]
  /\ codes \in [User -> CodeRow] /\ disables \in [User -> 0..MaxDisables]
SessionsTyped ==
  /\ sessions \in [Session -> SessionRow \cup {None}]
  /\ ceremonies \in [Ceremony -> CeremonyRow \cup {None}]
CallsTyped == reqs \in [Caller -> CallRow \cup {NoCall}]

LEMMA EmptyRows ==
  /\ None.state = "none" /\ NoCall.at = "idle" /\ None \notin SessionRow /\ None \notin CeremonyRow
  /\ NoCall \notin CallRow /\ NoCode \in CodeProof
  <1>1. None.state = "none" /\ NoCall.at = "idle"
    BY DEF None, NoCall
  <1>2. /\ \A q \in SessionRow : q.state # "none"
        /\ \A q \in CeremonyRow : q.state # "none"
        /\ \A q \in CallRow : q.at # "idle"
    BY DEF SessionRow, CeremonyRow, CallRow, CallPoints
  <1>3. NoCode \in CodeProof
    BY AccountsAssumption DEF NoCode, CodeProof
  <1> QED BY <1>1, <1>2, <1>3

\* A request as it starts.
LEMMA Started ==
  ASSUME TablesTyped, NEW at \in CallPoints, NEW op \in CallOps, NEW u \in User
  PROVE  \E q \in CallRow :
           /\ q = CallStep(at, op, u) /\ q.at = at /\ q.op = op /\ q.user = u /\ q.kind = "web"
           /\ q.seen = disables[u] /\ q.seen <= disables[u] /\ q.proof = NoCode /\ q.key = {}
  <1>1. PICK k : k = "web" /\ k \in Kinds
    BY DEF Kinds
  <1>2. PICK q : q = [at |-> at, op |-> op, user |-> u, kind |-> k, proof |-> NoCode,
                      seen |-> disables[u], key |-> {}]
    OBVIOUS
  <1>3. disables[u] \in 0..MaxDisables
    BY DEF TablesTyped
  <1>4. q \in CallRow
    BY <1>1, <1>2, <1>3, EmptyRows DEF CallRow
  <1>5. disables[u] <= disables[u]
    BY <1>3, AccountsAssumption
  <1> QED BY <1>1, <1>2, <1>4, <1>5 DEF CallStep

\* Every step moves one request at most.
Moves(r, q) == reqs' = [reqs EXCEPT ![r] = q]

LEMMA GotoMoves ==
  ASSUME CallsTyped, NEW r \in Caller, reqs[r] # NoCall, NEW at \in CallPoints, Goto(r, at)
  PROVE  \E q \in CallRow :
           /\ Moves(r, q) /\ q.at = at /\ q.op = reqs[r].op /\ q.user = reqs[r].user
           /\ q.kind = reqs[r].kind /\ q.seen = reqs[r].seen /\ q.proof = reqs[r].proof
           /\ q.key = reqs[r].key
  <1>1. PICK q : q = [reqs[r] EXCEPT !.at = at]
    OBVIOUS
  <1>2. reqs' = [reqs EXCEPT ![r] = q]
    BY <1>1 DEF Goto
  <1>3. reqs[r] \in CallRow
    BY DEF CallsTyped
  <1>4. q \in CallRow /\ q.at = at /\ q.op = reqs[r].op /\ q.user = reqs[r].user
        /\ q.kind = reqs[r].kind /\ q.seen = reqs[r].seen /\ q.proof = reqs[r].proof
        /\ q.key = reqs[r].key
    BY <1>1, <1>3 DEF CallRow
  <1> QED BY <1>2, <1>4 DEF Moves

LEMMA MovesTyped ==
  ASSUME CallsTyped, NEW r \in Caller, NEW q \in CallRow \cup {NoCall}, Moves(r, q)
  PROVE  /\ CallsTyped' /\ reqs'[r] = q /\ \A o \in Caller \ {r} : reqs'[o] = reqs[o]
  BY DEF CallsTyped, Moves

-----------------------------------------------------------------------------
(* What is known of accounts and of the requests in flight                 *)

UsersKnown ==
  /\ \A u \in User : users[u] = "absent" =>
       disables[u] = 0 /\ appPasswords[u] = {} /\ u \notin linked /\ u \notin admins
  /\ \A u \in User : users[u] = "disabled" => disables[u] > 0
  /\ \A s \in Session : sessions[s] # None => users[sessions[s].user] # "absent"
  /\ \A u, v \in User : u # v => passkeys[u] \cap passkeys[v] = {}
  /\ \A u, v \in linked : u = v

\* On its way to a session.
SigningIn(q) ==
  q.at \in {"session", "consume"} \/ (q.op = "create" /\ q.at \in {"codes", "credential"})

\* A sign-in looked at the account while it was active; a code was read before it was
\* consumed.
CallKnown(q) ==
  /\ SigningIn(q) \/ q.at = "update" => users[q.user] # "absent"
  /\ SigningIn(q) \/ q.at = "user" => q.seen <= disables[q.user]
  /\ SigningIn(q) /\ users[q.user] = "disabled" => q.seen < disables[q.user]
  /\ q.at = "provision" => q.seen = 0
  /\ q.at = "apps" => q.op = "reset"
  /\ q.kind = "recovery" => q.at \in {"consume", "session"} /\ q.proof[1] <= codes[q.user].set
CallsKnown == \A r \in Caller : reqs[r] # NoCall => CallKnown(reqs[r])

\* Whose sessions a disable is about to revoke, or has left behind.
Spared(u) == u \in cut \/ \E r \in Caller : At(r, "revoke") /\ reqs[r].user = u

RedeemedKnown ==
  \A s \in Session : sessions[s] # None /\ sessions[s].kind = "recovery" =>
    sessions[s].proof[1] <= codes[sessions[s].user].set

\* While checks and writes do not overlap, what was checked still holds.
StillRight(r) ==
  /\ At(r, "update") /\ reqs[r].op \in {"demote", "disable"} => ActiveAdmins \ {reqs[r].user} # {}
  /\ At(r, "delete") => passkeys[reqs[r].user] \ reqs[r].key # {}
ChecksHold ==
  ~Overlap => /\ \A r, o \in Caller : Checked(r) /\ Checked(o) => r = o
              /\ \A r \in Caller : StillRight(r)

AccountInv ==
  /\ TablesTyped /\ SessionsTyped /\ CallsTyped /\ UsersKnown /\ CallsKnown
  /\ DisableHolds /\ CodeOpensOne /\ RedeemedKnown /\ ChecksHold

-----------------------------------------------------------------------------
(* What stays true                                                         *)

\* Accounts do not vanish, an account that becomes disabled is counted, and sets of codes
\* are numbered.
Onward ==
  /\ \A u \in User : users[u] # "absent" => users'[u] # "absent"
  /\ \A u \in User : disables[u] <= disables'[u]
  /\ \A u \in User : users'[u] = "disabled" => users[u] = "disabled" \/ disables[u] < disables'[u]
  /\ \A u \in User : codes[u].set <= codes'[u].set

LEMMA CallStays ==
  ASSUME TablesTyped, TablesTyped', Onward, NEW q \in CallRow, CallKnown(q)
  PROVE  CallKnown(q)'
  <1>1. PICK u \in User, n \in Nat, p \in Nat : u = q.user /\ n = q.seen /\ p = q.proof[1]
    BY AccountsAssumption DEF CallRow, CodeProof
  <1>2. /\ disables[u] \in Nat /\ disables'[u] \in Nat
        /\ codes[u].set \in Nat /\ codes'[u].set \in Nat
    BY DEF TablesTyped, CodeRow
  <1> QED BY <1>1, <1>2 DEF CallKnown, Onward, SigningIn

LEMMA CallsStay ==
  ASSUME AccountInv, TablesTyped', Onward, reqs' = reqs PROVE CallsKnown'
  BY CallStays DEF AccountInv, CallsKnown, CallsTyped

LEMMA CallsMove ==
  ASSUME AccountInv, TablesTyped', Onward, NEW r \in Caller, NEW q \in CallRow \cup {NoCall},
         Moves(r, q), q = NoCall \/ CallKnown(q)'
  PROVE  CallsKnown'
  <1>1. CallsTyped' /\ reqs'[r] = q /\ \A o \in Caller \ {r} : reqs'[o] = reqs[o]
    BY MovesTyped DEF AccountInv
  <1>2. ASSUME NEW o \in Caller, reqs'[o] # NoCall PROVE CallKnown(reqs[o])'
    <2>1. CASE o = r
      BY <1>1, <1>2, <2>1
    <2>2. CASE o # r
      <3>1. PICK k \in CallRow : k = reqs[o] /\ k = reqs'[o] /\ CallKnown(k)
        BY <1>1, <1>2, <2>2 DEF AccountInv, CallsKnown, CallsTyped
      <3> QED BY <3>1, CallStays DEF AccountInv
    <2> QED BY <2>1, <2>2
  <1> QED BY <1>2 DEF CallsKnown

\* Sessions die or go; one that stays is the same.
SessionsShrink ==
  \A s \in Session : sessions'[s] # None =>
    /\ sessions[s] # None
    /\ sessions'[s].user = sessions[s].user /\ sessions'[s].kind = sessions[s].kind
    /\ sessions'[s].proof = sessions[s].proof
    /\ sessions'[s].seen = sessions[s].seen /\ sessions'[s].made = sessions[s].made
    /\ sessions'[s].state = "live" => sessions[s].state = "live"

LEMMA DisableStays ==
  ASSUME AccountInv, SessionsShrink,
         \A u \in User : /\ users'[u] = "disabled" /\ ~Spared(u)'
                         /\ \E s \in Session : sessions'[s].state = "live" /\ sessions'[s].user = u
                         => users[u] = "disabled" /\ ~Spared(u) /\ disables'[u] = disables[u]
  PROVE  DisableHolds'
  <1> SUFFICES ASSUME NEW s \in Session, sessions'[s].state = "live",
                      users'[sessions'[s].user] = "disabled", ~Spared(sessions[s].user)'
               PROVE  /\ sessions'[s].seen < sessions'[s].made
                      /\ sessions'[s].made = disables'[sessions'[s].user]
    BY DEF DisableHolds, SessionUser, Disabled, Spared, At
  <1>1. sessions'[s] # None
    BY EmptyRows
  <1>2. PICK u \in User : u = sessions[s].user /\ u = sessions'[s].user
    BY <1>1 DEF SessionsShrink, AccountInv, SessionsTyped, SessionRow
  <1>3. users[u] = "disabled" /\ ~Spared(u) /\ disables'[u] = disables[u]
    BY <1>2
  <1>4. sessions[s].seen < sessions[s].made /\ sessions[s].made = disables[u]
    BY <1>1, <1>2, <1>3 DEF AccountInv, DisableHolds, SessionUser, Disabled, Spared, SessionsShrink
  <1> QED BY <1>1, <1>2, <1>3, <1>4 DEF SessionsShrink

\* What was redeemed is a code of a set that was there.
LEMMA RedeemerKnown ==
  ASSUME AccountInv, NEW x \in Redeemers
  PROVE  \E u \in User, p \in CodeProof : ProofOf(x) = <<u, p>> /\ p[1] <= codes[u].set
  <1>1. CASE x \in Session
    <2>1. x \notin Caller
      BY <1>1, AccountsAssumption
    <2>2. sessions[x] \in SessionRow /\ sessions[x].kind = "recovery" /\ sessions[x] # None
      BY <1>1, <2>1, EmptyRows DEF Redeemers, AccountInv, SessionsTyped
    <2>3. sessions[x].user \in User /\ sessions[x].proof \in CodeProof
      BY <2>2 DEF SessionRow, CodeProof
    <2> QED BY <1>1, <2>2, <2>3 DEF ProofOf, AccountInv, RedeemedKnown
  <1>2. CASE x \notin Session
    <2>1. x \in Caller /\ reqs[x].at = "session" /\ reqs[x].kind = "recovery"
      BY <1>2 DEF Redeemers, At
    <2>2. reqs[x] \in CallRow /\ CallKnown(reqs[x])
      BY <2>1, EmptyRows DEF AccountInv, CallsTyped, CallsKnown
    <2> QED BY <1>2, <2>1, <2>2 DEF ProofOf, CallRow, CallKnown
  <1> QED BY <1>1, <1>2

CodesOnward ==
  \A u \in User : \/ codes[u].set < codes'[u].set
                  \/ codes'[u].set = codes[u].set /\ codes'[u].unused \subseteq codes[u].unused

\* Nobody redeems in the step.
LEMMA CodesStay ==
  ASSUME AccountInv, TablesTyped', SessionsTyped', SessionsShrink, CodesOnward,
         \A r \in Caller : reqs'[r].at = "session" /\ reqs'[r].kind = "recovery" => reqs'[r] = reqs[r]
  PROVE  CodeOpensOne' /\ RedeemedKnown'
  <1>1. ASSUME NEW x \in Redeemers' PROVE x \in Redeemers /\ ProofOf(x)' = ProofOf(x)
    <2>1. CASE x \in Session
      <3>1. x \notin Caller
        BY <2>1, AccountsAssumption
      <3>2. sessions'[x].state # "none" /\ sessions'[x].kind = "recovery"
        BY <1>1, <2>1, <3>1 DEF Redeemers
      <3>3. sessions'[x] # None /\ sessions[x] # None /\ sessions[x] \in SessionRow
        BY <2>1, <3>2, EmptyRows DEF SessionsShrink, AccountInv, SessionsTyped
      <3>4. sessions[x].state # "none" /\ sessions[x].kind = "recovery"
        BY <2>1, <3>2, <3>3 DEF SessionsShrink, SessionRow
      <3>5. sessions'[x].user = sessions[x].user /\ sessions'[x].proof = sessions[x].proof
        BY <2>1, <3>3 DEF SessionsShrink
      <3> QED BY <2>1, <3>4, <3>5 DEF Redeemers, ProofOf
    <2>2. CASE x \notin Session
      BY <1>1, <2>2 DEF Redeemers, ProofOf, At
    <2> QED BY <2>1, <2>2
  <1>2. ASSUME NEW x \in Redeemers' PROVE LET u == ProofOf(x)[1]  p == ProofOf(x)[2] IN
                                            codes'[u].set = p[1] => p[2] \notin codes'[u].unused
    <2>1. PICK u \in User, p \in CodeProof : ProofOf(x) = <<u, p>> /\ p[1] <= codes[u].set
      BY <1>1, <1>2, RedeemerKnown
    <2>2. codes[u].set = p[1] => p[2] \notin codes[u].unused
      BY <1>1, <1>2, <2>1 DEF AccountInv, CodeOpensOne
    <2>3. codes[u].set \in Nat /\ codes'[u].set \in Nat /\ p[1] \in Nat
      BY AccountsAssumption DEF AccountInv, TablesTyped, CodeRow, CodeProof
    <2>4. codes'[u].set = p[1] => p[2] \notin codes'[u].unused
      BY <2>1, <2>2, <2>3 DEF CodesOnward
    <2> QED BY <2>1, <2>4
  <1>3. CodeOpensOne'
    BY <1>1, <1>2 DEF AccountInv, CodeOpensOne
  <1>4. RedeemedKnown'
    <2> SUFFICES ASSUME NEW s \in Session, sessions'[s] # None, sessions'[s].kind = "recovery"
                 PROVE  sessions'[s].proof[1] <= codes'[sessions'[s].user].set
      BY DEF RedeemedKnown
    <2>1. sessions[s] \in SessionRow /\ sessions[s].proof[1] <= codes[sessions[s].user].set
      BY EmptyRows DEF AccountInv, RedeemedKnown, SessionsShrink, SessionsTyped
    <2>2. PICK u \in User, n \in Nat : u = sessions[s].user /\ n = sessions[s].proof[1]
      BY <2>1, AccountsAssumption DEF SessionRow
    <2>3. codes[u].set \in Nat /\ codes'[u].set \in Nat /\ codes[u].set <= codes'[u].set
      BY DEF AccountInv, TablesTyped, CodeRow, CodesOnward
    <2> QED BY <2>1, <2>2, <2>3 DEF SessionsShrink
  <1> QED BY <1>3, <1>4

\* No account loses what a check has seen.
AdminsKept == ActiveAdmins \subseteq ActiveAdmins'
PasskeysKept == \A u \in User : passkeys[u] \subseteq passkeys'[u]

LEMMA RightStays ==
  ASSUME AccountInv, AdminsKept, PasskeysKept, NEW r \in Caller, reqs'[r] = reqs[r], StillRight(r)
  PROVE  StillRight(r)'
  <1>1. CASE At(r, "update")
    <2>1. reqs'[r].op \in {"demote", "disable"} => ActiveAdmins \ {reqs[r].user} # {}
      BY <1>1 DEF StillRight, At
    <2>2. reqs'[r].op \in {"demote", "disable"} => ActiveAdmins' \ {reqs'[r].user} # {}
      BY <2>1 DEF AdminsKept
    <2> QED BY <1>1, <2>2 DEF StillRight, At
  <1>2. CASE At(r, "delete")
    <2>1. PICK u \in User : u = reqs[r].user
      BY <1>2, EmptyRows DEF AccountInv, CallsTyped, CallRow, At
    <2> QED BY <1>2, <2>1 DEF StillRight, PasskeysKept, At
  <1>3. CASE ~At(r, "update") /\ ~At(r, "delete")
    BY <1>3 DEF StillRight, At
  <1> QED BY <1>1, <1>2, <1>3

\* A request that is about to write has checked, and no other one is.
Ready(r, q) ==
  q.at \in {"update", "delete"} =>
    /\ Quiet(r)
    /\ q.at = "update" /\ q.op \in {"demote", "disable"} => ActiveAdmins' \ {q.user} # {}
    /\ q.at = "delete" => passkeys'[q.user] \ q.key # {}

LEMMA ChecksMove ==
  ASSUME AccountInv, AdminsKept, PasskeysKept, NEW r \in Caller, NEW q \in CallRow \cup {NoCall},
         Moves(r, q), Ready(r, q)
  PROVE  ChecksHold'
  <1>1. reqs'[r] = q /\ \A o \in Caller \ {r} : reqs'[o] = reqs[o]
    BY MovesTyped DEF AccountInv
  <1>2. ASSUME ~Overlap, NEW o \in Caller PROVE StillRight(o)'
    <2>1. CASE o = r
      BY <1>1, <2>1 DEF StillRight, Ready, At
    <2>2. CASE o # r
      BY <1>1, <1>2, <2>2, RightStays DEF AccountInv, ChecksHold
    <2> QED BY <2>1, <2>2
  <1>3. ASSUME ~Overlap, NEW o \in Caller, NEW p \in Caller, Checked(o)', Checked(p)' PROVE o = p
    BY <1>1, <1>3 DEF Checked, Ready, Quiet, AccountInv, ChecksHold
  <1> QED BY <1>2, <1>3 DEF ChecksHold

LEMMA ChecksStay ==
  ASSUME AccountInv, AdminsKept, PasskeysKept, reqs' = reqs
  PROVE  ChecksHold'
  BY RightStays DEF AccountInv, ChecksHold, Checked

\* What most steps leave alone.
Lasting ==
  /\ SessionsShrink /\ CodesOnward /\ AdminsKept /\ PasskeysKept /\ cut' = cut
  /\ \A u \in User : users[u] # "absent" => users'[u] # "absent"
  /\ \A u \in User : disables'[u] = disables[u] /\ (users'[u] = "disabled" => users[u] = "disabled")

LEMMA LastingOnward ==
  ASSUME AccountInv, TablesTyped', Lasting PROVE Onward
  <1>1. \A u \in User : /\ disables[u] \in Nat /\ disables'[u] \in Nat
                        /\ codes[u].set \in Nat /\ codes'[u].set \in Nat
    BY DEF AccountInv, TablesTyped, CodeRow
  <1> QED BY <1>1 DEF Lasting, Onward, CodesOnward

\* A step that moves no request, or one that neither has a disable to finish nor redeems
\* a code.
LEMMA Unmoved ==
  ASSUME AccountInv, TablesTyped', SessionsTyped', UsersKnown', Lasting, reqs' = reqs
  PROVE  AccountInv'
  <1>1. CallsTyped' /\ CallsKnown' /\ ChecksHold'
    BY LastingOnward, CallsStay, ChecksStay DEF AccountInv, CallsTyped, Lasting
  <1>2. DisableHolds'
    BY DisableStays DEF Lasting, Spared, At
  <1>3. CodeOpensOne' /\ RedeemedKnown'
    BY CodesStay DEF Lasting
  <1> QED BY <1>1, <1>2, <1>3 DEF AccountInv

LEMMA RoutineCalls ==
  ASSUME AccountInv, TablesTyped', SessionsTyped', UsersKnown', Lasting,
         NEW r \in Caller, NEW q \in CallRow \cup {NoCall}, Moves(r, q), ~At(r, "revoke"),
         q = NoCall \/ CallKnown(q)', Ready(r, q)
  PROVE  /\ CallsTyped' /\ CallsKnown' /\ ChecksHold' /\ DisableHolds'
         /\ reqs'[r] = q /\ \A o \in Caller \ {r} : reqs'[o] = reqs[o]
  <1>1. CallsTyped' /\ reqs'[r] = q /\ \A o \in Caller \ {r} : reqs'[o] = reqs[o]
    BY MovesTyped DEF AccountInv
  <1>2. CallsKnown' /\ ChecksHold'
    BY LastingOnward, CallsMove, ChecksMove DEF Lasting
  <1>3. DisableHolds'
    <2>1. \A u \in User : Spared(u) => Spared(u)'
      BY <1>1 DEF Lasting, Spared, At
    <2> QED BY <2>1, DisableStays DEF Lasting
  <1> QED BY <1>1, <1>2, <1>3

LEMMA Routine ==
  ASSUME AccountInv, TablesTyped', SessionsTyped', UsersKnown', Lasting,
         NEW r \in Caller, NEW q \in CallRow \cup {NoCall}, Moves(r, q), ~At(r, "revoke"),
         q = NoCall \/ CallKnown(q)', ~(q.at = "session" /\ q.kind = "recovery"), Ready(r, q)
  PROVE  AccountInv'
  <1>1. /\ CallsTyped' /\ CallsKnown' /\ ChecksHold' /\ DisableHolds'
        /\ reqs'[r] = q /\ \A o \in Caller \ {r} : reqs'[o] = reqs[o]
    BY RoutineCalls
  <1>2. CodeOpensOne' /\ RedeemedKnown'
    BY <1>1, CodesStay DEF Lasting
  <1> QED BY <1>1, <1>2 DEF AccountInv

\* Nothing but ceremonies, the sets of codes and the app passwords may have changed.
Spares ==
  /\ UNCHANGED <<users, admins, passkeys, linked, disables, cut>>
  /\ SessionsShrink /\ CodesOnward

LEMMA SparesLasts == Spares => Lasting
  BY DEF Spares, Lasting, AdminsKept, PasskeysKept, ActiveAdmins

LEMMA SameSessions == sessions' = sessions => SessionsShrink
  BY DEF SessionsShrink

LEMMA SameCodes == codes' = codes => CodesOnward
  BY DEF CodesOnward

-----------------------------------------------------------------------------
(* Requests that open                                                      *)

OnlyCalls == UNCHANGED <<users, admins, passkeys, codes, appPasswords, linked, sessions, disables, cut>>
CeremoniesTyped == ceremonies \in [Ceremony -> CeremonyRow \cup {None}]

LEMMA CallsOnly ==
  ASSUME AccountInv, OnlyCalls, CeremoniesTyped'
  PROVE  TablesTyped' /\ SessionsTyped' /\ UsersKnown' /\ Lasting
  <1>1. TablesTyped' /\ SessionsTyped' /\ UsersKnown'
    BY DEF AccountInv, OnlyCalls, CeremoniesTyped, TablesTyped, SessionsTyped, UsersKnown
  <1>2. Spares
    BY SameSessions, SameCodes DEF OnlyCalls, Spares
  <1> QED BY <1>1, <1>2, SparesLasts

LEMMA Opening ==
  ASSUME AccountInv, OnlyCalls, CeremoniesTyped', NEW r \in Caller, NEW q \in CallRow, Opens(r, q),
         CallKnown(q), q.at # "session" \/ q.kind # "recovery",
         q.at \in {"update", "delete"} => Quiet(r),
         q.at = "update" /\ q.op \in {"demote", "disable"} => ActiveAdmins \ {q.user} # {},
         q.at = "delete" => passkeys[q.user] \ q.key # {}
  PROVE  AccountInv'
  <1>1. Moves(r, q) /\ ~At(r, "revoke")
    BY EmptyRows DEF Opens, Moves, At
  <1>2. CallKnown(q)' /\ Ready(r, q)
    BY DEF OnlyCalls, CallKnown, Ready, ActiveAdmins
  <1> QED BY <1>1, <1>2, CallsOnly, Routine

LEMMA Ceremonies ==
  ASSUME AccountInv, OnlyCalls, CeremoniesTyped', reqs' = reqs PROVE AccountInv'
  BY CallsOnly, Unmoved

LEMMA CeremonyBegins ==
  ASSUME AccountInv, NEW c \in Ceremony, NEW kind \in {"registration", "bootstrap", "login"},
         NEW u \in User, NEW via \in Kinds \cup {"nobody"}, CreateCeremony(c, kind, u, via)
  PROVE  CeremoniesTyped'
  <1>1. PICK row \in CeremonyRow : row = [state |-> "open", kind |-> kind, user |-> u, via |-> via]
    BY DEF CeremonyRow
  <1> QED BY <1>1 DEF CreateCeremony, CeremoniesTyped, AccountInv, SessionsTyped

LEMMA CeremonyEnds ==
  ASSUME AccountInv, NEW c \in Ceremony, NEW kind, TakeCeremony(c, kind)
  PROVE  CeremoniesTyped' /\ ceremonies[c].user \in User /\ ceremonies[c].kind = kind
  BY DEF TakeCeremony, CeremoniesTyped, AccountInv, SessionsTyped, CeremonyRow

LEMMA SessionsUser ==
  ASSUME AccountInv, NEW s \in Session, SessionUser(s)
  PROVE  /\ sessions[s] \in SessionRow /\ sessions[s].user \in User
         /\ sessions[s].kind \in Kinds /\ users[sessions[s].user] # "absent"
  BY EmptyRows DEF SessionUser, AccountInv, SessionsTyped, SessionRow, UsersKnown

LEMMA Beginnings ==
  ASSUME AccountInv, NEW c \in Ceremony, handleRegisterBegin(c) \/ \E u \in User : handleLoginBegin(c, u)
  PROVE  AccountInv'
  <1>1. CeremoniesTyped'
    <2>1. ASSUME NEW s \in Session, Authenticate(s),
                 CreateCeremony(c, "registration", sessions[s].user, sessions[s].kind)
          PROVE  CeremoniesTyped'
      BY <2>1, SessionsUser, CeremonyBegins DEF Authenticate
    <2>2. ASSUME NEW u \in User, CreateCeremony(c, "bootstrap", u, "nobody") \/ CreateCeremony(c, "login", u, "nobody")
          PROVE  CeremoniesTyped'
      BY <2>2, CeremonyBegins
    <2> QED BY <2>1, <2>2 DEF handleRegisterBegin, BeginRegistration, handleLoginBegin, BeginLogin
  <1>2. OnlyCalls /\ reqs' = reqs
    BY DEF OnlyCalls, handleRegisterBegin, handleLoginBegin
  <1> QED BY <1>1, <1>2, Ceremonies

LEMMA SameCeremonies == AccountInv /\ UNCHANGED tables => CeremoniesTyped' /\ (cut' = cut /\ disables' = disables => OnlyCalls)
  BY DEF AccountInv, SessionsTyped, CeremoniesTyped, tables, OnlyCalls

LEMMA RegisterFinishKeeps ==
  ASSUME AccountInv, NEW r \in Caller, NEW c \in Ceremony, NEW k \in Passkey, handleRegisterFinish(r, c, k)
  PROVE  AccountInv'
  <1>1. PICK kind \in {"registration", "bootstrap"} :
          /\ TakeCeremony(c, kind)
          /\ Opens(r, [CallStep(IF kind = "bootstrap" THEN "user" ELSE "credential",
                       IF kind = "bootstrap" THEN "create" ELSE "enrol", ceremonies[c].user) EXCEPT !.key = {k}])
    BY DEF handleRegisterFinish, FinishRegistration
  <1>2. PICK u \in User, at \in {"user", "credential"}, op \in {"create", "enrol"} :
          /\ Opens(r, [CallStep(at, op, u) EXCEPT !.key = {k}])
          /\ at = "credential" => op = "enrol"
    BY <1>1, CeremonyEnds
  <1>3. PICK b \in CallRow : b = CallStep(at, op, u) /\ b.at = at /\ b.op = op /\ b.kind = "web"
                             /\ b.user = u /\ b.seen <= disables[u]
    BY Started DEF AccountInv, CallPoints, CallOps
  <1>4. PICK q : q = [b EXCEPT !.key = {k}]
    OBVIOUS
  <1>5. q \in CallRow /\ q.at = at /\ q.op = op /\ q.kind = "web" /\ q.user = u /\ q.seen <= disables[u]
    BY <1>3, <1>4 DEF CallRow
  <1>6. CallKnown(q) /\ Opens(r, q)
    BY <1>2, <1>3, <1>4, <1>5 DEF CallKnown, SigningIn
  <1>7. OnlyCalls /\ CeremoniesTyped'
    BY <1>1, CeremonyEnds DEF handleRegisterFinish, OnlyCalls
  <1> QED BY <1>5, <1>6, <1>7, Opening

\* A sign-in that looks at an account finds it active.
LEMMA SignInOpens ==
  ASSUME AccountInv, OnlyCalls, CeremoniesTyped', NEW r \in Caller, NEW op \in CallOps, NEW u \in User,
         users[u] = "active", Opens(r, CallStep("session", op, u))
  PROVE  AccountInv'
  <1>1. PICK q \in CallRow : /\ q = CallStep("session", op, u) /\ q.at = "session" /\ q.user = u
                             /\ q.kind = "web" /\ q.seen = disables[u]
    BY Started DEF AccountInv, CallPoints
  <1>2. disables[u] \in Nat
    BY DEF AccountInv, TablesTyped
  <1>3. CallKnown(q)
    BY <1>1, <1>2 DEF CallKnown
  <1> QED BY <1>1, <1>3, Opening

LEMMA LoginFinishKeeps ==
  ASSUME AccountInv, NEW r \in Caller, NEW c \in Ceremony, handleLoginFinish(r, c)
  PROVE  AccountInv'
  <1>1. OnlyCalls /\ CeremoniesTyped' /\ ceremonies[c].user \in User
    BY CeremonyEnds DEF handleLoginFinish, OnlyCalls
  <1>2. CASE FinishLogin(ceremonies[c].user)
    BY <1>1, <1>2, SignInOpens DEF handleLoginFinish, FinishLogin, CallOps
  <1>3. CASE ~FinishLogin(ceremonies[c].user)
    BY <1>1, <1>3, Ceremonies DEF handleLoginFinish
  <1> QED BY <1>2, <1>3

LEMMA RedeemKeeps ==
  ASSUME AccountInv, NEW r \in Caller, NEW u \in User, NEW k \in Code, handleRecoveryRedeem(r, u, k)
  PROVE  AccountInv'
  <1>1. PICK b \in CallRow : b = CallStep("consume", "redeem", u) /\ b.at = "consume" /\ b.user = u
                             /\ b.op = "redeem" /\ b.seen = disables[u]
    BY Started DEF AccountInv, CallPoints, CallOps
  <1>2. PICK q : q = [b EXCEPT !.kind = "recovery", !.proof = <<codes[u].set, k>>]
    OBVIOUS
  <1>3. /\ users[u] = "active" /\ Opens(r, q)
        /\ disables[u] \in Nat /\ codes[u].set \in 0..MaxSets
    BY <1>1, <1>2 DEF handleRecoveryRedeem, RedeemRecoveryCode, AccountInv, TablesTyped, CodeRow
  <1>4. /\ q \in CallRow /\ q.at = "consume" /\ q.user = u /\ q.op = "redeem" /\ q.kind = "recovery"
        /\ q.seen = disables[u] /\ q.proof[1] = codes[u].set
    <2>1. <<codes[u].set, k>> \in CodeProof /\ "recovery" \in Kinds
      BY <1>3 DEF CodeProof, Kinds
    <2>2. PICK p \in CodeProof : p = <<codes[u].set, k>> /\ p[1] = codes[u].set
      BY <2>1
    <2>3. q = [b EXCEPT !.kind = "recovery", !.proof = p]
      BY <1>2, <2>2
    <2> QED BY <1>1, <2>1, <2>2, <2>3 DEF CallRow
  <1>5. CallKnown(q)
    BY <1>3, <1>4 DEF CallKnown
  <1>6. OnlyCalls /\ CeremoniesTyped'
    BY SameCeremonies DEF handleRecoveryRedeem, tables, OnlyCalls
  <1> QED BY <1>3, <1>4, <1>5, <1>6, Opening

LEMMA DeviceTokenKeeps ==
  ASSUME AccountInv, NEW r \in Caller, NEW u \in User, NEW a, handleCreateDeviceToken(r, u, a)
  PROVE  AccountInv'
  <1>1. PICK b \in CallRow : b = CallStep("session", "token", u) /\ b.at = "session" /\ b.user = u
                             /\ b.op = "token" /\ b.seen = disables[u]
    BY Started DEF AccountInv, CallPoints, CallOps
  <1>2. PICK q : q = [b EXCEPT !.kind = "device"]
    OBVIOUS
  <1>3. q \in CallRow /\ q.at = "session" /\ q.user = u /\ q.kind = "device" /\ q.seen = disables[u]
    BY <1>1, <1>2 DEF CallRow, Kinds
  <1>4. users[u] # "absent" /\ users[u] # "disabled" /\ Opens(r, q) /\ disables[u] \in Nat
    BY <1>1, <1>2 DEF handleCreateDeviceToken, VerifyAppPassword, Disabled, AccountInv, UsersKnown, TablesTyped
  <1>5. CallKnown(q)
    BY <1>3, <1>4 DEF CallKnown
  <1>6. OnlyCalls /\ CeremoniesTyped'
    BY SameCeremonies DEF handleCreateDeviceToken, tables, OnlyCalls
  <1> QED BY <1>3, <1>4, <1>5, <1>6, Opening

LEMMA OIDCKeeps ==
  ASSUME AccountInv, NEW r \in Caller, handleOIDCCallback(r)
  PROVE  AccountInv'
  <1>1. OnlyCalls /\ CeremoniesTyped'
    BY SameCeremonies DEF handleOIDCCallback, tables, OnlyCalls
  <1>2. ASSUME NEW u \in linked, ~Disabled(u), Opens(r, CallStep("session", "oidc", u)) PROVE AccountInv'
    <2>1. u \in User /\ users[u] = "active"
      BY <1>2 DEF Disabled, AccountInv, TablesTyped, UsersKnown
    <2> QED BY <1>1, <1>2, <2>1, SignInOpens DEF CallOps
  <1>3. ASSUME NEW u \in User, users[u] = "absent", Opens(r, CallStep("provision", "oidc", u)) PROVE AccountInv'
    <2>1. PICK q \in CallRow : q = CallStep("provision", "oidc", u) /\ q.at = "provision" /\ q.user = u
                               /\ q.kind = "web" /\ q.op = "oidc" /\ q.seen = disables[u]
      BY Started DEF AccountInv, CallPoints, CallOps
    <2>2. CallKnown(q)
      BY <1>3, <2>1 DEF CallKnown, SigningIn, AccountInv, UsersKnown
    <2> QED BY <1>1, <1>3, <2>1, <2>2, Opening
  <1> QED BY <1>2, <1>3 DEF handleOIDCCallback, LoginOIDC, FindUserByOIDC

\* A passkey can be taken away from those that have more than one.
LEMMA MoreThanOne ==
  ASSUME NEW S, NEW k, Cardinality(S) > 1 PROVE S \ {k} # {}
  <1> SUFFICES ASSUME S \ {k} = {} PROVE FALSE
    OBVIOUS
  <1>1. S = {} \/ S = {k}
    OBVIOUS
  <1>2. Cardinality({}) = 0 /\ Cardinality({k}) = 1
    BY FS_EmptySet, FS_Singleton
  <1> QED BY <1>1, <1>2

LEMMA CredentialDeletionKeeps ==
  ASSUME AccountInv, NEW r \in Caller, NEW s \in Session, NEW k \in Passkey, handleDeleteCredential(r, s, k)
  PROVE  AccountInv'
  <1>1. PICK u \in User : u = sessions[s].user /\ Cardinality(passkeys[u]) > 1
    BY SessionsUser DEF handleDeleteCredential, requireAuth, Authenticate
  <1>2. PICK b \in CallRow : b = CallStep("delete", "forget", u) /\ b.at = "delete" /\ b.user = u
                             /\ b.kind = "web" /\ b.op = "forget"
    BY Started DEF AccountInv, CallPoints, CallOps
  <1>3. PICK q : q = [b EXCEPT !.key = {k}]
    OBVIOUS
  <1>4. q \in CallRow /\ q.at = "delete" /\ q.user = u /\ q.kind = "web" /\ q.op = "forget" /\ q.key = {k}
    BY <1>2, <1>3 DEF CallRow
  <1>5. Opens(r, q) /\ Quiet(r)
    BY <1>1, <1>2, <1>3 DEF handleDeleteCredential
  <1>6. CallKnown(q) /\ passkeys[u] \ {k} # {}
    BY <1>1, <1>4, MoreThanOne DEF CallKnown, SigningIn
  <1>7. OnlyCalls /\ CeremoniesTyped'
    BY SameCeremonies DEF handleDeleteCredential, tables, OnlyCalls
  <1> QED BY <1>4, <1>5, <1>6, <1>7, Opening

\* An account is created by the next step, which looks whether the name is taken.
LEMMA CreatingKeeps ==
  ASSUME AccountInv, NEW r \in Caller, NEW u \in User,
         userCreate(r, u) \/ \E s \in Session : handleAdminCreateUser(r, s, u)
  PROVE  AccountInv'
  <1>1. PICK op \in {"add", "addAdmin"} : Opens(r, CallStep("user", op, u))
    BY DEF userCreate, handleAdminCreateUser
  <1>2. PICK q \in CallRow : /\ q = CallStep("user", op, u) /\ q.at = "user" /\ q.kind = "web" /\ q.op = op
                             /\ q.user = u /\ q.seen <= disables[u]
    BY Started DEF AccountInv, CallPoints, CallOps
  <1>3. CallKnown(q)
    BY <1>2 DEF CallKnown, SigningIn
  <1>4. OnlyCalls /\ CeremoniesTyped'
    BY SameCeremonies DEF userCreate, handleAdminCreateUser, tables, OnlyCalls
  <1> QED BY <1>1, <1>2, <1>3, <1>4, Opening

\* The console checks before it takes an administrator away.
LEMMA PatchingKeeps ==
  ASSUME AccountInv, NEW r \in Caller, NEW u \in User, NEW s \in Session,
         handleAdminPatchUser(r, s, u) \/ handleAdminDeleteUser(r, s, u)
  PROVE  AccountInv'
  <1>0. sessions[s].user \in ActiveAdmins
    <2>1. Authenticate(s) /\ sessions[s].user \in admins
      BY DEF handleAdminPatchUser, handleAdminDeleteUser, requireAdmin, requireAuth
    <2>2. PICK v \in User : v = sessions[s].user /\ users[v] # "absent" /\ users[v] # "disabled"
      BY <2>1, SessionsUser DEF Authenticate, Disabled
    <2> QED BY <2>1, <2>2 DEF ActiveAdmins, AccountInv, TablesTyped
  <1>1. PICK op \in {"demote", "disable", "promote", "enable"} :
          /\ op \in {"demote", "disable"} => ActiveAdmins \ {u} # {}
          /\ Opens(r, CallStep("update", op, u))
    BY <1>0 DEF handleAdminPatchUser, handleAdminDeleteUser, DisableUser, isLastActiveAdmin
  <1>2. PICK q \in CallRow : /\ q = CallStep("update", op, u) /\ q.at = "update" /\ q.kind = "web"
                             /\ q.op = op /\ q.user = u
    BY Started DEF AccountInv, CallPoints, CallOps
  <1>3. users[u] # "absent" /\ Quiet(r)
    BY DEF handleAdminPatchUser, handleAdminDeleteUser, DisableUser
  <1>4. CallKnown(q)
    BY <1>2, <1>3 DEF CallKnown, SigningIn
  <1>5. OnlyCalls /\ CeremoniesTyped'
    BY SameCeremonies DEF handleAdminPatchUser, handleAdminDeleteUser, tables, OnlyCalls
  <1> QED BY <1>1, <1>2, <1>3, <1>4, <1>5, Opening

-----------------------------------------------------------------------------
(* Sessions, codes and app passwords                                       *)

LEMMA Revoked ==
  ASSUME AccountInv, NEW named, RevokeWhere(named)
  PROVE  /\ SessionsShrink /\ sessions' \in [Session -> SessionRow \cup {None}]
         /\ \A s \in Session \cap named : sessions'[s].state # "live"
         /\ \A s \in Session : sessions'[s] # None => users[sessions'[s].user] # "absent"
  <1>1. ASSUME NEW s \in Session
        PROVE  /\ sessions'[s] \in SessionRow \cup {None}
               /\ s \in named => sessions'[s].state # "live"
               /\ sessions'[s] # None =>
                    /\ sessions[s] # None
                    /\ sessions'[s].user = sessions[s].user /\ sessions'[s].kind = sessions[s].kind
                    /\ sessions'[s].proof = sessions[s].proof
                    /\ sessions'[s].seen = sessions[s].seen /\ sessions'[s].made = sessions[s].made
                    /\ sessions'[s].state = "live" => sessions[s].state = "live"
    <2>1. CASE sessions[s].state = "live" /\ s \in named
      <3>1. sessions[s] \in SessionRow
        BY <2>1, EmptyRows DEF AccountInv, SessionsTyped
      <3>2. PICK q : q = [sessions[s] EXCEPT !.state = "dead"] /\ sessions'[s] = q
        BY <2>1 DEF RevokeWhere
      <3>3. /\ q \in SessionRow /\ q.state = "dead" /\ q.user = sessions[s].user
            /\ q.kind = sessions[s].kind /\ q.proof = sessions[s].proof
            /\ q.seen = sessions[s].seen /\ q.made = sessions[s].made
        BY <3>1, <3>2 DEF SessionRow
      <3> QED BY <2>1, <3>1, <3>2, <3>3, EmptyRows
    <2>2. CASE ~(sessions[s].state = "live" /\ s \in named)
      <3>1. sessions'[s] = sessions[s]
        BY <2>2 DEF RevokeWhere
      <3> QED BY <2>2, <3>1, EmptyRows DEF AccountInv, SessionsTyped
    <2> QED BY <2>1, <2>2
  <1>2. SessionsShrink /\ sessions' \in [Session -> SessionRow \cup {None}]
    BY <1>1 DEF RevokeWhere, SessionsShrink
  <1> QED BY <1>1, <1>2 DEF AccountInv, UsersKnown

LEMMA SessionsEnd ==
  ASSUME AccountInv, SessionsShrink, sessions' \in [Session -> SessionRow \cup {None}], CeremoniesTyped',
         UNCHANGED <<users, admins, passkeys, codes, appPasswords, linked, disables, cut>>
  PROVE  TablesTyped' /\ SessionsTyped' /\ UsersKnown' /\ Lasting
  <1>1. TablesTyped' /\ SessionsTyped'
    BY DEF AccountInv, TablesTyped, SessionsTyped, CeremoniesTyped
  <1>2. UsersKnown'
    BY DEF AccountInv, UsersKnown, SessionsShrink
  <1>3. Spares
    BY SameCodes DEF Spares
  <1> QED BY <1>1, <1>2, <1>3, SparesLasts

LEMMA SessionStepsKeep ==
  ASSUME AccountInv,
         \/ \E s \in Session : handleLogout(s)
         \/ \E s, t \in Session : handleRevokeSession(s, t) \/ handleAdminRevokeUserSession(s, t)
  PROVE  AccountInv'
  <1>1. PICK named : RevokeWhere(named)
    BY DEF handleLogout, handleRevokeSession, handleAdminRevokeUserSession, RevokeSession
  <1>2. UNCHANGED <<users, admins, passkeys, codes, appPasswords, linked, ceremonies, reqs, disables, cut>>
    BY DEF handleLogout, handleRevokeSession, handleAdminRevokeUserSession
  <1>3. CeremoniesTyped'
    BY <1>2 DEF CeremoniesTyped, AccountInv, SessionsTyped
  <1>4. SessionsShrink /\ sessions' \in [Session -> SessionRow \cup {None}]
    BY <1>1, Revoked
  <1> QED BY <1>2, <1>3, <1>4, SessionsEnd, Unmoved

LEMMA CleanupKeeps == ASSUME AccountInv, Cleanup PROVE AccountInv'
  <1>1. UNCHANGED <<users, admins, passkeys, codes, appPasswords, linked, reqs, disables, cut>>
    BY DEF Cleanup
  <1>2. ASSUME NEW s \in Session, sessions' = [sessions EXCEPT ![s] = None], UNCHANGED ceremonies
        PROVE  AccountInv'
    <2>1. SessionsShrink /\ sessions' \in [Session -> SessionRow \cup {None}]
      BY <1>2 DEF SessionsShrink, AccountInv, SessionsTyped
    <2>2. CeremoniesTyped'
      BY <1>2 DEF CeremoniesTyped, AccountInv, SessionsTyped
    <2> QED BY <1>1, <2>1, <2>2, SessionsEnd, Unmoved
  <1>3. ASSUME NEW c \in Ceremony, ceremonies' = [ceremonies EXCEPT ![c] = None], UNCHANGED sessions
        PROVE  AccountInv'
    <2>1. CeremoniesTyped'
      BY <1>3 DEF CeremoniesTyped, AccountInv, SessionsTyped
    <2> QED BY <1>1, <1>3, <2>1, Ceremonies DEF OnlyCalls
  <1> QED BY <1>2, <1>3 DEF Cleanup

\* A new set has a number of its own.
LEMMA NewSet ==
  ASSUME AccountInv, NEW u \in User, ReplaceRecoveryCodes(u),
         UNCHANGED <<users, admins, passkeys, appPasswords, linked, sessions, ceremonies, disables, cut>>
  PROVE  TablesTyped' /\ SessionsTyped' /\ UsersKnown' /\ Lasting
  <1>1. PICK n \in Nat : n = codes[u].set /\ n < MaxSets
    BY DEF ReplaceRecoveryCodes, AccountInv, TablesTyped, CodeRow
  <1>2. PICK row : row = [set |-> n + 1, unused |-> Code] /\ codes' = [codes EXCEPT ![u] = row]
    BY <1>1 DEF ReplaceRecoveryCodes
  <1>3. row \in CodeRow /\ row.set = n + 1
    BY <1>1, <1>2, AccountsAssumption DEF CodeRow
  <1>4. codes' \in [User -> CodeRow] /\ CodesOnward
    BY <1>1, <1>2, <1>3 DEF AccountInv, TablesTyped, CodesOnward
  <1>5. TablesTyped' /\ SessionsTyped' /\ UsersKnown'
    BY <1>4 DEF AccountInv, TablesTyped, SessionsTyped, UsersKnown
  <1>6. Spares
    BY <1>4, SameSessions DEF Spares
  <1> QED BY <1>5, <1>6, SparesLasts

LEMMA RegenerateKeeps ==
  ASSUME AccountInv, NEW s \in Session, handleRegenerateRecoveryCodes(s) PROVE AccountInv'
  <1>1. sessions[s].user \in User
    BY SessionsUser DEF handleRegenerateRecoveryCodes, requireAuth, Authenticate
  <1> QED BY <1>1, NewSet, Unmoved DEF handleRegenerateRecoveryCodes

LEMMA AppPasswordsChange ==
  ASSUME AccountInv, NEW u \in User, NEW S \in SUBSET AppPassword,
         appPasswords' = [appPasswords EXCEPT ![u] = S], users[u] # "absent" \/ S \subseteq appPasswords[u],
         UNCHANGED <<users, admins, passkeys, codes, linked, sessions, ceremonies, disables, cut>>
  PROVE  TablesTyped' /\ SessionsTyped' /\ UsersKnown' /\ Lasting
  <1>1. TablesTyped' /\ SessionsTyped'
    BY DEF AccountInv, TablesTyped, SessionsTyped
  <1>2. UsersKnown'
    BY DEF AccountInv, TablesTyped, UsersKnown
  <1>3. Spares
    BY SameSessions, SameCodes DEF Spares
  <1> QED BY <1>1, <1>2, <1>3, SparesLasts

LEMMA AppPasswordsKeep ==
  ASSUME AccountInv, NEW a \in AppPassword,
         \/ \E s \in Session : handleCreateAppPassword(s, a) \/ handleRevokeAppPassword(s, a)
         \/ \E u \in User : userAppPassword(u, a)
  PROVE  AccountInv'
  <1>1. UNCHANGED <<users, admins, passkeys, codes, linked, sessions, ceremonies, reqs, disables, cut>>
    BY DEF handleCreateAppPassword, handleRevokeAppPassword, userAppPassword
  <1>2. PICK u \in User, S \in SUBSET AppPassword :
          /\ appPasswords' = [appPasswords EXCEPT ![u] = S] /\ users[u] # "absent"
    <2>1. ASSUME NEW s \in Session, handleCreateAppPassword(s, a) \/ handleRevokeAppPassword(s, a)
          PROVE  \E u \in User, S \in SUBSET AppPassword :
                   appPasswords' = [appPasswords EXCEPT ![u] = S] /\ users[u] # "absent"
      <3>1. PICK u \in User : u = sessions[s].user /\ users[u] # "absent"
        BY <2>1, SessionsUser DEF handleCreateAppPassword, handleRevokeAppPassword, requireAuth, Authenticate
      <3>2. appPasswords[u] \in SUBSET AppPassword
        BY DEF AccountInv, TablesTyped
      <3>3. appPasswords' = [appPasswords EXCEPT ![u] = appPasswords[u] \cup {a}]
            \/ appPasswords' = [appPasswords EXCEPT ![u] = appPasswords[u] \ {a}]
        BY <2>1, <3>1 DEF handleCreateAppPassword, handleRevokeAppPassword, CreateAppPassword, RevokeAppPassword
      <3>4. appPasswords[u] \cup {a} \in SUBSET AppPassword /\ appPasswords[u] \ {a} \in SUBSET AppPassword
        BY <3>2
      <3> QED BY <3>1, <3>3, <3>4
    <2>2. ASSUME NEW u \in User, userAppPassword(u, a)
          PROVE  \E S \in SUBSET AppPassword :
                   appPasswords' = [appPasswords EXCEPT ![u] = S] /\ users[u] # "absent"
      <3>1. appPasswords[u] \cup {a} \in SUBSET AppPassword
        BY DEF AccountInv, TablesTyped
      <3> QED BY <2>2, <3>1 DEF userAppPassword, CreateAppPassword
    <2> QED BY <2>1, <2>2
  <1> QED BY <1>1, <1>2, AppPasswordsChange, Unmoved

-----------------------------------------------------------------------------
(* The statements of a request                                             *)

\* What is known of the request that takes its next statement.
LEMMA Continued ==
  ASSUME AccountInv, NEW r \in Caller, reqs[r].at \in CallPoints
  PROVE  /\ reqs[r] # NoCall /\ reqs[r] \in CallRow /\ CallKnown(reqs[r])
         /\ reqs[r].user \in User /\ reqs[r].proof \in CodeProof
  <1>1. reqs[r] # NoCall
    BY EmptyRows DEF CallPoints
  <1> QED BY <1>1 DEF AccountInv, CallsTyped, CallsKnown, CallRow

LEMMA EndMoves ==
  ASSUME NEW r \in Caller, End(r) PROVE Moves(r, NoCall) /\ Ready(r, NoCall)
  BY EmptyRows DEF End, Moves, Ready

LEMMA RegeneratingKeeps == ASSUME AccountInv, NEW r \in Caller, RegenerateRecoveryCodes(r) PROVE AccountInv'
  <1>1. At(r, "codes") /\ reqs[r].at \in CallPoints
    BY DEF RegenerateRecoveryCodes, At, CallPoints
  <1>2. /\ reqs[r] # NoCall /\ reqs[r] \in CallRow /\ CallKnown(reqs[r]) /\ reqs[r].user \in User
        /\ ~At(r, "revoke")
    BY <1>1, Continued DEF At
  <1>3. TablesTyped' /\ SessionsTyped' /\ UsersKnown' /\ Lasting
    BY <1>2, NewSet DEF RegenerateRecoveryCodes
  <1>4. CASE reqs[r].op = "create"
    <2>1. PICK q \in CallRow : /\ Moves(r, q) /\ q.at = "credential" /\ q.op = reqs[r].op
                               /\ q.user = reqs[r].user /\ q.kind = reqs[r].kind /\ q.seen = reqs[r].seen
      BY <1>2, <1>4, GotoMoves DEF RegenerateRecoveryCodes, CallPoints, AccountInv
    <2>2. CallKnown(q)
      BY <1>1, <1>2, <1>4, <2>1 DEF CallKnown, SigningIn, At
    <2>3. CallKnown(q)'
      BY <1>3, <2>2, LastingOnward, CallStays DEF AccountInv
    <2> QED BY <1>2, <1>3, <2>1, <2>3, Routine DEF Ready
  <1>5. CASE reqs[r].op # "create"
    BY <1>2, <1>3, <1>5, EndMoves, Routine, EmptyRows DEF RegenerateRecoveryCodes
  <1> QED BY <1>4, <1>5

LEMMA AddCredentialKeeps == ASSUME AccountInv, NEW r \in Caller, AddCredential(r) PROVE AccountInv'
  <1>1. At(r, "credential") /\ reqs[r].at \in CallPoints
    BY DEF AddCredential, At, CallPoints
  <1>2. /\ reqs[r] # NoCall /\ reqs[r] \in CallRow /\ CallKnown(reqs[r]) /\ ~At(r, "revoke")
    BY <1>1, Continued DEF At
  <1>3. PICK u \in User, key \in SUBSET Passkey : u = reqs[r].user /\ key = reqs[r].key
    BY <1>2 DEF CallRow
  <1>4. UNCHANGED <<users, admins, codes, appPasswords, linked, sessions, ceremonies, disables, cut>>
    BY DEF AddCredential
  <1>5. \/ passkeys' = passkeys
        \/ /\ key \cap UNION {passkeys[v] : v \in User} = {}
           /\ passkeys' = [passkeys EXCEPT ![u] = @ \cup key]
    BY <1>3 DEF AddCredential
  <1>6. TablesTyped' /\ SessionsTyped' /\ PasskeysKept
    BY <1>4, <1>5 DEF AccountInv, TablesTyped, SessionsTyped, PasskeysKept
  <1>7. UsersKnown'
    <2>1. ASSUME NEW v \in User, NEW w \in User, v # w PROVE passkeys'[v] \cap passkeys'[w] = {}
      <3>1. passkeys[v] \cap passkeys[w] = {}
        BY <2>1 DEF AccountInv, UsersKnown
      <3> QED BY <1>5, <2>1, <3>1 DEF AccountInv, TablesTyped
    <2> QED BY <1>4, <2>1 DEF AccountInv, UsersKnown
  <1>8. Lasting
    BY <1>4, <1>6, SameSessions, SameCodes DEF Lasting, AdminsKept, ActiveAdmins
  <1>9. CASE End(r)
    BY <1>2, <1>6, <1>7, <1>8, <1>9, EndMoves, Routine, EmptyRows
  <1>10. CASE reqs[r].op = "create" /\ Goto(r, "session")
    <2>1. PICK q \in CallRow : /\ Moves(r, q) /\ q.at = "session" /\ q.op = reqs[r].op
                               /\ q.user = reqs[r].user /\ q.kind = reqs[r].kind /\ q.seen = reqs[r].seen
      BY <1>2, <1>10, GotoMoves DEF CallPoints, AccountInv
    <2>2. CallKnown(q) /\ q.kind # "recovery"
      BY <1>1, <1>2, <1>10, <2>1 DEF CallKnown, SigningIn, At
    <2>3. CallKnown(q)'
      BY <1>6, <1>8, <2>2, LastingOnward, CallStays DEF AccountInv
    <2> QED BY <1>2, <1>6, <1>7, <1>8, <2>1, <2>2, <2>3, Routine DEF Ready
  <1> QED BY <1>9, <1>10 DEF AddCredential

\* An account that was not there becomes active.
LEMMA Created ==
  ASSUME AccountInv, NEW u \in User, users[u] = "absent", users' = [users EXCEPT ![u] = "active"],
         admins' = admins \/ admins' = admins \cup {u}, linked' = linked \/ linked' = {u},
         UNCHANGED <<passkeys, codes, appPasswords, sessions, ceremonies, disables, cut>>
  PROVE  TablesTyped' /\ SessionsTyped' /\ UsersKnown' /\ Lasting /\ users'[u] = "active"
  <1>1. TablesTyped' /\ SessionsTyped' /\ users'[u] = "active"
    BY DEF AccountInv, TablesTyped, SessionsTyped
  <1>2. \A v \in User : v # u => users'[v] = users[v]
    BY DEF AccountInv, TablesTyped
  <1>3. UsersKnown'
    BY <1>1, <1>2 DEF AccountInv, UsersKnown, SessionsTyped
  <1>4. AdminsKept
    BY <1>1, <1>2 DEF AdminsKept, ActiveAdmins, AccountInv, TablesTyped
  <1>5. Lasting
    BY <1>1, <1>2, <1>4, SameSessions, SameCodes DEF Lasting, PasskeysKept
  <1> QED BY <1>1, <1>3, <1>5

LEMMA Unchanged ==
  ASSUME AccountInv,
         UNCHANGED <<users, admins, passkeys, codes, appPasswords, linked, sessions, ceremonies, disables>>
  PROVE  /\ TablesTyped' \/ cut' # cut
         /\ cut' \subseteq User => TablesTyped'
         /\ SessionsTyped' /\ UsersKnown' /\ (cut' = cut => Lasting)
  <1>1. SessionsTyped' /\ UsersKnown'
    BY DEF AccountInv, SessionsTyped, UsersKnown
  <1>2. cut' \subseteq User => TablesTyped'
    BY DEF AccountInv, TablesTyped
  <1>3. cut' = cut => Lasting
    BY SameSessions, SameCodes, SparesLasts DEF Spares
  <1> QED BY <1>1, <1>2, <1>3 DEF AccountInv, TablesTyped

LEMMA InsertUserKeeps == ASSUME AccountInv, NEW r \in Caller, InsertUser(r) PROVE AccountInv'
  <1>1. At(r, "user") /\ reqs[r].at \in CallPoints
    BY DEF InsertUser, At, CallPoints
  <1>2. /\ reqs[r] # NoCall /\ reqs[r] \in CallRow /\ CallKnown(reqs[r]) /\ ~At(r, "revoke")
    BY <1>1, Continued DEF At
  <1>3. PICK u \in User : u = reqs[r].user
    BY <1>2 DEF CallRow
  <1>4. UNCHANGED <<passkeys, codes, appPasswords, linked, sessions, ceremonies, disables, cut>>
    BY DEF InsertUser
  <1>5. CASE users[u] # "absent"
    <2>1. End(r) /\ UNCHANGED <<users, admins>>
      BY <1>3, <1>5 DEF InsertUser
    <2> QED BY <1>2, <1>4, <2>1, Unchanged, EndMoves, Routine, EmptyRows DEF AccountInv, TablesTyped
  <1>6. CASE users[u] = "absent"
    <2>1. /\ users' = [users EXCEPT ![u] = "active"] /\ (admins' = admins \/ admins' = admins \cup {u})
          /\ Goto(r, "codes")
      BY <1>3, <1>6 DEF InsertUser, CreateUser
    <2>2. TablesTyped' /\ SessionsTyped' /\ UsersKnown' /\ Lasting /\ users'[u] = "active"
      BY <1>4, <1>6, <2>1, Created
    <2>3. PICK q \in CallRow : /\ Moves(r, q) /\ q.at = "codes" /\ q.op = reqs[r].op
                               /\ q.user = u /\ q.kind = reqs[r].kind /\ q.seen = reqs[r].seen
      BY <1>2, <1>3, <2>1, GotoMoves DEF CallPoints, AccountInv
    <2>4. CallKnown(q)'
      BY <1>1, <1>2, <1>3, <1>4, <2>2, <2>3 DEF CallKnown, SigningIn, At
    <2> QED BY <1>2, <2>2, <2>3, <2>4, Routine DEF Ready
  <1> QED BY <1>5, <1>6

LEMMA ProvisionKeeps == ASSUME AccountInv, NEW r \in Caller, ProvisionOIDCUser(r) PROVE AccountInv'
  <1>1. At(r, "provision") /\ reqs[r].at \in CallPoints
    BY DEF ProvisionOIDCUser, At, CallPoints
  <1>2. /\ reqs[r] # NoCall /\ reqs[r] \in CallRow /\ reqs[r].seen = 0 /\ ~At(r, "revoke")
    BY <1>1, Continued DEF At, CallKnown
  <1>3. UNCHANGED <<admins, passkeys, codes, appPasswords, sessions, ceremonies, disables, cut>>
    BY DEF ProvisionOIDCUser
  <1>4. ASSUME NEW u \in User, users[u] = "absent", users' = [users EXCEPT ![u] = "active"],
               linked' = {u}, reqs' = [reqs EXCEPT ![r] = CallStep("session", "oidc", u)]
        PROVE  AccountInv'
    <2>1. TablesTyped' /\ SessionsTyped' /\ UsersKnown' /\ Lasting /\ users'[u] = "active"
      BY <1>3, <1>4, Created
    <2>2. PICK q \in CallRow : /\ q = CallStep("session", "oidc", u) /\ q.at = "session" /\ q.user = u
                               /\ q.kind = "web" /\ q.seen = disables[u] /\ q.seen <= disables[u]
      BY Started DEF AccountInv, CallPoints, CallOps
    <2>3. CallKnown(q)'
      BY <1>3, <2>1, <2>2 DEF CallKnown, SigningIn
    <2> QED BY <1>2, <1>4, <2>1, <2>2, <2>3, Routine DEF Ready, Moves
  <1>5. ASSUME NEW u \in linked, UNCHANGED <<users, linked>>,
               reqs' = [reqs EXCEPT ![r] = [CallStep("session", "oidc", u) EXCEPT !.seen = reqs[r].seen]]
        PROVE  AccountInv'
    <2>1. TablesTyped' /\ SessionsTyped' /\ UsersKnown' /\ Lasting
      BY <1>3, <1>5, Unchanged DEF AccountInv, TablesTyped
    <2>2. u \in User
      BY DEF AccountInv, TablesTyped
    <2>3. PICK b \in CallRow : /\ b = CallStep("session", "oidc", u) /\ b.at = "session" /\ b.user = u
                               /\ b.kind = "web"
      BY <2>2, Started DEF AccountInv, CallPoints, CallOps
    <2>4. PICK q : q = [b EXCEPT !.seen = 0]
      OBVIOUS
    <2>5. q \in CallRow /\ q.at = "session" /\ q.user = u /\ q.kind = "web" /\ q.seen = 0
      BY <2>3, <2>4, AccountsAssumption DEF CallRow
    <2>6. /\ users[u] # "absent" /\ (users[u] = "disabled" => 0 < disables[u])
          /\ disables[u] \in Nat
      BY <2>2 DEF AccountInv, UsersKnown, TablesTyped
    <2>7. CallKnown(q)
      BY <2>5, <2>6 DEF CallKnown, SigningIn
    <2>8. CallKnown(q)'
      BY <2>1, <2>5, <2>7, LastingOnward, CallStays DEF AccountInv
    <2> QED BY <1>2, <1>5, <2>1, <2>3, <2>4, <2>5, <2>8, Routine DEF Ready, Moves
  <1> QED BY <1>4, <1>5 DEF ProvisionOIDCUser, FindUserByOIDC

\* The code is used up as it is redeemed.
LEMMA ConsumeKeeps == ASSUME AccountInv, NEW r \in Caller, ConsumeRecoveryCode(r) PROVE AccountInv'
  <1>1. At(r, "consume") /\ reqs[r].at \in CallPoints
    BY DEF ConsumeRecoveryCode, At, CallPoints
  <1>2. /\ reqs[r] # NoCall /\ reqs[r] \in CallRow /\ CallKnown(reqs[r]) /\ ~At(r, "revoke")
    BY <1>1, Continued DEF At
  <1>3. PICK u \in User, p \in CodeProof : u = reqs[r].user /\ p = reqs[r].proof
    BY <1>2 DEF CallRow
  <1>4. UNCHANGED <<users, admins, passkeys, appPasswords, linked, sessions, ceremonies, disables, cut>>
    BY DEF ConsumeRecoveryCode
  <1>5. CASE codes[u].set = p[1] /\ p[2] \in codes[u].unused
    <2>1. PICK row : row = [codes[u] EXCEPT !.unused = @ \ {p[2]}]
      OBVIOUS
    <2>2. codes' = [codes EXCEPT ![u] = row] /\ Goto(r, "session")
      BY <1>3, <1>5, <2>1 DEF ConsumeRecoveryCode
    <2>3. codes[u] \in CodeRow
      BY DEF AccountInv, TablesTyped
    <2>4. row \in CodeRow /\ row.set = codes[u].set /\ row.unused = codes[u].unused \ {p[2]}
      BY <2>1, <2>3 DEF CodeRow
    <2>5. /\ codes' \in [User -> CodeRow] /\ codes'[u] = row
          /\ \A v \in User : v # u => codes'[v] = codes[v]
      BY <2>2, <2>4 DEF AccountInv, TablesTyped
    <2>6. CodesOnward
      BY <2>4, <2>5 DEF CodesOnward
    <2>7. TablesTyped' /\ SessionsTyped' /\ UsersKnown'
      BY <1>4, <2>5 DEF AccountInv, TablesTyped, SessionsTyped, UsersKnown
    <2>8. Lasting
      BY <1>4, <2>6, SameSessions, SparesLasts DEF Spares
    <2>9. PICK q \in CallRow : /\ Moves(r, q) /\ q.at = "session" /\ q.op = reqs[r].op /\ q.user = u
                               /\ q.kind = reqs[r].kind /\ q.seen = reqs[r].seen /\ q.proof = p
      BY <1>2, <1>3, <2>2, GotoMoves DEF CallPoints, AccountInv
    <2>10. CallKnown(q)
      BY <1>1, <1>2, <1>3, <2>9 DEF CallKnown, SigningIn, At
    <2>11. CallKnown(q)'
      BY <2>7, <2>8, <2>10, LastingOnward, CallStays DEF AccountInv
    <2>12. /\ CallsTyped' /\ CallsKnown' /\ ChecksHold' /\ DisableHolds'
           /\ reqs'[r] = q /\ \A o \in Caller \ {r} : reqs'[o] = reqs[o]
      BY <1>2, <2>7, <2>8, <2>9, <2>11, RoutineCalls DEF Ready
    <2>13. r \notin Session
      BY AccountsAssumption
    <2>14. ASSUME NEW x \in Redeemers', x # r PROVE x \in Redeemers /\ ProofOf(x)' = ProofOf(x)
      BY <1>4, <2>12, <2>14 DEF Redeemers, ProofOf, At
    <2>15. ProofOf(r)' = <<u, p>>
      BY <2>9, <2>12, <2>13 DEF ProofOf
    <2>16. ASSUME NEW x \in Redeemers', x # r PROVE ProofOf(x)' # <<u, p>>
      BY <1>5, <2>14, <2>16 DEF AccountInv, CodeOpensOne
    <2>17. ASSUME NEW x \in Redeemers', NEW y \in Redeemers', x # y PROVE ProofOf(x)' # ProofOf(y)'
      BY <2>14, <2>15, <2>16, <2>17 DEF AccountInv, CodeOpensOne
    <2>18. ASSUME NEW x \in Redeemers'
          PROVE  LET v == ProofOf(x)'[1]  t == ProofOf(x)'[2] IN
                   codes'[v].set = t[1] => t[2] \notin codes'[v].unused
      <3>1. CASE x = r
        BY <2>4, <2>5, <2>15, <3>1
      <3>2. CASE x # r
        <4>1. PICK v \in User, t \in CodeProof : ProofOf(x) = <<v, t>> /\ ProofOf(x)' = <<v, t>>
          BY <2>14, <3>2, RedeemerKnown
        <4>2. codes[v].set = t[1] => t[2] \notin codes[v].unused
          BY <2>14, <3>2, <4>1 DEF AccountInv, CodeOpensOne
        <4>3. codes'[v].set = t[1] => t[2] \notin codes'[v].unused
          BY <2>4, <2>5, <4>2
        <4> QED BY <4>1, <4>3
      <3> QED BY <3>1, <3>2
    <2>19. CodeOpensOne'
      BY <2>17, <2>18 DEF CodeOpensOne
    <2>20. RedeemedKnown'
      <3> SUFFICES ASSUME NEW s \in Session, sessions[s] # None, sessions[s].kind = "recovery"
                   PROVE  sessions[s].proof[1] <= codes'[sessions[s].user].set
        BY <1>4 DEF RedeemedKnown
      <3>1. PICK v \in User : v = sessions[s].user
        BY DEF AccountInv, SessionsTyped, SessionRow
      <3> QED BY <2>4, <2>5, <3>1 DEF AccountInv, RedeemedKnown
    <2> QED BY <2>7, <2>12, <2>19, <2>20 DEF AccountInv
  <1>6. CASE ~(codes[u].set = p[1] /\ p[2] \in codes[u].unused)
    <2>1. End(r) /\ UNCHANGED codes
      BY <1>3, <1>6 DEF ConsumeRecoveryCode
    <2> QED BY <1>2, <1>4, <2>1, Unchanged, EndMoves, Routine, EmptyRows DEF AccountInv, TablesTyped
  <1> QED BY <1>5, <1>6

\* The row of a session is written from what its request knows.
LEMMA SessionTokenKeeps == ASSUME AccountInv, NEW r \in Caller, NEW s \in Session, NewSessionToken(r, s) PROVE AccountInv'
  <1>1. At(r, "session") /\ reqs[r].at \in CallPoints
    BY DEF NewSessionToken, At, CallPoints
  <1>2. /\ reqs[r] # NoCall /\ reqs[r] \in CallRow /\ CallKnown(reqs[r]) /\ ~At(r, "revoke")
    BY <1>1, Continued DEF At
  <1>3. PICK q \in CallRow : q = reqs[r] /\ q.at = "session"
    BY <1>1, <1>2 DEF At
  <1>4. PICK u \in User, n \in 0..MaxDisables, m \in 0..MaxDisables, p \in CodeProof, k \in Kinds :
          u = q.user /\ n = q.seen /\ m = disables[u] /\ p = q.proof /\ k = q.kind
    BY DEF CallRow, AccountInv, TablesTyped
  <1>5. PICK row : /\ row = [state |-> "live", user |-> u, kind |-> k, proof |-> p, seen |-> n, made |-> m]
                   /\ sessions' = [sessions EXCEPT ![s] = row]
    BY <1>3, <1>4 DEF NewSessionToken, CreateSession
  <1>6. row \in SessionRow
    BY <1>5 DEF SessionRow, CodeProof
  <1>7. /\ sessions[s] = None /\ End(r)
        /\ UNCHANGED <<users, admins, passkeys, codes, appPasswords, linked, ceremonies, disables, cut>>
    BY DEF NewSessionToken, CreateSession
  <1>8. sessions'[s] = row /\ \A t \in Session : t # s => sessions'[t] = sessions[t]
    BY <1>5 DEF AccountInv, SessionsTyped
  <1>9. /\ users[u] # "absent" /\ n <= m /\ (users[u] = "disabled" => n < m)
        /\ k = "recovery" => p[1] <= codes[u].set
    BY <1>2, <1>3, <1>4 DEF CallKnown, SigningIn
  <1>10. Moves(r, NoCall) /\ Ready(r, NoCall)
    BY <1>7, EndMoves
  <1>11. reqs'[r] = NoCall /\ CallsTyped' /\ \A o \in Caller \ {r} : reqs'[o] = reqs[o]
    BY <1>10, MovesTyped DEF AccountInv
  <1>12. TablesTyped' /\ SessionsTyped'
    BY <1>5, <1>6, <1>7 DEF AccountInv, TablesTyped, SessionsTyped
  <1>13. UsersKnown'
    BY <1>5, <1>7, <1>8, <1>9 DEF AccountInv, UsersKnown
  <1>14. Onward /\ AdminsKept /\ PasskeysKept
    <2>1. \A v \in User : disables[v] \in Nat /\ codes[v].set \in Nat
      BY DEF AccountInv, TablesTyped, CodeRow
    <2> QED BY <1>7, <2>1 DEF Onward, AdminsKept, PasskeysKept, ActiveAdmins
  <1>15. CallsKnown' /\ ChecksHold'
    BY <1>10, <1>12, <1>14, CallsMove, ChecksMove
  <1>16. DisableHolds'
    <2> SUFFICES ASSUME NEW t \in Session, sessions'[t].state = "live", users[sessions'[t].user] = "disabled",
                        ~Spared(sessions[t].user)'
                 PROVE  /\ sessions'[t].seen < sessions'[t].made
                        /\ sessions'[t].made = disables[sessions'[t].user]
      BY <1>7 DEF DisableHolds, SessionUser, Disabled, Spared, At
    <2>1. CASE t = s
      BY <1>4, <1>5, <1>8, <1>9, <2>1
    <2>2. CASE t # s
      <3>1. sessions'[t] = sessions[t] /\ ~Spared(sessions[t].user)
        BY <1>1, <1>7, <1>8, <1>11, <2>2 DEF Spared, At
      <3> QED BY <3>1 DEF AccountInv, DisableHolds, SessionUser, Disabled, Spared, At
    <2> QED BY <2>1, <2>2
  <1>17. r \notin Session /\ s \notin Caller
    BY AccountsAssumption
  <1>18. ASSUME NEW x \in Redeemers', x # s PROVE x \in Redeemers /\ x # r /\ ProofOf(x)' = ProofOf(x)
    BY <1>8, <1>11, <1>17, <1>18, EmptyRows DEF Redeemers, ProofOf, At
  <1>19. s \in Redeemers' => r \in Redeemers
    BY <1>1, <1>3, <1>4, <1>5, <1>8, <1>17 DEF Redeemers, At
  <1>20. ProofOf(s)' = ProofOf(r)
    BY <1>3, <1>4, <1>5, <1>8, <1>17 DEF ProofOf
  <1>21. ASSUME NEW x \in Redeemers', NEW y \in Redeemers', x # y PROVE ProofOf(x)' # ProofOf(y)'
    BY <1>18, <1>19, <1>20, <1>21 DEF AccountInv, CodeOpensOne
  <1>22. ASSUME NEW x \in Redeemers'
         PROVE  LET v == ProofOf(x)'[1]  t == ProofOf(x)'[2] IN
                  codes'[v].set = t[1] => t[2] \notin codes'[v].unused
    BY <1>7, <1>18, <1>19, <1>20 DEF AccountInv, CodeOpensOne
  <1>23. CodeOpensOne'
    BY <1>21, <1>22 DEF CodeOpensOne
  <1>24. RedeemedKnown'
    <2>1. ASSUME NEW t \in Session, t # s, sessions'[t] # None, sessions'[t].kind = "recovery"
          PROVE  sessions'[t].proof[1] <= codes'[sessions'[t].user].set
      BY <1>7, <1>8, <2>1 DEF AccountInv, RedeemedKnown
    <2>2. sessions'[s].kind = "recovery" => sessions'[s].proof[1] <= codes'[sessions'[s].user].set
      BY <1>5, <1>7, <1>8, <1>9
    <2> QED BY <2>1, <2>2 DEF RedeemedKnown
  <1> QED BY <1>11, <1>12, <1>13, <1>15, <1>16, <1>23, <1>24 DEF AccountInv

\* Whoever writes what was checked is the only one between a check and its write.
LEMMA CheckedAlone ==
  ASSUME AccountInv, NEW r \in Caller, Checked(r) PROVE Quiet(r)
  BY DEF AccountInv, ChecksHold, Quiet

LEMMA ChecksEnd ==
  ASSUME AccountInv, NEW r \in Caller, NEW q \in CallRow \cup {NoCall}, Moves(r, q), Quiet(r),
         q.at \notin {"update", "delete"}
  PROVE  ChecksHold'
  <1>1. reqs'[r] = q /\ \A o \in Caller \ {r} : reqs'[o] = reqs[o]
    BY MovesTyped DEF AccountInv
  <1>2. ~Overlap => \A o \in Caller : ~Checked(o)'
    BY <1>1 DEF Quiet, Checked
  <1> QED BY <1>2 DEF ChecksHold, StillRight, Checked, At

\* The write of a check, and the break-glass commands: accounts and passkeys may be lost,
\* and a disable goes on to revoke.
LEMMA WriteKeeps ==
  ASSUME AccountInv, NEW r \in Caller, Quiet(r), NEW q \in CallRow \cup {NoCall}, Moves(r, q),
         ~At(r, "revoke"), q.at \in {"revoke", "idle"},
         q = NoCall \/ CallKnown(q)', NEW u \in User, TablesTyped', UsersKnown', Onward,
         UNCHANGED <<codes, sessions, ceremonies, cut>>,
         \A v \in User : users'[v] = "disabled" =>
           \/ v = u /\ q.at = "revoke" /\ q.user = u
           \/ users[v] = "disabled" /\ disables'[v] = disables[v]
  PROVE  AccountInv'
  <1>1. CallsTyped' /\ reqs'[r] = q /\ \A o \in Caller \ {r} : reqs'[o] = reqs[o]
    BY MovesTyped DEF AccountInv
  <1>2. SessionsTyped' /\ SessionsShrink /\ CodesOnward
    BY SameSessions, SameCodes DEF AccountInv, SessionsTyped
  <1>3. CallsKnown' /\ ChecksHold'
    BY CallsMove, ChecksEnd
  <1>4. CodeOpensOne' /\ RedeemedKnown'
    BY <1>1, <1>2, CodesStay
  <1>5. DisableHolds'
    <2>1. \A v \in User : Spared(v) => Spared(v)'
      BY <1>1 DEF Spared, At
    <2>2. q.at = "revoke" /\ q.user = u => Spared(u)'
      BY <1>1 DEF Spared, At
    <2> QED BY <1>2, <2>1, <2>2, DisableStays
  <1> QED BY <1>1, <1>2, <1>3, <1>4, <1>5 DEF AccountInv

\* Passkeys are taken away from an account.
LEMMA PasskeysGo ==
  ASSUME AccountInv, NEW u \in User, NEW S \in SUBSET Passkey, S \subseteq passkeys[u],
         passkeys' = [passkeys EXCEPT ![u] = S],
         UNCHANGED <<users, admins, codes, appPasswords, linked, sessions, ceremonies, disables, cut>>
  PROVE  TablesTyped' /\ UsersKnown' /\ Onward
  <1>1. TablesTyped'
    BY DEF AccountInv, TablesTyped
  <1>2. ASSUME NEW v \in User, NEW w \in User, v # w PROVE passkeys'[v] \cap passkeys'[w] = {}
    <2>1. passkeys[v] \cap passkeys[w] = {}
      BY <1>2 DEF AccountInv, UsersKnown
    <2>2. passkeys'[v] \subseteq passkeys[v] /\ passkeys'[w] \subseteq passkeys[w]
      BY DEF AccountInv, TablesTyped
    <2> QED BY <2>1, <2>2
  <1>3. UsersKnown'
    BY <1>2 DEF AccountInv, UsersKnown
  <1>4. \A v \in User : disables[v] \in Nat /\ codes[v].set \in Nat
    BY DEF AccountInv, TablesTyped, CodeRow
  <1> QED BY <1>1, <1>3, <1>4 DEF Onward

LEMMA DeleteKeeps == ASSUME AccountInv, NEW r \in Caller, DeleteCredential(r) PROVE AccountInv'
  <1>1. At(r, "delete") /\ reqs[r].at \in CallPoints
    BY DEF DeleteCredential, At, CallPoints
  <1>2. PICK u \in User : u = reqs[r].user
    BY <1>1, Continued
  <1>3. PICK S \in SUBSET Passkey : S \subseteq passkeys[u] /\ passkeys' = [passkeys EXCEPT ![u] = S]
    <2>1. passkeys[u] \ reqs[r].key \in SUBSET Passkey
      BY DEF AccountInv, TablesTyped
    <2> QED BY <1>2, <2>1 DEF DeleteCredential
  <1>4. Quiet(r) /\ ~At(r, "revoke")
    BY <1>1, CheckedAlone DEF Checked, At
  <1>5. TablesTyped' /\ UsersKnown' /\ Onward
    BY <1>3, PasskeysGo DEF DeleteCredential
  <1>6. Moves(r, NoCall) /\ NoCall.at = "idle"
    BY EndMoves, EmptyRows DEF DeleteCredential
  <1> QED BY <1>4, <1>5, <1>6, WriteKeeps DEF DeleteCredential

LEMMA ResetKeeps == ASSUME AccountInv, NEW r \in Caller, NEW u \in User, userResetAuth(r, u) PROVE AccountInv'
  <1>1. PICK q \in CallRow : /\ q = CallStep("revoke", "reset", u) /\ q.at = "revoke" /\ q.user = u
                             /\ q.kind = "web" /\ q.op = "reset"
    BY Started DEF AccountInv, CallPoints, CallOps
  <1>2. Moves(r, q) /\ ~At(r, "revoke") /\ Quiet(r)
    BY <1>1, EmptyRows DEF userResetAuth, Opens, Moves, At
  <1>3. TablesTyped' /\ UsersKnown' /\ Onward
    <2>0. {} \in SUBSET Passkey /\ {} \subseteq passkeys[u]
      OBVIOUS
    <2>1. PICK S \in SUBSET Passkey : S = {} /\ S \subseteq passkeys[u]
      BY <2>0
    <2>2. passkeys' = [passkeys EXCEPT ![u] = S]
      BY <2>1 DEF userResetAuth
    <2> QED BY <2>1, <2>2, PasskeysGo DEF userResetAuth
  <1>4. CallKnown(q)'
    BY <1>1 DEF CallKnown, SigningIn
  <1> QED BY <1>1, <1>2, <1>3, <1>4, WriteKeeps DEF userResetAuth

\* An account is disabled or enabled, its administration granted or withdrawn.
LEMMA AccountChanges ==
  ASSUME AccountInv, NEW u \in User, users[u] # "absent", NEW off \in BOOLEAN,
         SetUserDisabled(u, off) \/ UNCHANGED <<users, disables>>,
         admins' \in {admins, admins \cup {u}, admins \ {u}},
         UNCHANGED <<passkeys, codes, appPasswords, linked, sessions, ceremonies, cut>>
  PROVE  /\ TablesTyped' /\ UsersKnown' /\ Onward
         /\ \A v \in User : users'[v] = "disabled" =>
              (v = u /\ off /\ SetUserDisabled(u, off)) \/ (users[v] = "disabled" /\ disables'[v] = disables[v])
  <1>1. /\ \A v \in User : disables[v] \in Nat /\ disables[v] \in 0..MaxDisables /\ codes[v].set \in Nat
        /\ MaxDisables \in Nat
    BY AccountsAssumption DEF AccountInv, TablesTyped, CodeRow
  <1>2. CASE SetUserDisabled(u, off)
    <2>1. /\ users'[u] = (IF off THEN "disabled" ELSE "active")
          /\ disables'[u] = IF off THEN disables[u] + 1 ELSE disables[u]
          /\ off => disables[u] < MaxDisables
          /\ \A v \in User : v # u => users'[v] = users[v] /\ disables'[v] = disables[v]
      BY <1>2 DEF SetUserDisabled, AccountInv, TablesTyped
    <2>2. users' \in [User -> {"absent", "active", "disabled"}]
      BY <1>2 DEF SetUserDisabled, AccountInv, TablesTyped
    <2>3. disables' \in [User -> 0..MaxDisables]
      <3>1. disables'[u] \in 0..MaxDisables
        BY <1>1, <2>1
      <3> QED BY <1>2, <3>1, <2>1, <1>1 DEF SetUserDisabled, AccountInv, TablesTyped
    <2>4. TablesTyped'
      BY <2>2, <2>3 DEF AccountInv, TablesTyped
    <2>5. Onward
      BY <1>1, <2>1 DEF Onward
    <2>6. UsersKnown'
      <3>1. \A v \in User : users'[v] = "absent" => v # u /\ users[v] = "absent" /\ disables'[v] = disables[v]
        BY <2>1
      <3>2. \A v \in User : users'[v] = "disabled" => disables'[v] > 0
        BY <1>1, <2>1 DEF AccountInv, UsersKnown
      <3>3. \A s \in Session : sessions[s] # None => users'[sessions[s].user] # "absent"
        <4>1. \A s \in Session : sessions[s] # None => sessions[s].user \in User
          BY DEF AccountInv, SessionsTyped, SessionRow
        <4> QED BY <3>1, <4>1 DEF AccountInv, UsersKnown
      <3> QED BY <3>1, <3>2, <3>3 DEF AccountInv, UsersKnown
    <2> QED BY <1>2, <2>1, <2>4, <2>5, <2>6
  <1>3. CASE UNCHANGED <<users, disables>>
    <2>1. TablesTyped' /\ UsersKnown' /\ Onward
      BY <1>1, <1>3 DEF AccountInv, TablesTyped, UsersKnown, Onward
    <2> QED BY <1>3, <2>1
  <1> QED BY <1>2, <1>3

LEMMA UpdateKeeps == ASSUME AccountInv, NEW r \in Caller, UpdateUser(r) PROVE AccountInv'
  <1>1. At(r, "update") /\ reqs[r].at \in CallPoints
    BY DEF UpdateUser, At, CallPoints
  <1>2. /\ reqs[r] # NoCall /\ reqs[r] \in CallRow /\ CallKnown(reqs[r]) /\ ~At(r, "revoke")
        /\ reqs[r].kind # "recovery"
    BY <1>1, Continued DEF At, CallKnown
  <1>3. PICK u \in User : u = reqs[r].user /\ users[u] # "absent"
    BY <1>1, <1>2 DEF CallRow, CallKnown, At
  <1>4. PICK off \in BOOLEAN : off <=> reqs[r].op = "disable"
    OBVIOUS
  <1>5. /\ SetUserDisabled(u, off) \/ UNCHANGED <<users, disables>>
        /\ admins' \in {admins, admins \cup {u}, admins \ {u}}
        /\ UNCHANGED <<passkeys, codes, appPasswords, linked, sessions, ceremonies, cut>>
    BY <1>3, <1>4 DEF UpdateUser, SetUserDisabled
  <1>6. /\ TablesTyped' /\ UsersKnown' /\ Onward
        /\ \A v \in User : users'[v] = "disabled" =>
             (v = u /\ off) \/ (users[v] = "disabled" /\ disables'[v] = disables[v])
    BY <1>3, <1>5, AccountChanges
  <1>7. Quiet(r)
    BY <1>1, CheckedAlone DEF Checked, At
  <1>8. CASE off
    <2>1. PICK q \in CallRow : /\ Moves(r, q) /\ q.at = "revoke" /\ q.op = "disable"
                               /\ q.user = u /\ q.kind = reqs[r].kind
      BY <1>2, <1>3, <1>4, <1>8, GotoMoves DEF UpdateUser, CallPoints, AccountInv
    <2>2. CallKnown(q)'
      BY <1>2, <2>1 DEF CallKnown, SigningIn
    <2> QED BY <1>2, <1>5, <1>6, <1>7, <2>1, <2>2, WriteKeeps
  <1>9. CASE ~off
    <2>1. Moves(r, NoCall) /\ NoCall.at = "idle"
      BY <1>4, <1>9, EndMoves, EmptyRows DEF UpdateUser
    <2> QED BY <1>2, <1>5, <1>6, <1>7, <1>9, <2>1, WriteKeeps
  <1> QED BY <1>8, <1>9

LEMMA LockKeeps == ASSUME AccountInv, NEW r \in Caller, NEW u \in User, userSetDisabled(r, u) PROVE AccountInv'
  <1>1. /\ users[u] # "absent" /\ Quiet(r) /\ admins' = admins
        /\ UNCHANGED <<passkeys, codes, appPasswords, linked, sessions, ceremonies, cut>>
    BY DEF userSetDisabled
  <1>2. CASE SetUserDisabled(u, TRUE) /\ Opens(r, CallStep("revoke", "lock", u))
    <2>1. PICK q \in CallRow : /\ q = CallStep("revoke", "lock", u) /\ q.at = "revoke" /\ q.user = u
                               /\ q.kind = "web" /\ q.op = "lock"
      BY Started DEF AccountInv, CallPoints, CallOps
    <2>2. Moves(r, q) /\ ~At(r, "revoke")
      BY <1>2, <2>1, EmptyRows DEF Opens, Moves, At
    <2>3. /\ TablesTyped' /\ UsersKnown' /\ Onward
          /\ \A v \in User : users'[v] = "disabled" =>
               v = u \/ (users[v] = "disabled" /\ disables'[v] = disables[v])
      BY <1>1, <1>2, AccountChanges
    <2>4. CallKnown(q)'
      BY <2>1 DEF CallKnown, SigningIn
    <2> QED BY <1>1, <2>1, <2>2, <2>3, <2>4, WriteKeeps
  <1>3. CASE SetUserDisabled(u, FALSE) /\ UNCHANGED reqs
    <2>1. /\ TablesTyped' /\ UsersKnown' /\ Onward
          /\ \A v \in User : users'[v] = "disabled" => users[v] = "disabled"
      BY <1>1, <1>3, AccountChanges
    <2>2. disables' = disables /\ users'[u] = "active" /\ \A v \in User : v # u => users'[v] = users[v]
      BY <1>3 DEF SetUserDisabled, AccountInv, TablesTyped
    <2>3. AdminsKept
      BY <1>1, <2>2 DEF AdminsKept, ActiveAdmins, AccountInv, TablesTyped
    <2>4. SessionsTyped' /\ Lasting
      BY <1>1, <2>1, <2>2, <2>3, SameSessions, SameCodes
         DEF Lasting, PasskeysKept, Onward, AccountInv, SessionsTyped
    <2> QED BY <1>3, <2>1, <2>4, Unmoved
  <1> QED BY <1>2, <1>3 DEF userSetDisabled

\* The sessions of the account end, and with them what its disable spared.
LEMMA RevokingKeeps == ASSUME AccountInv, NEW r \in Caller, RevokeDisabled(r) PROVE AccountInv'
  <1>1. At(r, "revoke") /\ reqs[r].at \in CallPoints
    BY DEF RevokeDisabled, At, CallPoints
  <1>2. /\ reqs[r] # NoCall /\ reqs[r] \in CallRow /\ CallKnown(reqs[r]) /\ reqs[r].kind # "recovery"
    BY <1>1, Continued DEF At, CallKnown
  <1>3. PICK u \in User : u = reqs[r].user
    BY <1>2 DEF CallRow
  <1>4. /\ RevokeWhere(SessionsOf(u)) /\ cut' = cut \ {u}
        /\ UNCHANGED <<users, admins, passkeys, codes, appPasswords, linked, ceremonies, disables>>
    BY <1>3 DEF RevokeDisabled, RevokeAllSessions
  <1>5. /\ SessionsShrink /\ sessions' \in [Session -> SessionRow \cup {None}]
        /\ \A s \in Session \cap SessionsOf(u) : sessions'[s].state # "live"
        /\ \A s \in Session : sessions'[s] # None => users[sessions'[s].user] # "absent"
    BY <1>4, Revoked
  <1>6. TablesTyped' /\ SessionsTyped' /\ UsersKnown'
    BY <1>4, <1>5 DEF AccountInv, TablesTyped, SessionsTyped, UsersKnown
  <1>7. Onward /\ AdminsKept /\ PasskeysKept /\ CodesOnward
    <2>1. \A v \in User : disables[v] \in Nat /\ codes[v].set \in Nat
      BY DEF AccountInv, TablesTyped, CodeRow
    <2> QED BY <1>4, <2>1 DEF Onward, AdminsKept, PasskeysKept, ActiveAdmins, CodesOnward
  <1>8. PICK q \in CallRow \cup {NoCall} :
          Moves(r, q) /\ q.at \in {"apps", "idle"} /\ (q = NoCall \/ CallKnown(q)')
    <2>1. CASE reqs[r].op = "reset"
      <3>1. PICK q \in CallRow : Moves(r, q) /\ q.at = "apps" /\ q.op = "reset" /\ q.kind = reqs[r].kind
        BY <1>2, <2>1, GotoMoves DEF RevokeDisabled, CallPoints, AccountInv
      <3>2. CallKnown(q)'
        BY <1>2, <3>1 DEF CallKnown, SigningIn
      <3> QED BY <3>1, <3>2
    <2>2. CASE reqs[r].op # "reset"
      BY <2>2, EndMoves, EmptyRows DEF RevokeDisabled
    <2> QED BY <2>1, <2>2
  <1>9. CallsTyped' /\ reqs'[r] = q /\ \A o \in Caller \ {r} : reqs'[o] = reqs[o]
    BY <1>8, MovesTyped DEF AccountInv
  <1>10. CallsKnown' /\ ChecksHold'
    BY <1>6, <1>7, <1>8, CallsMove, ChecksMove DEF Ready
  <1>11. CodeOpensOne' /\ RedeemedKnown'
    BY <1>5, <1>6, <1>7, <1>8, <1>9, EmptyRows, CodesStay
  <1>12. DisableHolds'
    <2>1. ASSUME NEW s \in Session, sessions'[s].state = "live" PROVE sessions'[s].user # u
      <3>1. sessions'[s] # None
        BY <2>1, EmptyRows
      <3>2. sessions[s].state = "live" /\ sessions[s].user = sessions'[s].user /\ s \notin SessionsOf(u)
        BY <1>5, <2>1, <3>1 DEF SessionsShrink
      <3> QED BY <3>2 DEF SessionsOf
    <2>2. \A v \in User : v # u /\ Spared(v) => Spared(v)'
      BY <1>3, <1>4, <1>9 DEF Spared, At
    <2> QED BY <1>4, <1>5, <2>1, <2>2, DisableStays
  <1> QED BY <1>6, <1>9, <1>10, <1>11, <1>12 DEF AccountInv

LEMMA AppPasswordsRevoked == ASSUME AccountInv, NEW r \in Caller, RevokeAllAppPasswords(r) PROVE AccountInv'
  <1>1. At(r, "apps") /\ reqs[r].at \in CallPoints
    BY DEF RevokeAllAppPasswords, At, CallPoints
  <1>2. /\ reqs[r] # NoCall /\ reqs[r].user \in User /\ CallKnown(reqs[r]) /\ ~At(r, "revoke")
        /\ reqs[r].kind # "recovery" /\ reqs[r].op = "reset"
    BY <1>1, Continued DEF At, CallKnown
  <1>3. TablesTyped' /\ SessionsTyped' /\ UsersKnown' /\ Lasting
    BY <1>2, AppPasswordsChange DEF RevokeAllAppPasswords
  <1>4. PICK q \in CallRow : Moves(r, q) /\ q.at = "codes" /\ q.op = "reset" /\ q.kind = reqs[r].kind
    BY <1>2, GotoMoves DEF RevokeAllAppPasswords, CallPoints, AccountInv
  <1>5. CallKnown(q)'
    BY <1>2, <1>4 DEF CallKnown, SigningIn
  <1> QED BY <1>2, <1>3, <1>4, <1>5, Routine DEF Ready

LEMMA AbandonKeeps == ASSUME AccountInv, NEW r \in Caller, Abandon(r) PROVE AccountInv'
  <1>1. reqs[r] \in CallRow /\ reqs[r].user \in User /\ cut \subseteq cut'
    BY DEF Abandon, AccountInv, CallsTyped, CallRow
  <1>2. UNCHANGED <<users, admins, passkeys, codes, appPasswords, linked, sessions, ceremonies, disables>>
    BY DEF Abandon, tables
  <1>3. TablesTyped' /\ SessionsTyped' /\ UsersKnown'
    BY <1>1, <1>2, Unchanged DEF Abandon, AccountInv, TablesTyped
  <1>4. Onward /\ AdminsKept /\ PasskeysKept /\ CodesOnward /\ SessionsShrink
    <2>1. \A v \in User : disables[v] \in Nat /\ codes[v].set \in Nat
      BY DEF AccountInv, TablesTyped, CodeRow
    <2> QED BY <1>2, <2>1, SameSessions DEF Onward, AdminsKept, PasskeysKept, ActiveAdmins, CodesOnward
  <1>5. Moves(r, NoCall) /\ Ready(r, NoCall)
    BY EndMoves DEF Abandon
  <1>6. CallsTyped' /\ reqs'[r] = NoCall /\ \A o \in Caller \ {r} : reqs'[o] = reqs[o]
    BY <1>5, MovesTyped DEF AccountInv
  <1>7. CallsKnown' /\ ChecksHold'
    BY <1>3, <1>4, <1>5, CallsMove, ChecksMove
  <1>8. CodeOpensOne' /\ RedeemedKnown'
    BY <1>3, <1>4, <1>6, EmptyRows, CodesStay
  <1>9. DisableHolds'
    <2>1. \A v \in User : Spared(v) => Spared(v)'
      BY <1>1, <1>6 DEF Spared, At, Abandon
    <2> QED BY <1>2, <1>4, <2>1, DisableStays
  <1> QED BY <1>3, <1>6, <1>7, <1>8, <1>9 DEF AccountInv

-----------------------------------------------------------------------------
(* The specification                                                       *)

LEMMA AccountStart == ASSUME AccountInit PROVE AccountInv
  <1>1. /\ appPasswords = [u \in User |-> {}] /\ linked = {} /\ cut = {}
        /\ ceremonies = [c \in Ceremony |-> None] /\ reqs = [r \in Caller |-> NoCall]
        /\ disables = [u \in User |-> 0]
    BY DEF AccountInit
  <1>2. /\ 0 \in 0..MaxDisables /\ 0 \in 0..MaxSets /\ 1 \in 0..MaxSets
    BY AccountsAssumption
  <1>3. /\ users \in [User -> {"absent", "active"}] /\ admins \subseteq User
        /\ \/ (\A u \in User : users[u] = "absent") /\ admins = {}
           \/ \A u \in User : users[u] = "active"
        /\ passkeys \in [User -> SUBSET Passkey]
        /\ \A u, v \in User : u # v => passkeys[u] \cap passkeys[v] = {}
    BY DEF AccountInit, Empty, Running
  <1>4. codes \in [User -> CodeRow] /\ \A u \in User : 0 <= codes[u].set
    <2>1. CASE Empty
      BY <1>2, <2>1 DEF Empty, CodeRow
    <2>2. CASE Running
      BY <1>2, <2>2 DEF Running, CodeRow
    <2> QED BY <2>1, <2>2 DEF AccountInit
  <1>5. /\ sessions \in [Session -> SessionRow \cup {None}]
        /\ \A s \in Session : sessions[s] # None =>
             sessions[s].kind = "web" /\ users[sessions[s].user] = "active"
    <2>1. CASE Empty
      BY <2>1 DEF Empty
    <2>2. CASE Running
      <3>1. ASSUME NEW u \in User
            PROVE  LET q == [state |-> "live", user |-> u, kind |-> "web", proof |-> NoCode, seen |-> 0, made |-> 0]
                   IN  q \in SessionRow /\ q.kind = "web" /\ q.user = u
        BY <1>2, EmptyRows DEF SessionRow, CodeProof, Kinds
      <3>2. \A s \in Session : sessions[s] = None \/ \E u \in User : sessions[s] =
              [state |-> "live", user |-> u, kind |-> "web", proof |-> NoCode, seen |-> 0, made |-> 0]
        BY <2>2 DEF Running
      <3>3. ASSUME NEW s \in Session
            PROVE  /\ sessions[s] \in SessionRow \cup {None}
                   /\ sessions[s] # None => sessions[s].kind = "web" /\ sessions[s].user \in User
        BY <3>1, <3>2
      <3>4. sessions = [s \in Session |-> sessions[s]]
        BY <2>2 DEF Running
      <3> QED BY <2>2, <3>3, <3>4 DEF Running
    <2> QED BY <2>1, <2>2 DEF AccountInit
  <1>6. TablesTyped /\ SessionsTyped /\ CallsTyped
    BY <1>1, <1>2, <1>3, <1>4, <1>5 DEF TablesTyped, SessionsTyped, CallsTyped
  <1>7. UsersKnown
    BY <1>1, <1>3, <1>5 DEF UsersKnown
  <1>8. \A r \in Caller : reqs[r] = NoCall /\ reqs[r].at = "idle"
    BY <1>1, EmptyRows
  <1>9. CallsKnown /\ ChecksHold
    BY <1>8 DEF CallsKnown, ChecksHold, Checked, StillRight, At
  <1>10. DisableHolds
    BY <1>5, EmptyRows DEF DisableHolds, SessionUser, Disabled
  <1>11. Redeemers = {}
    BY <1>5, <1>8, EmptyRows DEF Redeemers, At
  <1>12. CodeOpensOne /\ RedeemedKnown
    BY <1>5, <1>11 DEF CodeOpensOne, RedeemedKnown
  <1> QED BY <1>6, <1>7, <1>9, <1>10, <1>12 DEF AccountInv

LEMMA AccountStep == ASSUME AccountInv, [AccountNext]_accountVars PROVE AccountInv'
  <1>1. CASE Registers
    BY <1>1, Beginnings, RegisterFinishKeeps DEF Registers
  <1>2. CASE SignsIn
    BY <1>2, Beginnings, LoginFinishKeeps, RedeemKeeps, DeviceTokenKeeps, OIDCKeeps DEF SignsIn
  <1>3. CASE Manages
    BY <1>3, RegenerateKeeps, SessionStepsKeep, AppPasswordsKeep, CredentialDeletionKeeps DEF Manages
  <1>4. CASE Administers
    BY <1>4, SessionStepsKeep, CreatingKeeps, PatchingKeeps, AppPasswordsKeep, LockKeeps, ResetKeeps DEF Administers
  <1>5. CASE \E r \in Caller : Continues(r)
    BY <1>5, AddCredentialKeeps, InsertUserKeeps, RegeneratingKeeps, ConsumeKeeps, ProvisionKeeps,
       SessionTokenKeeps, DeleteKeeps, UpdateKeeps, RevokingKeeps, AppPasswordsRevoked, AbandonKeeps DEF Continues
  <1>6. CASE Cleanup
    BY <1>6, CleanupKeeps
  <1>7. CASE UNCHANGED accountVars
    <2>1. UNCHANGED <<users, admins, passkeys, codes, appPasswords, linked, sessions, ceremonies, reqs, disables, cut>>
      BY <1>7 DEF accountVars, tables
    <2> QED BY <2>1, Ceremonies DEF OnlyCalls, CeremoniesTyped, AccountInv, SessionsTyped
  <1> QED BY <1>1, <1>2, <1>3, <1>4, <1>5, <1>6, <1>7 DEF AccountNext

LEMMA AccountAlways == AccountSpec => []AccountInv
  <1>1. AccountInit => AccountInv
    BY AccountStart
  <1>2. AccountInv /\ [AccountNext]_accountVars => AccountInv'
    BY AccountStep
  <1> QED BY <1>1, <1>2, PTL DEF AccountSpec

\* The rows the tables hold have the shapes the schema allows: a passkey belongs to one
\* account, one account at most is linked to the OIDC identity, and no session names an
\* account that does not exist (auth/store.go).
THEOREM AccountTypesHold == AccountSpec => []AccountTypeOK
  <1>1. ASSUME AccountInv PROVE AccountTypeOK
    <2>1. Cardinality(linked) <= 1
      <3>1. CASE linked = {}
        BY <3>1, FS_EmptySet
      <3>2. CASE linked # {}
        <4>1. PICK u : linked = {u}
          BY <1>1, <3>2 DEF AccountInv, UsersKnown
        <4> QED BY <4>1, FS_Singleton
      <3> QED BY <3>1, <3>2
    <2> QED BY <1>1, <2>1 DEF AccountInv, AccountTypeOK, TablesTyped, SessionsTyped, UsersKnown, CodeRow
  <1> QED BY <1>1, AccountAlways, PTL

\* What opens a session is still good when it does (auth/admin.go, auth/store.go): a disable
\* that has run to its end leaves no session but one whose sign-in looked at the account
\* before it, and a printed recovery code opens one session, whatever the requests in flight.
THEOREM SignInsHold == AccountSpec => []SignInHolds
  <1>1. AccountInv => SignInHolds
    BY DEF AccountInv, SignInHolds
  <1> QED BY <1>1, AccountAlways, PTL

\* The steps that can cost an account its administration or a passkey.
LEMMA MostKeepBoth ==
  ASSUME AccountInv, [AccountNext]_accountVars
  PROVE  \/ AdminsKept /\ PasskeysKept
         \/ \E r \in Caller : UpdateUser(r) \/ DeleteCredential(r)
         \/ \E r \in Caller, u \in User : userSetDisabled(r, u) \/ userResetAuth(r, u)
  <1>1. UNCHANGED <<users, admins, passkeys>> => AdminsKept /\ PasskeysKept
    BY DEF AdminsKept, PasskeysKept, ActiveAdmins
  <1>2. ASSUME NEW r \in Caller, AddCredential(r) PROVE AdminsKept /\ PasskeysKept
    <2>1. reqs[r].user \in User
      BY <1>2, Continued DEF AddCredential, At, CallPoints
    <2> QED BY <1>2, <2>1 DEF AddCredential, AdminsKept, PasskeysKept, ActiveAdmins, AccountInv, TablesTyped
  <1>3. ASSUME NEW r \in Caller, InsertUser(r) \/ ProvisionOIDCUser(r) PROVE AdminsKept /\ PasskeysKept
    <2>1. UNCHANGED passkeys /\ admins \subseteq admins'
      BY <1>3 DEF InsertUser, ProvisionOIDCUser, CreateUser
    <2>2. users' = users \/ \E u : users' = [users EXCEPT ![u] = "active"]
      BY <1>3 DEF InsertUser, ProvisionOIDCUser, CreateUser
    <2> QED BY <2>1, <2>2 DEF AdminsKept, PasskeysKept, ActiveAdmins, AccountInv, TablesTyped
  <1>4. CASE Registers
    BY <1>1, <1>4 DEF Registers, handleRegisterBegin, handleRegisterFinish
  <1>5. CASE SignsIn
    BY <1>1, <1>5 DEF SignsIn, handleLoginBegin, handleLoginFinish, handleRecoveryRedeem,
       handleCreateDeviceToken, handleOIDCCallback, tables
  <1>6. CASE Manages
    BY <1>1, <1>6 DEF Manages, handleRegenerateRecoveryCodes, handleLogout, handleCreateAppPassword,
       handleRevokeAppPassword, handleDeleteCredential, handleRevokeSession, tables
  <1>7. CASE Administers
    BY <1>1, <1>7 DEF Administers, handleAdminRevokeUserSession, handleAdminCreateUser, handleAdminPatchUser,
       handleAdminDeleteUser, userAppPassword, userCreate, tables
  <1>8. ASSUME NEW r \in Caller, Continues(r)
        PROVE  (AdminsKept /\ PasskeysKept) \/ UpdateUser(r) \/ DeleteCredential(r)
    BY <1>1, <1>2, <1>3, <1>8 DEF Continues, RegenerateRecoveryCodes, ConsumeRecoveryCode, NewSessionToken,
       RevokeDisabled, RevokeAllAppPasswords, Abandon, tables
  <1>9. CASE Cleanup
    BY <1>1, <1>9 DEF Cleanup
  <1>10. CASE UNCHANGED accountVars
    BY <1>1, <1>10 DEF accountVars, tables
  <1> QED BY <1>4, <1>5, <1>6, <1>7, <1>8, <1>9, <1>10 DEF AccountNext

\* There stays a way in (isLastActiveAdmin of httpapi/admin.go, handleDeleteCredential): as
\* long as no other change falls between a check and its write, no request of the console takes the
\* last active administrator away and nobody deletes their own last passkey; only the
\* break-glass commands of cloudctl do.
THEOREM WaysInStayOpen == ~Overlap => (AccountSpec => WaysInStay)
  <1> SUFFICES ASSUME ~Overlap PROVE AccountSpec => WaysInStay
    OBVIOUS
  <1> DEFINE Kept == /\ ActiveAdmins # {} /\ ActiveAdmins' = {} => BreakGlass("lock")
                     /\ \A u \in User : passkeys[u] # {} /\ passkeys'[u] = {} => BreakGlass("reset")
  <1>1. ASSUME AccountInv, [AccountNext]_accountVars PROVE Kept
    <2>1. CASE AdminsKept /\ PasskeysKept
      BY <2>1 DEF AdminsKept, PasskeysKept
    <2>2. ASSUME NEW r \in Caller, UpdateUser(r) PROVE Kept
      <3>1. PICK u \in User : u = reqs[r].user /\ At(r, "update") /\ StillRight(r)
        BY <1>1, <2>2, Continued DEF UpdateUser, At, CallPoints, AccountInv, ChecksHold
      <3>2. passkeys' = passkeys
        BY <2>2 DEF UpdateUser
      <3>3. CASE reqs[r].op \in {"demote", "disable"}
        <4>1. ActiveAdmins \ {u} # {}
          BY <3>1, <3>3 DEF StillRight, At
        <4>2. ActiveAdmins \ {u} \subseteq ActiveAdmins'
          BY <1>1, <2>2, <3>1, <3>3 DEF UpdateUser, SetUserDisabled, ActiveAdmins, AccountInv, TablesTyped
        <4> QED BY <3>2, <4>1, <4>2
      <3>4. CASE reqs[r].op \notin {"demote", "disable"}
        <4>1. admins \subseteq admins' /\ \A v \in User : users[v] = "active" => users'[v] = "active"
          BY <1>1, <2>2, <3>4 DEF UpdateUser, SetUserDisabled, AccountInv, TablesTyped
        <4>2. ActiveAdmins \subseteq ActiveAdmins'
          BY <1>1, <4>1 DEF ActiveAdmins, AccountInv, TablesTyped
        <4> QED BY <3>2, <4>2
      <3> QED BY <3>3, <3>4
    <2>3. ASSUME NEW r \in Caller, DeleteCredential(r) PROVE Kept
      <3>1. PICK u \in User : u = reqs[r].user /\ passkeys[u] \ reqs[r].key # {}
        BY <1>1, <2>3, Continued DEF DeleteCredential, At, CallPoints, AccountInv, ChecksHold, StillRight
      <3>2. /\ passkeys'[u] = passkeys[u] \ reqs[r].key /\ \A v \in User : v # u => passkeys'[v] = passkeys[v]
            /\ UNCHANGED <<users, admins>>
        BY <1>1, <2>3, <3>1 DEF DeleteCredential, AccountInv, TablesTyped
      <3> QED BY <3>1, <3>2 DEF ActiveAdmins
    <2>4. ASSUME NEW r \in Caller, NEW u \in User, userSetDisabled(r, u) PROVE Kept
      <3>1. passkeys' = passkeys
        BY <2>4 DEF userSetDisabled
      <3>2. CASE Opens(r, CallStep("revoke", "lock", u))
        <4>1. PICK q \in CallRow : q = CallStep("revoke", "lock", u) /\ q.op = "lock"
          BY <1>1, Started DEF AccountInv, CallPoints, CallOps
        <4>2. reqs[r] = NoCall /\ reqs'[r] = q
          BY <1>1, <3>2, <4>1 DEF Opens, AccountInv, CallsTyped
        <4> QED BY <3>1, <4>1, <4>2, EmptyRows DEF BreakGlass
      <3>3. CASE SetUserDisabled(u, FALSE)
        <4>1. ActiveAdmins \subseteq ActiveAdmins'
          BY <1>1, <2>4, <3>3 DEF userSetDisabled, SetUserDisabled, ActiveAdmins, AccountInv, TablesTyped
        <4> QED BY <3>1, <4>1
      <3> QED BY <2>4, <3>2, <3>3 DEF userSetDisabled
    <2>5. ASSUME NEW r \in Caller, NEW u \in User, userResetAuth(r, u) PROVE Kept
      <3>1. PICK q \in CallRow : q = CallStep("revoke", "reset", u) /\ q.op = "reset"
        BY <1>1, Started DEF AccountInv, CallPoints, CallOps
      <3>2. reqs[r] = NoCall /\ reqs'[r] = q /\ UNCHANGED <<users, admins>>
        BY <1>1, <2>5, <3>1 DEF userResetAuth, Opens, AccountInv, CallsTyped
      <3> QED BY <3>1, <3>2, EmptyRows DEF BreakGlass, ActiveAdmins
    <2> QED BY <1>1, <2>1, <2>2, <2>3, <2>4, <2>5, MostKeepBoth
  <1> HIDE DEF Kept
  <1>2. AccountInv /\ [AccountNext]_accountVars => [Kept]_accountVars
    BY <1>1
  <1>3. AccountSpec => [][Kept]_accountVars
    BY <1>2, AccountAlways, PTL DEF AccountSpec
  <1> QED BY <1>3 DEF WaysInStay, Kept

(***************************************************************************)
(* The whole                                                               *)
(***************************************************************************)

\* Side by side the three keep their shapes, which is what the run checks of them
\* (files/store.go, files/versions.go, auth/store.go).
THEOREM HomeTypesHold == HomeSpec => []HomeTypeOK
  <1>1. HomeInit => Init /\ VersionInit /\ AccountInit
    BY DEF HomeInit
  <1>2. [HomeNext]_homeVars => [Next]_vars /\ [VersionNext]_versionVars /\ [AccountNext]_accountVars
    BY DEF HomeNext, NotAccounts, NotTree, NotHistory, homeVars
  <1>3. HomeSpec => Spec /\ VersionSpec /\ AccountSpec
    BY <1>1, <1>2, PTL DEF HomeSpec, Spec, VersionSpec, AccountSpec
  <1>4. AccountTypeOK /\ TypeOK /\ VersionTypeOK => HomeTypeOK
    BY DEF HomeTypeOK
  <1> QED BY <1>3, <1>4, TreeTypesHold, HistoryTypesHold, AccountTypesHold, PTL
=============================================================================
