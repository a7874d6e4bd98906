------------------------------- MODULE Grants -------------------------------
(***************************************************************************)
(* Access between users (files/grants.go, httpapi/grants.go) and the file   *)
(* handlers that ask for it: a grant on a node covers all below it, found   *)
(* by comparing materialised paths at the time of the request.              *)
(*                                                                          *)
(* A handler that writes resolves the owner of what it writes to with       *)
(* AccessFor and calls the store afterwards; the answer may be stale by     *)
(* then.  AccessFor itself reads the node and then the grants.              *)
(***************************************************************************)
EXTENDS SharedTree

CONSTANTS
  Request,
  Torn,         \* whether another request may write between the reads of one AccessFor
  MaxGrantOps   \* bound on the requests of one behaviour

ASSUME GrantsAssumption == Torn \in BOOLEAN /\ MaxGrantOps \in Nat

VARIABLES
  grants,       \* table grants
  asks,         \* asks[r]: the request r
  grantOps,
  could         \* history: what the user of a request could write to since it began

grantVars == <<node, grants, asks, grantOps, could>>

Roles == {"viewer", "editor"}
NoAsk == [at |-> "idle"]

(***************************************************************************)
(* Access                                                                  *)
(***************************************************************************)
\* Mutant: grants on trashed folders count.
CoversTrashed(t, u, owner, path) ==
  {g \in grants : g.grantee = u /\ t[g.node].owner = owner /\ Covers(t[g.node].path, path)}

\* The grants of u on a live node of that owner, at this path or above it.
GrantsCovering(t, u, owner, path) ==
  {g \in grants : /\ g.grantee = u /\ t[g.node].owner = owner /\ IsLive(t, g.node)
                  /\ Covers(t[g.node].path, path)}

\* The best role: editor over viewer.
BestRole(S) == IF \E g \in S : g.role = "editor" THEN "editor"
               ELSE IF S # {} THEN "viewer" ELSE "none"

AccessFor(u, i) ==
  IF ~IsLive(node, i) THEN "none"
  ELSE IF node[i].owner = u THEN "owner"
  ELSE BestRole(GrantsCovering(node, u, node[i].owner, node[i].path))

CanWrite(role) == role \in {"owner", "editor"}

\* The answers of a listing: by the grant's owner instead of the node's.
AccessForNodes(u, i) ==
  BestRole({g \in grants : /\ g.grantee = u /\ g.owner = node[i].owner /\ IsLive(node, g.node)
                           /\ Covers(node[g.node].path, node[i].path)})

\* The SQL predicate of the listings.
VisibleNodes(u, i) ==
  \/ node[i].owner = u
  \/ \E g \in grants : /\ g.grantee = u /\ node[g.node].owner = node[i].owner
                       /\ IsLive(node, g.node) /\ Covers(node[g.node].path, node[i].path)

\* Mutant: direct grants only.
DirectGrants(owner, i) == {g \in grants : g.owner = owner /\ IsLive(node, g.node) /\ g.node = i}

\* Who can reach a node, as its owner is told: direct and inherited grants.
GrantsForNode(owner, i) ==
  {g \in grants : /\ g.owner = owner /\ IsLive(node, g.node)
                  /\ Covers(node[g.node].path, node[i].path)}

(***************************************************************************)
(* The grants themselves                                                   *)
(***************************************************************************)
Counted == grantOps < MaxGrantOps /\ grantOps' = grantOps + 1

\* Nobody is between the reads of an AccessFor, or it may be torn.
Whole == Torn \/ \A r \in Request : asks[r].at # "reads"

\* Mutant: a second row for the same grantee.
AddsGrant(u, i, g, role) ==
  /\ u # g /\ GetLive(node, u, i)
  /\ grants' = grants \cup {[node |-> i, owner |-> u, grantee |-> g, role |-> role]}

\* Only the owner of a live node, not to himself; a second grant changes the role.
CreateGrant(u, i, g, role) ==
  /\ u # g /\ GetLive(node, u, i)
  /\ grants' = {x \in grants : x.node # i \/ x.grantee # g}
                 \cup {[node |-> i, owner |-> u, grantee |-> g, role |-> role]}

handleCreateGrant(u, i, g, role) ==
  /\ Whole /\ Counted
  /\ CreateGrant(u, i, g, role)
  /\ UNCHANGED <<node, asks>>

UpdateGrant(u, x, role) ==
  /\ x.owner = u
  /\ grants' = (grants \ {x}) \cup {[x EXCEPT !.role = role]}

handleUpdateGrant(u, x, role) ==
  /\ Whole /\ Counted /\ role # x.role
  /\ UpdateGrant(u, x, role)
  /\ UNCHANGED <<node, asks>>

\* Either side may: the owner revokes, the grantee declines.
DeleteGrant(u, x) ==
  /\ u \in {x.owner, x.grantee}
  /\ grants' = grants \ {x}

handleDeleteGrant(u, x) ==
  /\ Whole /\ Counted
  /\ DeleteGrant(u, x)
  /\ UNCHANGED <<node, asks>>

(***************************************************************************)
(* The handlers of files.go                                                *)
(***************************************************************************)
\* A request on somebody else's node; on a node that is not live it is refused.
Begins(r, ask) ==
  /\ asks[r] = NoAsk /\ Whole /\ Counted
  /\ IsLive(node, ask.left[1]) /\ node[ask.left[1]].owner # ask.user
  /\ asks' = [asks EXCEPT ![r] = ask]
  /\ UNCHANGED <<node, grants>>

CreateBelow(u, p, n, kind) ==
  [at |-> "asks", op |-> kind, user |-> u, left |-> <<p>>, owners |-> {},
   id |-> p, dest |-> p, name |-> n]

handleCreateFolder(r, u, p, n) == Begins(r, CreateBelow(u, p, n, "folder"))

\* The owner is resolved before a byte is stored.
handleUpload(r, u, p, n) == Begins(r, CreateBelow(u, p, n, "file"))

\* Mutant: the new parent is not asked for.
PatchesAnywhere(r, u, i, p, n) ==
  Begins(r, [at |-> "asks", op |-> "patch", user |-> u, left |-> <<i>>, owners |-> {},
             id |-> i, dest |-> p, name |-> n])

\* Access to the node and, of a move, to the new parent.
handlePatchNode(r, u, i, p, n) ==
  Begins(r, [at |-> "asks", op |-> "patch", user |-> u, left |-> <<i, p>>, owners |-> {},
             id |-> i, dest |-> p, name |-> n])

handleTrashNode(r, u, i) ==
  Begins(r, [at |-> "asks", op |-> "trash", user |-> u, left |-> <<i>>, owners |-> {},
             id |-> i, dest |-> i, name |-> ""])

Answers(r, ask) ==
  /\ asks' = [asks EXCEPT ![r] = ask]
  /\ UNCHANGED <<node, grants, grantOps>>

\* AccessFor's first statement: the node's owner and path, live nodes only.
ReadNode(r) ==
  LET a == asks[r]
      i == a.left[1]
  IN
  /\ a.at = "asks" /\ Whole
  /\ IF IsLive(node, i)
       THEN Answers(r, [at |-> "reads", ask |-> a, owner |-> node[i].owner, path |-> node[i].path])
       ELSE Answers(r, NoAsk)

\* WriteOwnerFor: the second statement, unless the caller is the owner, and then the
\* owner the write is charged to; the ends of a move must have the same one.
WriteOwnerFor(r) ==
  LET a == asks[r].ask
      owner == asks[r].owner
      role == IF owner = a.user THEN "owner"
              ELSE BestRole(GrantsCovering(node, a.user, owner, asks[r].path))
  IN
  /\ asks[r].at = "reads"
  /\ IF CanWrite(role) /\ a.owners \subseteq {owner}
       THEN Answers(r, [a EXCEPT !.owners = {owner}, !.left = Tail(@),
                                 !.at = IF Len(a.left) = 1 THEN "writes" ELSE "asks"])
       ELSE Answers(r, NoAsk)

\* The call of the store, as the owner.
Writes(r) ==
  LET a == asks[r]
  IN
  /\ a.at = "writes" /\ Whole
  /\ \E u \in a.owners :
       \/ a.op = "patch" /\ node' = Moved(node, u, a.id, a.dest, a.name)
       \/ a.op = "trash" /\ node' = Trashed(node, u, a.id)
       \/ /\ a.op \in {"folder", "file"}
          /\ \E i \in FreshNode : node' = Created(node, u, i, a.dest, a.name, a.op)
  /\ asks' = [asks EXCEPT ![r] = NoAsk]
  /\ UNCHANGED <<grants, grantOps>>

\* The request fails or its client goes away.
Dropped(r) == asks[r].at \in {"asks", "writes"} /\ Answers(r, NoAsk)

\* The same handlers on one's own nodes: AccessFor answers "owner" whatever else goes
\* on, and the store looks again at the rest, so such a request is one step.
OwnWrite(u) ==
  /\ Whole /\ Counted
  /\ \E i \in Node :
       \/ node' = Trashed(node, u, i)
       \/ \E p \in Node, n \in Name : node' = Moved(node, u, i, p, n)
       \/ \E n \in Name, kind \in {"folder", "file"}, new \in FreshNode :
            node' = Created(node, u, new, i, n, kind)
  /\ node' # node
  /\ UNCHANGED <<grants, asks>>

\* The owner's alone; purging takes the grants with the rows.
handleRestoreNode(u, i) ==
  /\ Whole /\ Counted
  /\ node' = Restored(node, u, i) /\ node' # node
  /\ UNCHANGED <<grants, asks>>

handlePurgeNode(u, i) ==
  /\ Whole /\ Counted
  /\ node' = Purged(node, u, i) /\ node' # node
  /\ grants' = {x \in grants : node'[x.node].there}
  /\ UNCHANGED asks

GrantInit ==
  /\ TreeInit
  /\ grants = {} /\ asks = [r \in Request |-> NoAsk] /\ grantOps = 0
  /\ could = [r \in Request |-> {}]

GrantStep ==
  \/ \E u, g \in User, i \in Node, role \in Roles : handleCreateGrant(u, i, g, role)
  \/ \E u \in User, x \in grants :
       \/ handleDeleteGrant(u, x)
       \/ \E role \in Roles : handleUpdateGrant(u, x, role)
  \/ \E r \in Request, u \in User, i \in Node :
       \/ handleTrashNode(r, u, i)
       \/ \E n \in Name : handleCreateFolder(r, u, i, n) \/ handleUpload(r, u, i, n)
       \/ \E p \in Node, n \in Name : handlePatchNode(r, u, i, p, n)
  \/ \E r \in Request : ReadNode(r) \/ WriteOwnerFor(r) \/ Writes(r) \/ Dropped(r)
  \/ \E u \in User : OwnWrite(u)
  \/ \E u \in User, i \in Node : handleRestoreNode(u, i) \/ handlePurgeNode(u, i)

AskOf(r) == IF asks[r].at = "reads" THEN asks[r].ask ELSE asks[r]
Writable(u) == {i \in Node : CanWrite(AccessFor(u, i))}

GrantNext ==
  /\ GrantStep
  /\ could' = [r \in Request |-> IF asks'[r] = NoAsk THEN {}
                                 ELSE could[r] \cup Writable(AskOf(r).user)']

GrantSpec == GrantInit /\ [][GrantNext]_grantVars

(***************************************************************************)
(* Properties                                                              *)
(***************************************************************************)
\* The tables: one grant per node and grantee, given by the owner of the node to
\* somebody else.
GrantTypeOK ==
  /\ TreeTypeOK
  /\ \A x \in grants : /\ x.role \in Roles /\ node[x.node].there
                       /\ x.owner = node[x.node].owner /\ x.owner # x.grantee
  /\ \A x, y \in grants : x.node = y.node /\ x.grantee = y.grantee => x = y

\* Comparing paths gives the access the tree gives: a user has the best role of the
\* grants on the node and on the folders above it, found by following parents, and
\* a folder in the trash, or a new one in its place, lends nothing.
AccessFollowsTree ==
  \A u \in User, i \in Node : IsLive(node, i) /\ node[i].owner # u =>
    AccessFor(u, i) = BestRole({x \in grants : x.grantee = u /\ x.node \in Above(node, i)})

\* "The ONE thing that must never vary between the endpoints is what visible means":
\* the listings' predicate, their annotations, and the owner's list of who can reach
\* a node agree with AccessFor.
OneAnswer ==
  \A u \in User, i \in Node : IsLive(node, i) /\ node[i].owner # u =>
    /\ VisibleNodes(u, i) <=> AccessFor(u, i) # "none"
    /\ AccessForNodes(u, i) = AccessFor(u, i)
    /\ (\E x \in GrantsForNode(node[i].owner, i) : x.grantee = u) <=> AccessFor(u, i) # "none"

\* Access is what the grants and the tree say, whoever asks (files/grants.go).
AccessTrue == AccessFollowsTree /\ OneAnswer

\* A write reaches only nodes that the user could write to at some moment since the
\* request began, whatever was moved, trashed or revoked meanwhile; both ends of a
\* move included.
Touched(a) == {a.id, a.dest}
WritesPermitted ==
  [][\A r \in Request : (asks[r].at = "writes" /\ node' # node /\ asks'[r] = NoAsk)
                          => Touched(asks[r]) \subseteq could[r]]_grantVars
=============================================================================
