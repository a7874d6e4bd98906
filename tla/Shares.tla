------------------------------- MODULE Shares -------------------------------
(***************************************************************************)
(* Public links (server/internal/shares and its handlers): a token opens    *)
(* one file or folder of its owner to anybody, within an expiry, a cap on   *)
(* downloads and a password, while the owner goes on changing his tree.     *)
(*                                                                          *)
(* A visitor's request is several statements without a transaction.  Views  *)
(* and downloads pass the same checks; only a download is charged.          *)
(***************************************************************************)
EXTENDS SharedTree

CONSTANTS
  Sharer,       \* the users that make links
  Link, Visitor,
  Knows,        \* the visitors that know the passwords
  Caps,         \* limits on downloads a link may be given
  RelPaths,     \* the paths a visitor asks for, relative to the link
  TornPath,     \* whether the tree may change between the two reads of resolveNode
  MaxTreeOps,   \* bound on the changes of the tree in one behaviour
  MaxCount      \* bound on the downloads of a link without a cap

ASSUME SharesAssumption ==
  /\ Sharer \subseteq User /\ Knows \subseteq Visitor
  /\ Caps \subseteq Nat \ {0} /\ TornPath \in BOOLEAN /\ MaxTreeOps \in Nat /\ MaxCount \in Nat

VARIABLES
  link,         \* table shares; expired stands for expires_at and the clock, and
                \* stays FALSE of a link that never expires
  visit,        \* visit[v]: the request of a visitor
  cookies,      \* unlock proofs a visitor holds
  treeOps,
  opened,       \* history: streams opened through each link
  reach         \* history: what a visitor could reach through the link of the
                \* request since it began

shareVars == <<node, link, visit, cookies, treeOps, opened, reach>>

NoLink == [there |-> FALSE, used |-> FALSE]
Gone == [there |-> FALSE, used |-> TRUE]
NoVisit == [at |-> "idle"]

(***************************************************************************)
(* The owner                                                               *)
(***************************************************************************)
\* A file or a folder, live and the owner's; the root is the whole account.
Create(u, l, i, pw, cap) ==
  /\ link[l] = NoLink     \* a token is never given again
  /\ GetLive(node, u, i) /\ i \notin Roots
  /\ link' = [link EXCEPT ![l] = [there |-> TRUE, node |-> i, owner |-> u, pw |-> pw,
       expired |-> FALSE, cap |-> cap, count |-> 0, revoked |-> FALSE]]

handleCreateShare(u, l, i) ==
  /\ \E pw \in BOOLEAN, cap \in {{}} \cup {{c} : c \in Caps} :
       Create(u, l, i, pw, cap)
  /\ UNCHANGED <<node, visit, cookies, treeOps, opened>>

Revoke(u, l) ==
  /\ link[l].there /\ link[l].owner = u /\ ~link[l].revoked
  /\ link' = [link EXCEPT ![l].revoked = TRUE]

handleRevokeShare(u, l) ==
  /\ Revoke(u, l)
  /\ UNCHANGED <<node, visit, cookies, treeOps, opened>>

Expire(l) ==
  /\ link[l].there /\ ~link[l].expired
  /\ link' = [link EXCEPT ![l].expired = TRUE]
  /\ UNCHANGED <<node, visit, cookies, treeOps, opened>>

\* The sweep, a day after the link died.
DeleteStale(l) ==
  /\ link[l].there /\ (link[l].revoked \/ link[l].expired)
  /\ link' = [link EXCEPT ![l] = Gone]
  /\ UNCHANGED <<node, visit, cookies, treeOps, opened>>

\* shares.node_id REFERENCES nodes ON DELETE CASCADE
LinksOf(t) == [l \in Link |-> IF link[l].there /\ ~t[link[l].node].there THEN Gone ELSE link[l]]

\* The owner, or an editor in his name, changes the tree.
TreeChange(u) ==
  /\ treeOps < MaxTreeOps /\ treeOps' = treeOps + 1
  /\ TornPath \/ \A v \in Visitor : visit[v].at # "path"
  /\ \E i \in Node :
       \/ node' = Trashed(node, u, i)
       \/ node' = Restored(node, u, i)
       \/ node' = Purged(node, u, i)
       \/ \E p \in Node, n \in Name : node' = Moved(node, u, i, p, n)
       \/ \E n \in Name, new \in FreshNode : node' = Created(node, u, new, i, n, "file")
  /\ node' # node
  /\ link' = LinksOf(node')
  /\ UNCHANGED <<visit, cookies, opened>>

(***************************************************************************)
(* The visitor                                                             *)
(***************************************************************************)
\* checkValidity on the row of lookup: not revoked, not expired, not spent.
checkValidity(row) ==
  /\ row.there /\ ~row.revoked /\ ~row.expired
  /\ \A c \in row.cap : row.count < c

Visits(v, next) ==
  /\ visit' = [visit EXCEPT ![v] = next]
  /\ UNCHANGED <<node, link, cookies, treeOps, opened>>

\* The proof is an HMAC of the id under the key of the row, for who knows the password.
Unlock(v, l) ==
  /\ checkValidity(link[l])
  /\ link[l].pw /\ v \in Knows    \* without a password there is nothing to prove
  /\ cookies' = cookies \cup {<<v, l>>}

\* The answer sets the proof as a cookie.
handleShareUnlock(v, l) ==
  /\ Unlock(v, l)
  /\ UNCHANGED <<node, link, visit, treeOps, opened>>

validUnlock(v, l) == <<v, l>> \in cookies

\* OpenContent, and View up to its answer: the row is read once.
OpenContent(v, l, rel) ==
  /\ checkValidity(link[l]) /\ link[l].count < MaxCount
  /\ link[l].pw => validUnlock(v, l)
  /\ Visits(v, [at |-> "root", link |-> l, owner |-> link[l].owner, shared |-> link[l].node,
                rel |-> rel])

\* A view and a download begin alike.
handleShareContent(v, l, rel) == visit[v] = NoVisit /\ OpenContent(v, l, rel)

\* resolveNode: the shared node must be live; a file has no sub-paths.
ResolveRoot(v) ==
  LET r == visit[v]
      i == r.shared
  IN
  /\ r.at = "root"
  /\ IF ~GetLive(node, r.owner, i) THEN Visits(v, NoVisit)
     ELSE IF r.rel = <<>> THEN Visits(v, [at |-> "charge", link |-> r.link, owner |-> r.owner, id |-> i,
                                            file |-> node[i].kind = "file"])
     ELSE IF node[i].kind # "folder" THEN Visits(v, NoVisit)
     ELSE Visits(v, [at |-> "path", link |-> r.link, owner |-> r.owner, rel |-> r.rel,
                     root |-> node[i].path])

\* path.Join: ".." takes the last name away, and nothing of the root.
Join(root, rel) ==
  FoldLeft(LAMBDA p, n : IF n # ".." THEN Append(p, n) ELSE IF p = <<>> THEN p ELSE Front(p), root, rel)

\* Mutant: anything of the owner's.
OwnersOwn(root, path) == TRUE

\* node.Path = root.Path or below root.Path + "/"
Confined(root, path) == Covers(root, path)

\* GetByPath of the owner, and the confinement to the path read before.
ResolvePath(v) ==
  LET r == visit[v]
      found == {i \in Node : /\ GetLive(node, r.owner, i) /\ node[i].path = Join(r.root, r.rel)
                             /\ Confined(r.root, node[i].path)}
  IN
  /\ r.at = "path"
  /\ IF found = {} THEN Visits(v, NoVisit)
     ELSE \E i \in found : Visits(v, [at |-> "charge", link |-> r.link, owner |-> r.owner, id |-> i,
                                      file |-> node[i].kind = "file"])

\* A view, and a download of a folder, end here.
View(v) == visit[v].at = "charge" /\ Visits(v, NoVisit)

\* Mutant: the cap is left to checkValidity.
ChargesBlindly(row) == row.there /\ ~row.revoked /\ ~row.expired

\* The WHERE of the UPDATE.
Chargeable(row) ==
  /\ row.there /\ ~row.revoked /\ ~row.expired
  /\ \A c \in row.cap : row.count < c

\* One statement checks and counts.
TryIncrementDownload(v) ==
  LET r == visit[v]
  IN
  /\ r.at = "charge" /\ r.file
  /\ IF Chargeable(link[r.link])
       THEN /\ link' = [link EXCEPT ![r.link].count = @ + 1]
            /\ visit' = [visit EXCEPT ![v].at = "open"]
            /\ UNCHANGED <<node, cookies, treeOps, opened>>
       ELSE Visits(v, NoVisit)

\* files.Open: the node again, by its id; the stream is a version that never changes.
Open(v) ==
  LET r == visit[v]
  IN
  /\ r.at = "open"
  /\ visit' = [visit EXCEPT ![v] = NoVisit]
  /\ opened' = IF GetLive(node, r.owner, r.id) /\ node[r.id].kind = "file"
                 THEN [opened EXCEPT ![r.link] = @ + 1] ELSE opened
  /\ UNCHANGED <<node, link, cookies, treeOps>>

ShareInit ==
  /\ TreeInit
  /\ link = [l \in Link |-> NoLink] /\ visit = [v \in Visitor |-> NoVisit]
  /\ cookies = {} /\ treeOps = 0
  /\ opened = [l \in Link |-> 0] /\ reach = [v \in Visitor |-> {}]

ShareStep ==
  \/ \E u \in Sharer, l \in Link : handleRevokeShare(u, l) \/ \E i \in Node : handleCreateShare(u, l, i)
  \/ \E l \in Link : Expire(l) \/ DeleteStale(l)
  \/ \E u \in Sharer : TreeChange(u)
  \/ \E v \in Visitor, l \in Link : handleShareUnlock(v, l) \/ \E rel \in RelPaths : handleShareContent(v, l, rel)
  \/ \E v \in Visitor : \/ ResolveRoot(v) \/ ResolvePath(v) \/ View(v)
                        \/ TryIncrementDownload(v) \/ Open(v)

\* What the link opens to this visitor now: the live rows at and below its node.
Reachable(v, l) ==
  IF link[l].there /\ ~link[l].revoked /\ ~link[l].expired /\ (link[l].pw => v \in Knows)
    THEN {i \in Node : IsLive(node, i) /\ link[l].node \in Above(node, i)}
    ELSE {}

ShareNext ==
  /\ ShareStep
  /\ reach' = [v \in Visitor |-> IF visit'[v] = NoVisit THEN {}
                                 ELSE reach[v] \cup Reachable(v, visit[v].link)']

ShareSpec == ShareInit /\ [][ShareNext]_shareVars

(***************************************************************************)
(* Properties                                                              *)
(***************************************************************************)
\* The tables: a link has a node of its owner's.
ShareTypeOK ==
  /\ TreeTypeOK
  /\ \A l \in Link : link[l].there =>
       node[link[l].node].there /\ node[link[l].node].owner = link[l].owner

\* However many visitors race for the last download, no more streams are opened
\* than the link allows, and every one of them is counted.
CapHolds ==
  \A l \in Link : link[l].there =>
    opened[l] <= link[l].count /\ \A c \in link[l].cap : link[l].count <= c

\* A visitor is served only what was live, at or below the shared node along the
\* parents, through a link neither revoked nor expired and with a password that he
\* knows, at some moment since his request began: no relative path, and no move,
\* deletion or revocation between two of its statements, opens anything else.
ServesReachable ==
  [][\A v \in Visitor : (visit[v].at = "open" /\ opened' # opened /\ visit'[v] = NoVisit)
                          => visit[v].id \in reach[v]]_shareVars
=============================================================================
