------------------------------- MODULE Update -------------------------------
(***************************************************************************)
(* The client updating itself (client internal/update and                   *)
(* cmd/pcsync/update.go).  The resident daemon, and whoever runs            *)
(* `pcsync update -apply`, read the release feed, verify the signed         *)
(* checksums, download the artifact and put it in place of the binary that  *)
(* the service manager starts.  Each fetch and each rename is a step; a     *)
(* process may die between any two.  A release is its number, 0 a build     *)
(* whose version is no release tag.                                         *)
(***************************************************************************)
EXTENDS Integers

CONSTANTS
  Release,       \* numbers of the releases published, an interval from 1
  Runner,        \* processes that update: "daemon" and "cli"
  Together,      \* may two of them update at the same time?
  MaxDeaths      \* bound on processes that die, downloads that fail, releases withdrawn

ASSUME UpdateAssumption ==
  /\ Release \subseteq Nat \ {0} /\ 1 \in Release /\ Runner \subseteq {"daemon", "cli"}
  /\ Together \in BOOLEAN /\ MaxDeaths \in Nat

VARIABLES
  windows, AllowDowngrade,   \* the platform; the setting
  feed,          \* the release the feed names
  target,        \* the binary at the path: a release, NoBinary or Damaged
  aside,         \* <target>.old
  running,       \* the release each process runs, NoBinary if it could not start
  step,          \* how far its update is
  deaths

updateVars == <<windows, AllowDowngrade, feed, target, aside, running, step, deaths>>
diskVars == <<target, aside>>
settings == <<windows, AllowDowngrade>>

Dev == 0
NoBinary == -1
Damaged == -2
NotBusy == [at |-> "idle"]

\* A version that is no release tag is not comparable, and never newer.
Newer(current, candidate) == current # Dev /\ candidate # Dev /\ candidate > current

Comparable(current, candidate) == current # Dev /\ candidate # Dev

(***************************************************************************)
(* One update                                                              *)
(***************************************************************************)
At(p, a) == step[p].at = a
Advances(p, s) == step' = [step EXCEPT ![p] = s]
Abandons(p) == Advances(p, NotBusy)

\* The daemon goes on only with a newer release; the command, a new process started from
\* the path, tries what it is told to.
Check(p) ==
  /\ At(p, "idle") /\ running[p] # NoBinary
  /\ Together \/ \A q \in Runner : At(q, "idle") \/ At(q, "done")
  /\ p = "daemon" => Newer(running[p], feed)
  /\ p = "cli" => running[p] = target /\ target # feed
  /\ Advances(p, [at |-> "checked", release |-> feed])
  /\ UNCHANGED <<settings, feed, diskVars, running, deaths>>

Permitted(p, v) ==
  AllowDowngrade \/ (Comparable(running[p], v) /\ Newer(running[p], v))

\* The checksums, their signature and its certificate; what fails a check ends the update.
Apply(p) ==
  /\ At(p, "checked")
  /\ \/ Permitted(p, step[p].release) /\ Advances(p, [step[p] EXCEPT !.at = "verified"])
     \/ ~Permitted(p, step[p].release) /\ Abandons(p)
  /\ UNCHANGED <<settings, feed, diskVars, running, deaths>>

\* The staged file, if its digest is the one in the signed checksums.
Digested(p, got) == IF got = step[p].release THEN got ELSE NoBinary

\* The artifact arrives whole, or not.
download(p) ==
  /\ At(p, "verified")
  /\ \E got \in {step[p].release} \cup (IF deaths < MaxDeaths THEN {Damaged} ELSE {}) :
       /\ deaths' = IF got = Damaged THEN deaths + 1 ELSE deaths
       /\ Advances(p, IF Digested(p, got) = NoBinary THEN NotBusy
                  ELSE [at |-> "staged", release |-> step[p].release, file |-> got])
  /\ UNCHANGED <<settings, feed, diskVars, running>>

Installed(p) == /\ target' = step[p].file
                /\ Advances(p, [at |-> "done"])

\* One rename(2) over the old binary.
RenameOver(p) ==
  /\ At(p, "staged") /\ ~windows
  /\ Installed(p)
  /\ UNCHANGED <<settings, feed, aside, running, deaths>>

\* Windows does not remove or replace the file that a live process was started from.
Locked == \E p \in Runner : /\ p = "daemon" \/ ~At(p, "idle")
                            /\ aside # NoBinary /\ running[p] = aside

\* Windows: the leftover is removed and the running binary moved aside ...
MoveAside(p) ==
  /\ At(p, "staged") /\ windows
  /\ \/ /\ target # NoBinary /\ ~Locked
        /\ aside' = target /\ target' = NoBinary
        /\ Advances(p, [step[p] EXCEPT !.at = "aside"])
     \/ /\ target = NoBinary \/ Locked
        /\ aside' = IF Locked THEN aside ELSE NoBinary
        /\ UNCHANGED target
        /\ Abandons(p)
  /\ UNCHANGED <<settings, feed, running, deaths>>

\* Wrong: what was moved aside is not put back.
LeavesAside(p) ==
  /\ At(p, "aside") /\ deaths < MaxDeaths
  /\ deaths' = deaths + 1
  /\ aside' = NoBinary
  /\ Abandons(p)
  /\ UNCHANGED <<settings, feed, target, running>>

\* ... and if the new one cannot take its place, the old one is put back,
PutBack(p) ==
  /\ At(p, "aside") /\ deaths < MaxDeaths
  /\ deaths' = deaths + 1
  /\ target' = IF aside # NoBinary THEN aside ELSE target
  /\ aside' = NoBinary
  /\ Abandons(p)
  /\ UNCHANGED <<settings, feed, running>>

\* or else it takes it, and the old one is removed if it is not locked.
PutInPlace(p) ==
  /\ At(p, "aside")
  /\ Installed(p)
  /\ aside' = IF Locked THEN aside ELSE NoBinary
  /\ UNCHANGED <<settings, feed, running, deaths>>

replaceBinary(p) == RenameOver(p) \/ MoveAside(p) \/ PutBack(p) \/ PutInPlace(p)

\* Wrong: goes on with the build that is running.
StaysUp(p) ==
  /\ At(p, "done")
  /\ Advances(p, NotBusy)
  /\ UNCHANGED <<settings, feed, diskVars, running, deaths>>

\* The daemon exits with status 70 and its service manager starts what is at the path;
\* the command's next invocation runs it.
autoUpdate(p) ==
  /\ At(p, "done")
  /\ Advances(p, NotBusy)
  /\ running' = [running EXCEPT ![p] = target]
  /\ UNCHANGED <<settings, feed, diskVars, deaths>>

StartAgain(p) ==
  /\ At(p, "idle") /\ running[p] # target
  /\ running' = [running EXCEPT ![p] = target]
  /\ UNCHANGED <<settings, feed, diskVars, step, deaths>>

(***************************************************************************)
(* Releases and deaths                                                     *)
(***************************************************************************)
Publish ==
  /\ feed + 1 \in Release
  /\ feed' = feed + 1
  /\ UNCHANGED <<settings, diskVars, running, step, deaths>>

\* The feed names an earlier release again.
Withdraw ==
  /\ deaths < MaxDeaths /\ deaths' = deaths + 1
  /\ feed - 1 \in Release
  /\ feed' = feed - 1
  /\ UNCHANGED <<settings, diskVars, running, step>>

\* The process dies where it is, and what it staged stays behind unused.
Die(p) ==
  /\ deaths < MaxDeaths /\ deaths' = deaths + 1
  /\ ~At(p, "idle")
  /\ Advances(p, NotBusy)
  /\ running' = [running EXCEPT ![p] = target]
  /\ UNCHANGED <<settings, feed, diskVars>>

-----------------------------------------------------------------------------
UpdateInit ==
  /\ windows \in BOOLEAN /\ AllowDowngrade \in BOOLEAN
  /\ feed = 1
  /\ target \in {Dev, 1} /\ aside = NoBinary
  /\ running = [p \in Runner |-> target]
  /\ step = [p \in Runner |-> NotBusy]
  /\ deaths = 0

Updates(p) == Check(p) \/ Apply(p) \/ download(p) \/ replaceBinary(p) \/ autoUpdate(p)

UpdateNext ==
  \/ \E p \in Runner : Updates(p) \/ StartAgain(p) \/ Die(p)
  \/ Publish \/ Withdraw

\* The daemon checks on its timer, and its service manager starts it again; a command that
\* was started ends, for it has a timeout of ten minutes, and nobody keeps starting it so
\* that the timer never falls between two.
UpdateFairness ==
  /\ SF_updateVars(Updates("daemon"))
  /\ \A p \in Runner : WF_updateVars(~At(p, "idle") /\ Updates(p))

UpdateSpec == UpdateInit /\ [][UpdateNext]_updateVars /\ UpdateFairness

-----------------------------------------------------------------------------
Build == Release \cup {Dev}

\* Types, and: what is staged is the release whose checksums were verified
\* (update.go, download).
UpdateTypeOK ==
  /\ feed \in Release
  /\ target \in Build \cup {NoBinary, Damaged} /\ aside \in Build \cup {NoBinary}
  /\ running \in [Runner -> Build \cup {NoBinary, Damaged}]
  /\ \A p \in Runner :
       /\ step[p].at \in {"checked", "verified", "staged", "aside"} => step[p].release \in Release
       /\ step[p].at \in {"staged", "aside"} => step[p].file = step[p].release

\* The path always holds a whole binary that was built here or verified, except on Windows
\* between the two renames, and then the binary moved aside is still there: whatever
\* dies, an administrator finds one to put back (replace.go, replaceBinary).
BinaryAtHand ==
  /\ target # Damaged
  /\ target = NoBinary => windows /\ aside # NoBinary

\* The daemon does not come back as an older release than it was, not even when the feed
\* names one and somebody runs the command, unless the setting allows it: an update
\* checks against the build that runs it, and replaces a file (update.go, Apply).
NeverOlder ==
  [][running["daemon"] >= Dev /\ running'["daemon"] >= Dev /\ ~AllowDowngrade
       => running'["daemon"] >= running["daemon"]]_updateVars

\* The daemon of a release build comes to run the newest release, whatever dies on the
\* way, unless it is left without a binary, or on Windows another process moved the one it
\* runs aside, which then blocks every update until the daemon is restarted
\* (cmd/pcsync/update.go, autoUpdate).
NewestRuns ==
  <>[](\/ running["daemon"] >= feed \/ running["daemon"] \in {Dev, NoBinary, Damaged}
       \/ running["daemon"] = aside)
=============================================================================
