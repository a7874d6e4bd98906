----------------------------- MODULE Selective -----------------------------
(***************************************************************************)
(* Selective sync of one device (client engine/selective.go, and the parts  *)
(* of engine.go, pull.go and push.go that ask what is excluded).  A folder  *)
(* can be declined and taken back while the device syncs: the control       *)
(* socket swaps the set, the sync loop reads it for every node.  A pass is  *)
(* prune, pull, walk, deletions; transfers are the subject of SyncClient    *)
(* and Delta, here each is a step.  Contents are numbers, 0 is none.        *)
(***************************************************************************)
EXTENDS Naturals

CONSTANTS
  Path,        \* files of the device
  Within,      \* the ones in the folder that is declined and taken back
  Mishaps,     \* what may happen besides, see below
  Seed,        \* does the configuration list the folder now?
  MaxChanges, MaxChoices

\* "untracked": files that the device does not track are in the folder when the choice
\* changes; "late": an edit falls between the look and the removal of a prune; "cut": a
\* prune ends between the removal of files and of their entries; "toggle": a choice is
\* taken back within a pass.
ASSUME SelectiveAssumption ==
  /\ Within \subseteq Path /\ Seed \in BOOLEAN
  /\ Mishaps \subseteq {"untracked", "late", "cut", "toggle"}
  /\ MaxChanges \in Nat /\ MaxChoices \in Nat

VARIABLES
  head,        \* what the server has under each path
  sent,        \* history: contents that the server has, or has in a file's versions
  fresh,       \* paths with a change after the cursor of the device
  onDisk,      \* what the device has under each path
  setAside,    \* and the conflict copies of it
  tracked,     \* the state database: the content that was last in step
  excludes, saved,  \* the choice in memory and in the state database
  engine,      \* where the pass is
  dropped,     \* history: paths whose file the user has removed from the device
  changes, choices

selectiveVars == <<head, sent, fresh, onDisk, setAside, tracked, excludes, saved, engine,
                   dropped, changes, choices>>
server == <<head, sent, fresh>>
localState == <<onDisk, setAside, tracked>>
choice == <<excludes, saved>>
bounds == <<changes, choices>>

May(mishap) == mishap \in Mishaps
Excluded(f) == excludes /\ f \in Within
Untracked == {f \in Within : onDisk[f] # 0 /\ tracked[f] = 0}
Modified(f) == onDisk[f] # 0 /\ tracked[f] # 0 /\ onDisk[f] # tracked[f]

(***************************************************************************)
(* The user, the other devices, and the control socket                     *)
(***************************************************************************)
\* Every change makes a content of its own; those of the start are less than 10.
Content == changes + 10
Changes == changes < MaxChanges /\ changes' = changes + 1 /\ UNCHANGED choices

EditCopy(f) ==
  /\ Changes
  /\ May("untracked") \/ (tracked[f] # 0 /\ onDisk[f] # 0)
  /\ May("late") \/ f \notin Within \/ engine.step # "remove"
  /\ onDisk' = [onDisk EXCEPT ![f] = Content]
  /\ UNCHANGED <<server, setAside, tracked, choice, engine, dropped>>

RemoveFile(f) ==
  /\ onDisk[f] # 0 /\ Changes
  /\ onDisk' = [onDisk EXCEPT ![f] = 0]
  /\ dropped' = dropped \cup {f}
  /\ UNCHANGED <<server, setAside, tracked, choice, engine>>

RemoteWrite(f) ==
  /\ Changes
  /\ head' = [head EXCEPT ![f] = Content]
  /\ sent' = sent \cup {Content} /\ fresh' = fresh \cup {f}
  /\ UNCHANGED <<localState, choice, engine, dropped>>

\* pcsync exclude add and remove: the set is replaced, and saved.
SetExcludes(b) ==
  /\ b # excludes /\ choices < MaxChoices
  /\ May("untracked") \/ (Untracked = {} /\ \A f \in Within : setAside[f] = {})
  /\ May("toggle") \/ b \/ engine.step = "idle"
  /\ excludes' = b /\ saved' = b
  /\ choices' = choices + 1
  /\ UNCHANGED <<server, localState, engine, dropped, changes>>

\* What was saved is loaded; the list in the configuration is then neither used nor saved.
SeedExcludes == saved

StartEngine ==
  /\ Changes
  /\ May("cut") \/ engine.step # "forget"
  /\ engine' = [step |-> "idle"]
  /\ excludes' = SeedExcludes
  /\ UNCHANGED <<server, localState, saved, dropped>>

(***************************************************************************)
(* A pass: prune                                                           *)
(***************************************************************************)
GoesOn(s) == engine' = s

\* Wrong: any local copy will come back from the server.
NeverDirty == FALSE

\* A tracked file of the folder that is not what was last in step.
Dirty == \E f \in Within : Modified(f)

\* The set is read once, and the entries are looked at one after the other.
pruneExcluded ==
  /\ engine.step = "idle"
  /\ GoesOn([step |-> IF ~excludes \/ \A f \in Within : tracked[f] = 0 THEN "begin"
                      ELSE IF Dirty THEN "forget" ELSE "remove"])
  /\ UNCHANGED <<server, localState, choice, dropped, bounds>>

\* os.RemoveAll takes what is in the folder, whatever it is; or a part of it, and the
\* pass ends.
RemoveAll ==
  /\ engine.step = "remove"
  /\ \/ /\ onDisk' = [f \in Path |-> IF f \in Within THEN 0 ELSE onDisk[f]]
        /\ setAside' = [f \in Path |-> IF f \in Within THEN {} ELSE setAside[f]]
        /\ GoesOn([step |-> "forget"])
     \/ /\ May("cut")
        /\ \E part \in SUBSET Within :
             onDisk' = [f \in Path |-> IF f \in part THEN 0 ELSE onDisk[f]]
        /\ UNCHANGED setAside /\ GoesOn([step |-> "idle"])
  /\ UNCHANGED <<server, tracked, choice, dropped, bounds>>

\* Wrong: keeps the entries of what it has kept on disk.
ForgetsAbsent(f) == f \in Within /\ onDisk[f] = 0

Forgettable(f) == f \in Within

forgetSubtree ==
  /\ engine.step = "forget"
  /\ tracked' = [f \in Path |-> IF Forgettable(f) THEN 0 ELSE tracked[f]]
  /\ GoesOn([step |-> "begin"])
  /\ UNCHANGED <<server, onDisk, setAside, choice, dropped, bounds>>

(***************************************************************************)
(* Pull                                                                    *)
(***************************************************************************)
\* Nothing tracked is a device that has never synced, which walks the whole tree;
\* otherwise the journal is replayed from the cursor.
BeginPull ==
  /\ engine.step = "begin"
  /\ GoesOn([step |-> "pull", todo |-> IF \A f \in Path : tracked[f] = 0
                                       THEN {f \in Path : head[f] # 0} ELSE fresh])
  /\ UNCHANGED <<server, localState, choice, dropped, bounds>>

\* A file that has changed on both sides is set aside; one that was removed here but
\* has changed there comes back.
PullDown(f) ==
  /\ setAside' = [setAside EXCEPT ![f] = IF Modified(f) THEN @ \cup {onDisk[f]} ELSE @]
  /\ onDisk' = [onDisk EXCEPT ![f] = head[f]]
  /\ tracked' = [tracked EXCEPT ![f] = head[f]]
  /\ dropped' = dropped \ {f}

applyChange(f) ==
  /\ engine.step = "pull" /\ f \in engine.todo
  /\ \/ /\ ~Excluded(f) /\ head[f] # 0 /\ (tracked[f] = head[f] => onDisk[f] = 0)
        /\ PullDown(f)
     \/ /\ Excluded(f) \/ head[f] = 0 \/ (tracked[f] = head[f] /\ onDisk[f] # 0)
        /\ UNCHANGED <<localState, dropped>>
  /\ GoesOn([engine EXCEPT !.todo = @ \ {f}])
  /\ fresh' = fresh \ {f}
  /\ UNCHANGED <<head, sent, choice, bounds>>

EndPull ==
  /\ engine.step = "pull" /\ engine.todo = {}
  /\ GoesOn([step |-> "walk", todo |-> Path, seen |-> {}])
  /\ UNCHANGED <<server, localState, choice, dropped, bounds>>

(***************************************************************************)
(* Push                                                                    *)
(***************************************************************************)
\* What is new or changed is sent, and conflict copies as files of their own.
Sends(f) ==
  LET new == onDisk[f] # 0 /\ onDisk[f] # tracked[f] IN
    /\ head' = [head EXCEPT ![f] = IF new THEN onDisk[f] ELSE @]
    /\ tracked' = [tracked EXCEPT ![f] = IF new THEN onDisk[f] ELSE @]
    /\ fresh' = IF new THEN fresh \cup {f} ELSE fresh
    /\ sent' = sent \cup setAside[f] \cup (IF new THEN {onDisk[f]} ELSE {})
    /\ setAside' = [setAside EXCEPT ![f] = {}]

\* A path that is excluded is not walked, and so not seen.
pushExisting(f) ==
  /\ engine.step = "walk" /\ f \in engine.todo
  /\ \/ /\ ~Excluded(f) /\ Sends(f)
        /\ GoesOn([engine EXCEPT !.todo = @ \ {f},
                                 !.seen = IF onDisk[f] # 0 THEN @ \cup {f} ELSE @])
     \/ /\ Excluded(f)
        /\ UNCHANGED <<server, tracked, setAside>>
        /\ GoesOn([engine EXCEPT !.todo = @ \ {f}])
  /\ UNCHANGED <<onDisk, choice, dropped, bounds>>

EndWalk ==
  /\ engine.step = "walk" /\ engine.todo = {}
  /\ GoesOn([step |-> "delete",
             todo |-> {f \in Path : tracked[f] # 0} \ engine.seen])
  /\ UNCHANGED <<server, localState, choice, dropped, bounds>>

\* Wrong: what the walk has not seen is gone.
TrashesUnseen(f) == TRUE

Trashable(f) == ~Excluded(f)

\* Asks once more what is excluded.
pushDeletions(f) ==
  /\ engine.step = "delete" /\ f \in engine.todo
  /\ \/ /\ Trashable(f)
        /\ head' = [head EXCEPT ![f] = 0]
        /\ tracked' = [tracked EXCEPT ![f] = 0]
        /\ fresh' = fresh \ {f} /\ dropped' = dropped \ {f}
     \/ /\ ~Trashable(f)
        /\ UNCHANGED <<head, tracked, fresh, dropped>>
  /\ GoesOn([engine EXCEPT !.todo = @ \ {f}])
  /\ UNCHANGED <<sent, onDisk, setAside, choice, bounds>>

EndPass ==
  /\ engine.step = "delete" /\ engine.todo = {}
  /\ GoesOn([step |-> "idle"])
  /\ UNCHANGED <<server, localState, choice, dropped, bounds>>

-----------------------------------------------------------------------------
\* A device in step with the server; a path may be one that nothing has yet.
SelectiveInit ==
  /\ head \in [Path -> 0 .. 9] /\ \A f, g \in Path : f # g => head[f] = 0 \/ head[f] # head[g]
  /\ sent = {head[f] : f \in Path} \ {0} /\ fresh = {}
  /\ onDisk = head /\ tracked = head /\ setAside = [f \in Path |-> {}]
  /\ excludes = FALSE /\ saved = FALSE
  /\ engine = [step |-> "idle"]
  /\ dropped = {} /\ changes = 0 /\ choices = 0

SyncPass ==
  \/ pruneExcluded \/ RemoveAll \/ forgetSubtree
  \/ BeginPull \/ (\E f \in Path : applyChange(f)) \/ EndPull
  \/ (\E f \in Path : pushExisting(f)) \/ EndWalk
  \/ (\E f \in Path : pushDeletions(f)) \/ EndPass

SelectiveNext ==
  \/ \E f \in Path : EditCopy(f) \/ RemoveFile(f) \/ RemoteWrite(f)
  \/ \E b \in BOOLEAN : SetExcludes(b)
  \/ StartEngine \/ SyncPass

\* The daemon passes again and again, on its ticker.
SelectiveFairness == WF_selectiveVars(SyncPass)
SelectiveSpec == SelectiveInit /\ [][SelectiveNext]_selectiveVars /\ SelectiveFairness

-----------------------------------------------------------------------------
\* Types, and: what is tracked was on the server, and the choice in memory is the one that
\* a restart finds (engine/selective.go, SetExcludes, SeedExcludes).
SelectiveTypeOK ==
  /\ fresh \subseteq Path /\ dropped \subseteq Path
  /\ \A f \in Path : tracked[f] # 0 => tracked[f] \in sent
  /\ excludes = saved

\* The device never takes away the only copy of what its user wrote: what is on its disk
\* and not on the server stays on one of them through every step of a pass, also through
\* the removal of a folder that is declined (engine/selective.go, pruneExcluded).
Stays(disk, set, have) == {disk[f] : f \in Path} \cup (UNION {set[f] : f \in Path}) \cup have
UnsentKept ==
  [][SyncPass => Stays(onDisk, setAside, sent) \ {0}
                   \subseteq Stays(onDisk', setAside', sent')]_selectiveVars

\* The device removes from the server only what its user has removed from the device: a
\* folder that is declined, in the middle of a pass or before one, is never missed there
\* (engine/push.go, pushDeletions).
OnlyTheUsersRemovals ==
  [][\A f \in Path : head[f] # 0 /\ head'[f] = 0 => f \in dropped]_selectiveVars

\* A folder that stays declined comes to be forgotten, whether or not its files could be
\* removed, and the user's later edits to them stay off the server
\* (engine/selective.go, pruneExcluded, forgetSubtree).
DeclinedIsForgotten == <>[](excludes => \A f \in Within : tracked[f] = 0)
=============================================================================
