------------------------------ MODULE MCWorkers ------------------------------
(***************************************************************************)
(* Small instances of what the workers do: the queue they take jobs from,   *)
(* and the tiering sweep that is one of the jobs.  They share no state      *)
(* here, and a behaviour is about one of them.                              *)
(***************************************************************************)
EXTENDS JobQueue, TieredStore, TLC

VARIABLE subject

workersVars == <<subject, queueVars, vars>>

\* Two workers that handle both kinds.
AllKinds == [w \in Worker |-> Kind]

\* Workers are interchangeable, and so are sweeps.
WorkersSymmetry == Permutations(Worker) \cup Permutations(Sweeper)

WorkersInit == subject \in {"queue", "tiers"} /\ QueueInit /\ Init

WorkersNext ==
  \/ subject = "queue" /\ QueueNext /\ UNCHANGED <<subject, vars>>
  \/ subject = "tiers" /\ Next /\ UNCHANGED <<subject, queueVars>>

WorkersSpec == WorkersInit /\ [][WorkersNext]_workersVars
=============================================================================
