------------------------------ MODULE JobQueue ------------------------------
(***************************************************************************)
(* The Postgres job queue and the indexing pipeline that it drives.        *)
(*                                                                         *)
(* A stored file is followed by an Enqueue of an "extract" job; a worker   *)
(* claims a row, opens the file's head content, stores the text under the  *)
(* content's hash, enqueues an "embed" job and reports the outcome.  Text  *)
(* and vectors are content addressed, so they are sets of <<node, content  *)
(* number>>.  Times are flags that an action of their own raises: due      *)
(* (run_after has passed), lapsed (claimed_at is older than the lease) and *)
(* old (created_at is older than the ttl of queued jobs).  All nodes       *)
(* belong to one owner, so the owner's cap counts every queued row.        *)
(***************************************************************************)
EXTENDS Integers, FiniteSets

CONSTANTS
  Id,           \* job ids (uuids)
  Node,         \* files
  Worker,       \* pcworker processes
  Client,       \* API requests that store a file
  Registered,   \* Registered[w]: the kinds that worker w has a handler for
  Semantic,     \* TRUE: extraction is chained to embedding
  MaxAttempts,  \* defaultMaxAttempts
  OwnerQueueCap,
  Lapse,        \* TRUE: a handler may outlive its lease
  Overlap,      \* TRUE: a file may be edited while a job for it is running
  Prunes,       \* TRUE: the hourly prune runs
  MaxEdits,     \* bound: edits of one file
  MaxOps        \* bound: SIGTERMs and cloudctl commands

Kind == {"extract", "embed"}

ASSUME QueueAssumption == /\ MaxAttempts \in Nat \ {0}
                          /\ OwnerQueueCap \in Nat /\ MaxEdits \in Nat
                          /\ MaxOps \in Nat /\ Node # {} /\ Id # {}
ASSUME ModeAssumption == /\ Registered \in [Worker -> SUBSET Kind]
                         /\ {Semantic, Lapse, Overlap, Prunes} \subseteq BOOLEAN

VARIABLES
  head,     \* head[n]: number of n's head content; 0 not stored yet, or Purged
  text,     \* contents whose text is in doc_text
  vectors,  \* contents in doc_embedding
  job,      \* job[j]: the row of table jobs with id j
  worker,   \* worker[w]: where the runner of w stands
  client,   \* client[c]: where the enqueue of request c stands
  cli,      \* outcome of the last cloudctl jobs retry
  ops,      \* SIGTERMs and cloudctl commands so far
  shed      \* history: files whose extraction the queue's own limits dropped

queueVars == <<head, text, vectors, job, worker, client, cli, ops, shed>>

-----------------------------------------------------------------------------
Purged == -1

\* State "none": there is no such row.
JobRow == [state : {"none", "queued", "running", "done", "failed"},
           kind : Kind, node : Node, attempts : Nat, due : BOOLEAN,
           lapsed : BOOLEAN, old : BOOLEAN, tried : BOOLEAN]
NoJob == [state |-> "none", kind |-> "extract", node |-> CHOOSE n \in Node : TRUE,
          attempts |-> 0, due |-> TRUE, lapsed |-> FALSE, old |-> FALSE,
          tried |-> FALSE]

HandlerPc == {"open", "work", "check", "insert", "done", "fail"}
WorkerRun == [pc : {"idle", "term", "stopped"} \cup HandlerPc, id : Id,
              kind : Kind, node : Node, content : Nat]
IdleWorker == [pc |-> "idle", id |-> CHOOSE j \in Id : TRUE, kind |-> "extract",
               node |-> CHOOSE n \in Node : TRUE, content |-> 0]

ClientRun == [pc : {"idle", "check", "insert"}, node : Node]
IdleClient == [pc |-> "idle", node |-> CHOOSE n \in Node : TRUE]

QueueTypeOK ==
  /\ head \in [Node -> Nat \cup {Purged}]
  /\ text \subseteq Node \X Nat
  /\ vectors \subseteq Node \X Nat
  /\ job \in [Id -> JobRow]
  /\ \A j \in Id : /\ job[j].attempts <= MaxAttempts
                   /\ job[j].state = "queued" => job[j].attempts < MaxAttempts
  /\ worker \in [Worker -> WorkerRun]
  /\ client \in [Client -> ClientRun]
  /\ cli \in {"ok", "error"}
  /\ ops \in 0..MaxOps
  /\ shed \subseteq Node

QueueInit ==
  /\ head = [n \in Node |-> 0]
  /\ text = {} /\ vectors = {}
  /\ job = [j \in Id |-> NoJob]
  /\ worker = [w \in Worker |-> IdleWorker]
  /\ client = [c \in Client |-> IdleClient]
  /\ cli = "ok"
  /\ ops = 0
  /\ shed = {}

-----------------------------------------------------------------------------
(* Rows                                                                    *)

IsPending(r) == r.state \in {"queued", "running"}
Exists(r) == r.state # "none"
For(r, k, n) == r.kind = k /\ r.node = n
PendingFor(k, n) == \E j \in Id : IsPending(job[j]) /\ For(job[j], k, n)

\* jobs_pending_unique, as a property of a whole table.
UniquePending(table) ==
  \A i, j \in Id : /\ i # j /\ IsPending(table[i]) /\ IsPending(table[j])
                   => ~For(table[i], table[j].kind, table[j].node)

\* A uuid is never used twice; one that no row has and no worker remembers is as
\* good as new.  Such ids are alike, so an insert may as well take a chosen one.
Remembered(j) == \E w \in Worker : worker[w].pc # "idle" /\ worker[w].id = j
Fresh == {j \in Id : job[j].state = "none" /\ ~Remembered(j)}
NewId == CHOOSE j \in Fresh : TRUE
QueuedRow(k, n) == [NoJob EXCEPT !.state = "queued", !.kind = k, !.node = n]

\* CASE WHEN attempts >= max_attempts THEN 'failed' ELSE 'queued' END
Spent(r) == IF r.attempts >= MaxAttempts THEN "failed" ELSE "queued"

Holds(w, j) == worker[w].pc \in HandlerPc /\ worker[w].id = j

-----------------------------------------------------------------------------
(* Enqueue                                                                 *)

\* The first statement of Enqueue: the owner's queued rows against the cap.
QueueFull == Cardinality({j \in Id : job[j].state = "queued"}) >= OwnerQueueCap

\* Wrong: a unique index without its WHERE clause.
Inserted_OncePerFile(k, n) ==
  IF head[n] = Purged \/ \E j \in Id : Exists(job[j]) /\ For(job[j], k, n)
    THEN UNCHANGED job
    ELSE Fresh # {} /\ job' = [job EXCEPT ![NewId] = QueuedRow(k, n)]

\* The second: INSERT ... ON CONFLICT DO NOTHING; the foreign key refuses a job
\* for a file that is gone (callers log the error).
Inserted(k, n) ==
  IF head[n] = Purged \/ PendingFor(k, n)
    THEN UNCHANGED job
    ELSE Fresh # {} /\ job' = [job EXCEPT ![NewId] = QueuedRow(k, n)]

\* A request commits a new head and then schedules extraction.
Edit(c, n) ==
  /\ client[c].pc = "idle"
  /\ head[n] \in 0..(MaxEdits - 1)
  /\ Overlap \/ \A j \in Id : job[j].node = n => job[j].state # "running"
  /\ head' = [head EXCEPT ![n] = @ + 1]
  /\ client' = [client EXCEPT ![c] = [pc |-> "check", node |-> n]]
  /\ shed' = shed \ {n}
  /\ UNCHANGED <<text, vectors, job, worker, cli, ops>>

EnqueueCheck(c) ==
  /\ client[c].pc = "check"
  /\ client' = [client EXCEPT ![c] = IF QueueFull THEN IdleClient
                                     ELSE [@ EXCEPT !.pc = "insert"]]
  /\ shed' = IF QueueFull THEN shed \cup {client[c].node} ELSE shed
  /\ UNCHANGED <<head, text, vectors, job, worker, cli, ops>>

EnqueueInsert(c) ==
  /\ client[c].pc = "insert"
  /\ Inserted("extract", client[c].node)
  /\ client' = [client EXCEPT ![c] = IdleClient]
  /\ UNCHANGED <<head, text, vectors, worker, cli, ops, shed>>

\* Purging a file takes its jobs with it (ON DELETE CASCADE).
Purge(n) ==
  /\ head[n] > 0
  /\ head' = [head EXCEPT ![n] = Purged]
  /\ job' = [j \in Id |-> IF job[j].node = n THEN NoJob ELSE job[j]]
  /\ UNCHANGED <<text, vectors, worker, client, cli, ops, shed>>

-----------------------------------------------------------------------------
(* One step of a runner: claim, handle, report                             *)

Claim(w) ==
  /\ worker[w].pc = "idle"
  /\ \E j \in Id :
       /\ job[j].state = "queued" /\ job[j].due
       /\ job[j].kind \in Registered[w]
       /\ job' = [job EXCEPT ![j].state = "running", ![j].attempts = @ + 1,
                             ![j].lapsed = FALSE, ![j].tried = TRUE]
       /\ worker' = [worker EXCEPT ![w] = [IdleWorker EXCEPT !.pc = "open",
                          !.id = j, !.kind = job[j].kind, !.node = job[j].node]]
  /\ UNCHANGED <<head, text, vectors, client, cli, ops, shed>>

\* What follows once a content has text.
AfterText == IF Semantic THEN "check" ELSE "done"

\* The head that extract.Handle opens; cached text is not extracted again.
OpenForExtract(w) ==
  LET n == worker[w].node IN
  /\ worker[w].pc = "open" /\ worker[w].kind = "extract"
  /\ worker' = [worker EXCEPT
       ![w].content = IF head[n] = Purged THEN 0 ELSE head[n],
       ![w].pc = IF head[n] = Purged THEN "done"
                 ELSE IF <<n, head[n]>> \in text THEN AfterText ELSE "work"]
  /\ UNCHANGED <<head, text, vectors, job, client, cli, ops, shed>>

\* PutDocText.
Extract(w) ==
  /\ worker[w].pc = "work" /\ worker[w].kind = "extract"
  /\ text' = text \cup {<<worker[w].node, worker[w].content>>}
  /\ worker' = [worker EXCEPT ![w].pc = AfterText]
  /\ UNCHANGED <<head, vectors, job, client, cli, ops, shed>>

\* DocForNode and HasEmbedding: without text, or already embedded, it is done.
DocForNode(w) ==
  LET n == worker[w].node
      ready == <<n, head[n]>> \in text /\ <<n, head[n]>> \notin vectors
  IN
  /\ worker[w].pc = "open" /\ worker[w].kind = "embed"
  /\ worker' = [worker EXCEPT ![w].content = IF ready THEN head[n] ELSE 0,
                              ![w].pc = IF ready THEN "work" ELSE "done"]
  /\ UNCHANGED <<head, text, vectors, job, client, cli, ops, shed>>

\* PutEmbeddings.
Embed(w) ==
  /\ worker[w].pc = "work" /\ worker[w].kind = "embed"
  /\ vectors' = vectors \cup {<<worker[w].node, worker[w].content>>}
  /\ worker' = [worker EXCEPT ![w].pc = "done"]
  /\ UNCHANGED <<head, text, job, client, cli, ops, shed>>

\* The chain of extraction to embedding; its enqueue is best effort.
ChainCheck(w) ==
  /\ worker[w].pc = "check"
  /\ worker' = [worker EXCEPT ![w].pc = IF QueueFull THEN "done" ELSE "insert"]
  /\ UNCHANGED <<head, text, vectors, job, client, cli, ops, shed>>

ChainInsert(w) ==
  /\ worker[w].pc = "insert"
  /\ Inserted("embed", worker[w].node)
  /\ worker' = [worker EXCEPT ![w].pc = "done"]
  /\ UNCHANGED <<head, text, vectors, client, cli, ops, shed>>

\* A handler returns an error or panics.
HandlerFails(w) ==
  /\ worker[w].pc \in {"open", "work"}
  /\ worker' = [worker EXCEPT ![w].pc = "fail"]
  /\ UNCHANGED <<head, text, vectors, job, client, cli, ops, shed>>

\* UPDATE ... WHERE id = j, whatever state the row is in by now; the unique
\* index may refuse it.
Updated(j, r) ==
  LET table == [job EXCEPT ![j] = r]
  IN  job' = IF Exists(job[j]) /\ UniquePending(table) THEN table ELSE job

Complete(w) ==
  LET j == worker[w].id IN
  /\ worker[w].pc = "done"
  /\ Updated(j, [job[j] EXCEPT !.state = "done"])
  /\ worker' = [worker EXCEPT ![w] = IdleWorker]
  /\ UNCHANGED <<head, text, vectors, client, cli, ops, shed>>

Fail(w) ==
  LET j == worker[w].id IN
  /\ worker[w].pc = "fail"
  /\ Updated(j, [job[j] EXCEPT !.state = Spent(job[j]), !.due = FALSE])
  /\ worker' = [worker EXCEPT ![w] = IdleWorker]
  /\ UNCHANGED <<head, text, vectors, client, cli, ops, shed>>

\* Complete or Fail could not write; the row stays as it is.
ReportLost(w) ==
  /\ worker[w].pc \in {"done", "fail"}
  /\ worker' = [worker EXCEPT ![w] = IdleWorker]
  /\ UNCHANGED <<head, text, vectors, job, client, cli, ops, shed>>

\* The process dies and is restarted.
Crash(w) ==
  /\ worker[w].pc \in HandlerPc
  /\ worker' = [worker EXCEPT ![w] = IdleWorker]
  /\ UNCHANGED <<head, text, vectors, job, client, cli, ops, shed>>

\* SIGTERM cancels the context that the handler, Complete and Fail run under:
\* none of their statements reaches the table any more.
Sigterm(w) ==
  /\ worker[w].pc \in HandlerPc
  /\ ops < MaxOps /\ ops' = ops + 1
  /\ worker' = [worker EXCEPT ![w].pc = "term"]
  /\ UNCHANGED <<head, text, vectors, job, client, cli, shed>>

Exit(w) ==
  /\ worker[w].pc = "term"
  /\ worker' = [worker EXCEPT ![w].pc = "stopped"]
  /\ UNCHANGED <<head, text, vectors, job, client, cli, ops, shed>>

Start(w) ==
  /\ worker[w].pc = "stopped"
  /\ worker' = [worker EXCEPT ![w] = IdleWorker]
  /\ UNCHANGED <<head, text, vectors, job, client, cli, ops, shed>>

-----------------------------------------------------------------------------
(* Time, the reaper, pruning                                               *)

\* Wrong: every running row is taken to be abandoned.
Stale_AnyRunning(r) == r.state = "running"

\* state = 'running' AND claimed_at < now() - lease
Stale(r) == r.state = "running" /\ r.lapsed

Reaped(r) == [r EXCEPT !.state = Spent(r)]

\* The reaper's tick is served by the runner's own loop, between two jobs.
ReapStale(w) ==
  /\ worker[w].pc = "idle"
  /\ \E j \in Id : Stale(job[j])
  /\ job' = [j \in Id |-> IF Stale(job[j]) THEN Reaped(job[j]) ELSE job[j]]
  /\ UNCHANGED <<head, text, vectors, worker, client, cli, ops, shed>>

BackoffEnds(j) ==
  /\ job[j].state = "queued" /\ ~job[j].due
  /\ job' = [job EXCEPT ![j].due = TRUE]
  /\ UNCHANGED <<head, text, vectors, worker, client, cli, ops, shed>>

LeaseEnds(j) ==
  /\ job[j].state = "running" /\ ~job[j].lapsed
  /\ Lapse \/ \A w \in Worker : ~Holds(w, j)
  /\ job' = [job EXCEPT ![j].lapsed = TRUE]
  /\ UNCHANGED <<head, text, vectors, worker, client, cli, ops, shed>>

TtlPasses(j) ==
  /\ Prunes /\ Exists(job[j]) /\ ~job[j].old
  /\ job' = [job EXCEPT ![j].old = TRUE]
  /\ UNCHANGED <<head, text, vectors, worker, client, cli, ops, shed>>

\* Files that lose an extraction that did not succeed when the rows js go.
Dropped(js) == {job[j].node : j \in {i \in js : /\ job[i].kind = "extract"
                                                /\ job[i].state # "done"}}

\* updated_at of row j is past the retention when the prune runs.
DeleteFinished(j) ==
  /\ Prunes /\ job[j].state \in {"done", "failed"}
  /\ job' = [job EXCEPT ![j] = NoJob]
  /\ shed' = shed \cup Dropped({j})
  /\ UNCHANGED <<head, text, vectors, worker, client, cli, ops>>

\* state = 'queued' AND attempts = 0 AND created_at < now() - ttl
StaleQueued(r) == r.state = "queued" /\ r.attempts = 0 /\ r.old

DeleteStaleQueued ==
  /\ Prunes
  /\ \E j \in Id : StaleQueued(job[j])
  /\ job' = [j \in Id |-> IF StaleQueued(job[j]) THEN NoJob ELSE job[j]]
  /\ shed' = shed \cup Dropped({j \in Id : StaleQueued(job[j])})
  /\ UNCHANGED <<head, text, vectors, worker, client, cli, ops>>

-----------------------------------------------------------------------------
(* cloudctl jobs                                                           *)

\* The dead letters of the kinds ks back in the queue, with a fresh budget.
Requeued(ks) ==
  [j \in Id |-> IF job[j].state = "failed" /\ job[j].kind \in ks
                  THEN [job[j] EXCEPT !.state = "queued", !.attempts = 0, !.due = TRUE]
                  ELSE job[j]]

\* It is one UPDATE: refused as a whole when the unique index refuses one row.
RetryFailed(ks) ==
  LET accepted == UniquePending(Requeued(ks)) IN
  /\ ops < MaxOps /\ ops' = ops + 1
  /\ \E j \in Id : job[j].state = "failed"
  /\ job' = IF accepted THEN Requeued(ks) ELSE job
  /\ cli' = IF accepted THEN "ok" ELSE "error"
  /\ UNCHANGED <<head, text, vectors, worker, client, shed>>

\* cloudctl jobs reindex: a row for every live file without a pending one.
EnqueueForAllFiles ==
  LET live == {n \in Node : head[n] > 0 /\ ~PendingFor("extract", n)} IN
  /\ ops < MaxOps /\ ops' = ops + 1
  /\ live # {}
  /\ \E at \in [live -> Fresh] :
       /\ \A m, n \in live : at[m] = at[n] => m = n
       /\ job' = [j \in Id |-> IF \E n \in live : at[n] = j
                                 THEN QueuedRow("extract",
                                                CHOOSE n \in live : at[n] = j)
                                 ELSE job[j]]
  /\ shed' = shed \ live
  /\ UNCHANGED <<head, text, vectors, worker, client, cli>>

-----------------------------------------------------------------------------
ClientStep(c) == EnqueueCheck(c) \/ EnqueueInsert(c)

HandlerStep(w) == \/ OpenForExtract(w) \/ Extract(w)
                  \/ DocForNode(w) \/ Embed(w)
                  \/ ChainCheck(w) \/ ChainInsert(w)

ReportStep(w) == Complete(w) \/ Fail(w)

Passing(j) == BackoffEnds(j) \/ LeaseEnds(j) \/ TtlPasses(j)

QueueNext ==
  \/ \E c \in Client, n \in Node : Edit(c, n)
  \/ \E c \in Client : ClientStep(c)
  \/ \E n \in Node : Purge(n)
  \/ \E w \in Worker : \/ Claim(w) \/ HandlerStep(w) \/ HandlerFails(w)
                       \/ ReportStep(w) \/ ReportLost(w) \/ Crash(w)
                       \/ Sigterm(w) \/ Exit(w) \/ Start(w) \/ ReapStale(w)
  \/ \E j \in Id : Passing(j) \/ DeleteFinished(j)
  \/ DeleteStaleQueued
  \/ \E ks \in {{"extract"}, {"embed"}, Kind} : RetryFailed(ks)
  \/ EnqueueForAllFiles

QueueSpec == QueueInit /\ [][QueueNext]_queueVars

\* A runner that is up goes on with its loop, its ticker fires, prune is called
\* every hour and time passes.  Nothing is assumed of clients or operators, nor
\* that a handler or a report ever succeeds.
Fairness ==
  /\ \A w \in Worker : /\ WF_queueVars(Claim(w))
                       /\ WF_queueVars(HandlerStep(w) \/ HandlerFails(w))
                       /\ WF_queueVars(ReportStep(w) \/ ReportLost(w))
                       /\ WF_queueVars(Exit(w)) /\ WF_queueVars(Start(w))
                       /\ WF_queueVars(ReapStale(w))
  /\ \A j \in Id : WF_queueVars(BackoffEnds(j)) /\ WF_queueVars(LeaseEnds(j))
                   /\ WF_queueVars(TtlPasses(j))
  /\ WF_queueVars(DeleteStaleQueued)

FairQueueSpec == QueueSpec /\ Fairness

-----------------------------------------------------------------------------
(* Properties                                                              *)

\* No two workers run the handler of the same job (Claim: "There is no window
\* in which two workers hold the same job").
JobHeldOnce ==
  \A v, w \in Worker : v # w => ~\E j \in Id : Holds(v, j) /\ Holds(w, j)

\* A stored file without text has someone who will still see to it: a request
\* about to enqueue, a pending job, or a dead letter for the operator; unless the
\* owner's cap or the prune has dropped the work for this very edit.
NoEditMissed ==
  \A n \in Node :
    head[n] > 0 /\ <<n, head[n]>> \notin text /\ n \notin shed =>
      \/ \E c \in Client : client[c].pc # "idle" /\ client[c].node = n
      \/ \E j \in Id : /\ IsPending(job[j]) \/ job[j].state = "failed"
                       /\ For(job[j], "extract", n)

\* The same of embedding: a file whose text is there and whose vectors are not
\* has a job of either kind pending or dead-lettered.
NoVectorMissed ==
  \A n \in Node :
    Semantic /\ head[n] > 0 /\ <<n, head[n]>> \in text \ vectors =>
      \/ \E c \in Client : client[c].pc # "idle" /\ client[c].node = n
      \/ \E w \in Worker : worker[w].pc \in {"check", "insert"} /\ worker[w].node = n
      \/ \E j \in Id : /\ IsPending(job[j]) \/ job[j].state = "failed"
                       /\ job[j].node = n

\* Every job is settled in the end, done, dead-lettered or deleted: neither a
\* handler that always crashes its worker nor a kind that no worker handles
\* keeps a row pending for ever.
JobsSettle == \A j \in Id : IsPending(job[j]) ~> ~IsPending(job[j])

\* An operator's retry of dead letters is never refused ("the escape hatch
\* after fixing whatever made them fail").
RetryWorks == cli # "error"

\* The prune of queued jobs drops only rows that no worker ever claimed.
OnlyUnclaimedDropped ==
  [][\A j \in Id : job[j].state = "queued" /\ job'[j].state = "none"
                     => ~job[j].tried \/ head'[job[j].node] = Purged]_queueVars

\* A worker that ends on SIGTERM has finished its job: it does not leave the row
\* running.
SigtermFinishes ==
  [][\A w \in Worker : worker[w].pc = "term" /\ worker'[w].pc = "stopped"
                         => job[worker[w].id].state # "running"]_queueVars
=============================================================================
