--------------------------- MODULE JobQueue_proofs ---------------------------
(***************************************************************************)
(* Proofs about the job queue, for any numbers of jobs, files, workers and *)
(* requests and any retry budget: the rows stay well formed, no job is     *)
(* claimed more often than its budget, and, while no handler outlives its  *)
(* lease, no job is in the hands of two workers.                           *)
(***************************************************************************)
EXTENDS JobQueue, TLAPS

\* The default values belong to their types.
LEMMA Defaults ==
  /\ NoJob \in JobRow /\ NoJob.state = "none" /\ NoJob.attempts = 0
  /\ IdleWorker \in WorkerRun /\ IdleWorker.pc = "idle"
  /\ IdleClient \in ClientRun
  BY QueueAssumption DEF NoJob, JobRow, Kind, IdleWorker, WorkerRun, IdleClient,
                         ClientRun

\* The part of the type invariant that every action touches.
Rows == /\ job \in [Id -> JobRow]
        /\ \A j \in Id : /\ job[j].attempts <= MaxAttempts
                         /\ job[j].state = "queued" => job[j].attempts < MaxAttempts

\* Rows in the words of one row.
GoodRow(r) == /\ r \in JobRow
              /\ r.attempts <= MaxAttempts
              /\ r.state = "queued" => r.attempts < MaxAttempts

LEMMA RowsAreGood == ASSUME Rows, NEW j \in Id PROVE GoodRow(job[j])
  BY DEF Rows, GoodRow

\* What a step writes keeps the table well formed when each row it writes is.
LEMMA GoodTable ==
  ASSUME job' = [j \in Id |-> job'[j]], \A j \in Id : GoodRow(job'[j])
  PROVE  Rows'
  BY DEF Rows, GoodRow

LEMMA GoodUpdate ==
  ASSUME Rows, NEW j \in Id, NEW r, GoodRow(r), job' = [job EXCEPT ![j] = r]
  PROVE  Rows'
  BY DEF Rows, GoodRow

LEMMA NoJobGood == GoodRow(NoJob)
  BY Defaults, QueueAssumption DEF GoodRow, JobRow

LEMMA QueuedRowGood == ASSUME NEW k \in Kind, NEW n \in Node
                       PROVE  GoodRow(QueuedRow(k, n)) /\ QueuedRow(k, n).state = "queued"
  <1> DEFINE q == QueuedRow(k, n)
  <1>1. q \in JobRow
    BY Defaults DEF JobRow, QueuedRow
  <1>2. q.state = "queued"
    BY Defaults DEF JobRow, QueuedRow
  <1>3. q.attempts = 0
    BY Defaults DEF JobRow, QueuedRow
  <1> QED BY <1>1, <1>2, <1>3, QueueAssumption DEF GoodRow

\* A row whose state follows from its spent attempts.
LEMMA SpentGood ==
  ASSUME NEW r, GoodRow(r)
  PROVE  /\ GoodRow([r EXCEPT !.state = Spent(r)])
         /\ GoodRow([r EXCEPT !.state = Spent(r), !.due = FALSE])
         /\ Spent(r) \in {"queued", "failed"}
  <1> DEFINE s == [r EXCEPT !.state = Spent(r)]
             t == [r EXCEPT !.state = Spent(r), !.due = FALSE]
  <1>1. r \in JobRow /\ r.attempts \in Nat
    BY DEF GoodRow, JobRow
  <1>2. Spent(r) \in {"queued", "failed"}
    BY DEF Spent
  <1>3. s \in JobRow /\ t \in JobRow
    BY <1>1, <1>2 DEF JobRow
  <1>4. s.attempts = r.attempts /\ t.attempts = r.attempts
    BY <1>1 DEF JobRow
  <1>5. s.state = Spent(r) /\ t.state = Spent(r)
    BY <1>1 DEF JobRow
  <1>6. Spent(r) = "queued" => r.attempts < MaxAttempts
    BY <1>1, QueueAssumption DEF Spent
  <1> HIDE DEF s, t
  <1>7. GoodRow(s) /\ GoodRow(t)
    BY <1>1, <1>2, <1>3, <1>4, <1>5, <1>6 DEF GoodRow
  <1> QED BY <1>2, <1>7 DEF s, t

\* An id that an insert takes has no row and no worker.
LEMMA NewIdFresh == ASSUME Fresh # {} PROVE NewId \in Fresh
  BY DEF NewId

LEMMA InsertedGood ==
  ASSUME Rows, NEW k \in Kind, NEW n \in Node, Inserted(k, n) PROVE Rows'
  <1>1. CASE UNCHANGED job
    BY <1>1 DEF Rows
  <1>2. CASE Fresh # {} /\ job' = [job EXCEPT ![NewId] = QueuedRow(k, n)]
    <2>1. NewId \in Id
      BY <1>2, NewIdFresh DEF Fresh
    <2> QED BY <1>2, <2>1, GoodUpdate, QueuedRowGood
  <1> QED BY <1>1, <1>2 DEF Inserted
\* The rest of the type invariant.
Others ==
  /\ head \in [Node -> Nat \cup {Purged}]
  /\ text \subseteq Node \X Nat
  /\ vectors \subseteq Node \X Nat
  /\ worker \in [Worker -> WorkerRun]
  /\ client \in [Client -> ClientRun]
  /\ cli \in {"ok", "error"}
  /\ ops \in 0..MaxOps
  /\ shed \subseteq Node

LEMMA TypeParts == QueueTypeOK <=> Rows /\ Others
  BY DEF QueueTypeOK, Rows, Others

\* Claim is the only operation that counts an attempt, and a queued row has one
\* left.
LEMMA ClaimedGood ==
  ASSUME NEW r, GoodRow(r), r.state = "queued"
  PROVE  GoodRow([r EXCEPT !.state = "running", !.attempts = @ + 1,
                           !.lapsed = FALSE, !.tried = TRUE])
  <1> DEFINE c == [r EXCEPT !.state = "running", !.attempts = @ + 1,
                            !.lapsed = FALSE, !.tried = TRUE]
  <1>1. r \in JobRow /\ r.attempts \in Nat /\ r.attempts < MaxAttempts
    BY DEF GoodRow, JobRow
  <1>2a. r.attempts + 1 \in Nat
    BY <1>1
  <1>2. c \in JobRow
    BY <1>1, <1>2a DEF JobRow
  <1>3. c.attempts = r.attempts + 1 /\ c.state = "running"
    BY <1>1 DEF JobRow
  <1> HIDE DEF c
  <1>4. GoodRow(c)
    BY <1>1, <1>2, <1>3, QueueAssumption DEF GoodRow
  <1> QED BY <1>4 DEF c

\* Writes that keep a row's attempts and do not queue it, or raise a flag.
LEMMA FlaggedGood ==
  ASSUME NEW r, GoodRow(r)
  PROVE  /\ GoodRow([r EXCEPT !.state = "done"])
         /\ GoodRow([r EXCEPT !.due = TRUE])
         /\ GoodRow([r EXCEPT !.lapsed = TRUE])
         /\ GoodRow([r EXCEPT !.old = TRUE])
         /\ GoodRow([r EXCEPT !.state = "queued", !.attempts = 0, !.due = TRUE])
  <1> DEFINE a == [r EXCEPT !.state = "done"]
             b == [r EXCEPT !.due = TRUE]
             c == [r EXCEPT !.lapsed = TRUE]
             d == [r EXCEPT !.old = TRUE]
             e == [r EXCEPT !.state = "queued", !.attempts = 0, !.due = TRUE]
  <1>1. r \in JobRow
    BY DEF GoodRow
  <1>2. /\ a \in JobRow /\ b \in JobRow /\ c \in JobRow
        /\ d \in JobRow /\ e \in JobRow
    BY <1>1 DEF JobRow
  <1>3. /\ a.attempts = r.attempts /\ b.attempts = r.attempts
        /\ c.attempts = r.attempts /\ d.attempts = r.attempts /\ e.attempts = 0
    BY <1>1 DEF JobRow
  <1>4. /\ a.state = "done" /\ b.state = r.state /\ c.state = r.state
        /\ d.state = r.state /\ e.state = "queued"
    BY <1>1 DEF JobRow
  <1> HIDE DEF a, b, c, d, e
  <1>5. GoodRow(a) /\ GoodRow(b) /\ GoodRow(c) /\ GoodRow(d) /\ GoodRow(e)
    BY <1>2, <1>3, <1>4, QueueAssumption DEF GoodRow
  <1> QED BY <1>5 DEF a, b, c, d, e

\* The table after any step is well formed.
LEMMA RowsStep == ASSUME Rows, Others, [QueueNext]_queueVars PROVE Rows'
  <1>0. CASE UNCHANGED job
    BY <1>0 DEF Rows
  <1>1. ASSUME NEW c \in Client, EnqueueInsert(c) PROVE Rows'
    <2>1. client[c].node \in Node
      BY DEF Others, ClientRun
    <2> QED BY <1>1, <2>1, InsertedGood DEF EnqueueInsert, Kind
  <1>2. ASSUME NEW w \in Worker, ChainInsert(w) PROVE Rows'
    <2>1. worker[w].node \in Node
      BY DEF Others, WorkerRun
    <2> QED BY <1>2, <2>1, InsertedGood DEF ChainInsert, Kind
  <1>3. ASSUME NEW n \in Node, Purge(n) PROVE Rows'
    <2>1. job' = [j \in Id |-> job'[j]]
      BY <1>3 DEF Purge
    <2>2. \A j \in Id : GoodRow(job'[j])
      BY <1>3, RowsAreGood, NoJobGood DEF Purge
    <2> QED BY <2>1, <2>2, GoodTable
  <1>4. ASSUME NEW w \in Worker, Claim(w) PROVE Rows'
    <2>1. PICK j \in Id :
            /\ job[j].state = "queued"
            /\ job' = [job EXCEPT ![j].state = "running", ![j].attempts = @ + 1,
                                  ![j].lapsed = FALSE, ![j].tried = TRUE]
      BY <1>4 DEF Claim
    <2> DEFINE r == [job[j] EXCEPT !.state = "running", !.attempts = @ + 1,
                                   !.lapsed = FALSE, !.tried = TRUE]
    <2>2. job' = [job EXCEPT ![j] = r]
      BY <2>1 DEF Rows, JobRow
    <2>3. GoodRow(r)
      BY <2>1, RowsAreGood, ClaimedGood
    <2> QED BY <2>2, <2>3, GoodUpdate
  <1>5. ASSUME NEW w \in Worker, Complete(w) \/ Fail(w) PROVE Rows'
    <2> DEFINE j == worker[w].id
    <2>1. j \in Id
      BY DEF Others, WorkerRun
    <2>2. GoodRow(job[j])
      BY <2>1, RowsAreGood
    <2>3. \/ UNCHANGED job
          \/ job' = [job EXCEPT ![j] = [job[j] EXCEPT !.state = "done"]]
          \/ job' = [job EXCEPT ![j] = [job[j] EXCEPT !.state = Spent(job[j]),
                                                      !.due = FALSE]]
      BY <1>5 DEF Complete, Fail, Updated
    <2> HIDE DEF j
    <2> QED BY <2>1, <2>2, <2>3, <1>0, FlaggedGood, SpentGood, GoodUpdate
  <1>6. ASSUME NEW w \in Worker, ReapStale(w) PROVE Rows'
    <2>1. job' = [j \in Id |-> job'[j]]
      BY <1>6 DEF ReapStale
    <2>2. \A j \in Id : GoodRow(job'[j])
      BY <1>6, RowsAreGood, SpentGood DEF ReapStale, Reaped
    <2> QED BY <2>1, <2>2, GoodTable
  <1>7. ASSUME NEW j \in Id, Passing(j) PROVE Rows'
    <2>1. \/ job' = [job EXCEPT ![j] = [job[j] EXCEPT !.due = TRUE]]
          \/ job' = [job EXCEPT ![j] = [job[j] EXCEPT !.lapsed = TRUE]]
          \/ job' = [job EXCEPT ![j] = [job[j] EXCEPT !.old = TRUE]]
      BY <1>7 DEF Passing, BackoffEnds, LeaseEnds, TtlPasses, Rows, JobRow
    <2> QED BY <2>1, RowsAreGood, FlaggedGood, GoodUpdate
  <1>8. ASSUME NEW j \in Id, DeleteFinished(j) PROVE Rows'
    BY <1>8, NoJobGood, GoodUpdate DEF DeleteFinished
  <1>9. CASE DeleteStaleQueued
    <2>1. job' = [j \in Id |-> job'[j]]
      BY <1>9 DEF DeleteStaleQueued
    <2>2. \A j \in Id : GoodRow(job'[j])
      BY <1>9, RowsAreGood, NoJobGood DEF DeleteStaleQueued
    <2> QED BY <2>1, <2>2, GoodTable
  <1>10. ASSUME NEW ks, RetryFailed(ks) PROVE Rows'
    <2>1. CASE UNCHANGED job
      BY <2>1, <1>0
    <2>2. CASE job' # job
      <3>1. job' = [j \in Id |-> job'[j]]
        BY <2>2, <1>10 DEF RetryFailed, Requeued
      <3>2. \A j \in Id : GoodRow(job'[j])
        BY <2>2, <1>10, RowsAreGood, FlaggedGood DEF RetryFailed, Requeued
      <3> QED BY <3>1, <3>2, GoodTable
    <2> QED BY <2>1, <2>2
  <1>11. CASE EnqueueForAllFiles
    <2>1. job' = [j \in Id |-> job'[j]]
      BY <1>11 DEF EnqueueForAllFiles
    <2>2. \A j \in Id : GoodRow(job'[j])
      BY <1>11, RowsAreGood, QueuedRowGood DEF EnqueueForAllFiles, Kind
    <2> QED BY <2>1, <2>2, GoodTable
  <1> QED
    BY <1>0, <1>1, <1>2, <1>3, <1>4, <1>5, <1>6, <1>7, <1>8, <1>9, <1>10, <1>11
    DEF QueueNext, queueVars, ClientStep, HandlerStep, ReportStep, Edit, EnqueueCheck,
        OpenForExtract, Extract, DocForNode, Embed, ChainCheck, HandlerFails,
        ReportLost, Crash, Sigterm, Exit, Start
\* The other variables keep their types.
LEMMA OthersStep == ASSUME Rows, Others, [QueueNext]_queueVars PROVE Others'
  <1> USE Defaults DEF Others
  <1>0. CASE UNCHANGED queueVars
    BY <1>0 DEF queueVars
  <1>1. ASSUME NEW c \in Client, NEW n \in Node, Edit(c, n) PROVE Others'
    BY <1>1, QueueAssumption DEF Edit, ClientRun, Purged
  <1>2. ASSUME NEW c \in Client, ClientStep(c) PROVE Others'
    BY <1>2 DEF ClientStep, EnqueueCheck, EnqueueInsert, ClientRun
  <1>3. ASSUME NEW n \in Node, Purge(n) PROVE Others'
    BY <1>3 DEF Purge, Purged
  <1>4. ASSUME NEW w \in Worker, Claim(w) PROVE Others'
    <2>1. PICK j \in Id : worker' = [worker EXCEPT ![w] =
                 [IdleWorker EXCEPT !.pc = "open", !.id = j, !.kind = job[j].kind,
                                    !.node = job[j].node]]
      BY <1>4 DEF Claim
    <2>2. job[j].kind \in Kind /\ job[j].node \in Node
      BY DEF Rows, JobRow
    <2>3. worker' \in [Worker -> WorkerRun]
      BY <2>1, <2>2 DEF WorkerRun, HandlerPc
    <2> QED BY <1>4, <2>3 DEF Claim
  <1>5. ASSUME NEW w \in Worker, HandlerStep(w) PROVE Others'
    <2> USE DEF WorkerRun, HandlerPc, AfterText
    <2>1. worker[w].node \in Node /\ worker[w].content \in Nat
      OBVIOUS
    <2>2. head[worker[w].node] \in Nat \cup {Purged}
      BY <2>1
    <2>3. CASE OpenForExtract(w)
      BY <2>2, <2>3 DEF OpenForExtract
    <2>4. CASE Extract(w)
      BY <2>1, <2>4 DEF Extract
    <2>5. CASE DocForNode(w)
      <3>1. <<worker[w].node, head[worker[w].node]>> \in text
              => head[worker[w].node] \in Nat
        OBVIOUS
      <3> QED BY <3>1, <2>5 DEF DocForNode
    <2>6. CASE Embed(w)
      BY <2>1, <2>6 DEF Embed
    <2>7. CASE ChainCheck(w) \/ ChainInsert(w)
      BY <2>7 DEF ChainCheck, ChainInsert
    <2> QED BY <1>5, <2>3, <2>4, <2>5, <2>6, <2>7 DEF HandlerStep
  <1>6. ASSUME NEW w \in Worker,
               \/ HandlerFails(w) \/ ReportStep(w) \/ ReportLost(w) \/ Crash(w)
               \/ Sigterm(w) \/ Exit(w) \/ Start(w) \/ ReapStale(w)
        PROVE  Others'
    <2>1. \/ UNCHANGED worker
          \/ worker' = [worker EXCEPT ![w] = IdleWorker]
          \/ \E p \in {"fail", "term", "stopped"} : worker' = [worker EXCEPT ![w].pc = p]
      BY <1>6 DEF HandlerFails, ReportStep, Complete, Fail, ReportLost, Crash, Sigterm,
                  Exit, Start, ReapStale
    <2>2. worker' \in [Worker -> WorkerRun]
      <3>1. ASSUME NEW p \in {"fail", "term", "stopped"},
                   worker' = [worker EXCEPT ![w].pc = p]
            PROVE  worker' \in [Worker -> WorkerRun]
        BY <3>1 DEF WorkerRun, HandlerPc
      <3> QED BY <2>1, <3>1
    <2>3. ops' \in 0..MaxOps
      BY <1>6, QueueAssumption DEF HandlerFails, ReportStep, Complete, Fail, ReportLost,
                                   Crash, Sigterm, Exit, Start, ReapStale
    <2>4. UNCHANGED <<head, text, vectors, client, cli, shed>>
      BY <1>6 DEF HandlerFails, ReportStep, Complete, Fail, ReportLost, Crash, Sigterm,
                  Exit, Start, ReapStale
    <2> QED BY <2>2, <2>3, <2>4
  <1>d. \A js \in SUBSET Id : Dropped(js) \subseteq Node
    BY DEF Dropped, Rows, JobRow
  <1>7. ASSUME NEW j \in Id, Passing(j) \/ DeleteFinished(j) PROVE Others'
    BY <1>7, <1>d DEF Passing, BackoffEnds, LeaseEnds, TtlPasses, DeleteFinished
  <1>8. CASE DeleteStaleQueued
    <2>1. Dropped({j \in Id : StaleQueued(job[j])}) \subseteq Node
      BY <1>d
    <2> QED BY <1>8, <2>1 DEF DeleteStaleQueued
  <1>9. ASSUME NEW ks, RetryFailed(ks) PROVE Others'
    <2>1. cli' \in {"ok", "error"}
      BY <1>9 DEF RetryFailed
    <2>2. ops' \in 0..MaxOps
      BY <1>9, QueueAssumption DEF RetryFailed
    <2>3. UNCHANGED <<head, text, vectors, worker, client, shed>>
      BY <1>9 DEF RetryFailed
    <2> QED BY <2>1, <2>2, <2>3
  <1>10. CASE EnqueueForAllFiles
    BY <1>10, QueueAssumption DEF EnqueueForAllFiles
  <1> QED
    BY <1>0, <1>1, <1>2, <1>3, <1>4, <1>5, <1>6, <1>7, <1>8, <1>9, <1>10
    DEF QueueNext

LEMMA TypeInit == QueueInit => Rows /\ Others
  BY Defaults, QueueAssumption DEF QueueInit, Rows, Others, Purged

-----------------------------------------------------------------------------
\* The rows of the queue are well formed and no job is claimed more often than
\* its retry budget, whatever workers crash, lapse or report late: Claim counts
\* an attempt, and Fail and ReapStale queue a row again only while one is left.
THEOREM TypeCorrect == QueueSpec => []QueueTypeOK
  <1>1. QueueInit => Rows /\ Others
    BY TypeInit
  <1>2. (Rows /\ Others) /\ [QueueNext]_queueVars => (Rows /\ Others)'
    BY RowsStep, OthersStep
  <1> QED BY <1>1, <1>2, TypeParts, PTL DEF QueueSpec
-----------------------------------------------------------------------------
\* The strengthening that exclusion needs: the row of a job that a worker holds
\* is running under a lease that has not lapsed, or was purged with its file.
HeldRows == \A w \in Worker, j \in Id :
              Holds(w, j) => \/ job[j].state = "running" /\ ~job[j].lapsed
                             \/ job[j].state = "none"

Exclusive == Rows /\ Others /\ HeldRows /\ JobHeldOnce

\* A step that leaves every held row alone, or deletes it, and gives no worker a
\* new job keeps the exclusion.
LEMMA Undisturbed ==
  ASSUME HeldRows, JobHeldOnce,
         \A w \in Worker, j \in Id : Holds(w, j)' => Holds(w, j),
         \A w \in Worker, j \in Id :
           Holds(w, j)' => job'[j] = job[j] \/ job'[j].state = "none"
  PROVE  HeldRows' /\ JobHeldOnce'
  BY DEF HeldRows, JobHeldOnce

LEMMA InsertedElsewhere ==
  ASSUME NEW k, NEW n, Inserted(k, n), NEW w \in Worker, NEW j \in Id, Holds(w, j)
  PROVE  job'[j] = job[j]
  <1>1. CASE UNCHANGED job
    BY <1>1
  <1>2. CASE Fresh # {} /\ job' = [job EXCEPT ![NewId] = QueuedRow(k, n)]
    <2>1. NewId \in Id /\ ~Remembered(NewId)
      BY <1>2, NewIdFresh DEF Fresh
    <2>2. NewId # j
      BY <2>1 DEF Remembered, Holds, HandlerPc
    <2> QED BY <1>2, <2>2
  <1> QED BY <1>1, <1>2 DEF Inserted

LEMMA ExclusiveStep ==
  ASSUME ~Lapse, Exclusive, [QueueNext]_queueVars PROVE HeldRows' /\ JobHeldOnce'
  <1> USE DEF Exclusive
  <1>0. CASE UNCHANGED <<job, worker>>
    BY <1>0, Undisturbed DEF Holds
  <1>1. ASSUME NEW c \in Client, EnqueueInsert(c) PROVE HeldRows' /\ JobHeldOnce'
    BY <1>1, InsertedElsewhere, Undisturbed DEF EnqueueInsert, Holds
  <1>2. ASSUME NEW n \in Node, Purge(n) PROVE HeldRows' /\ JobHeldOnce'
    <2>1. \A j \in Id : job'[j] = job[j] \/ job'[j].state = "none"
      BY <1>2, Defaults DEF Purge
    <2> QED BY <1>2, <2>1, Undisturbed DEF Purge, Holds
  <1>3. ASSUME NEW w \in Worker, Claim(w) PROVE HeldRows' /\ JobHeldOnce'
    <2>1. PICK i \in Id :
            /\ job[i].state = "queued"
            /\ job' = [job EXCEPT ![i].state = "running", ![i].attempts = @ + 1,
                                  ![i].lapsed = FALSE, ![i].tried = TRUE]
            /\ worker' = [worker EXCEPT ![w] =
                 [IdleWorker EXCEPT !.pc = "open", !.id = i, !.kind = job[i].kind,
                                    !.node = job[i].node]]
      BY <1>3 DEF Claim
    <2>2. \A v \in Worker : ~Holds(v, i)
      BY <2>1 DEF HeldRows
    <2>3. job'[i].state = "running" /\ job'[i].lapsed = FALSE
      BY <2>1 DEF Rows, JobRow
    <2>4. \A j \in Id : j # i => job'[j] = job[j]
      BY <2>1 DEF Rows
    <2>5. worker'[w].id = i
      BY <2>1, Defaults DEF Others, WorkerRun
    <2>6. \A v \in Worker : v # w => worker'[v] = worker[v]
      BY <2>1 DEF Others
    <2>7. \A v \in Worker, j \in Id :
            Holds(v, j)' => (v = w /\ j = i) \/ (v # w /\ j # i /\ Holds(v, j))
      BY <2>2, <2>5, <2>6 DEF Holds
    <2>8. HeldRows'
      BY <2>3, <2>4, <2>7 DEF HeldRows
    <2>9. JobHeldOnce'
      BY <2>7 DEF JobHeldOnce
    <2> QED BY <2>8, <2>9
  <1>4. ASSUME NEW w \in Worker, HandlerStep(w) \/ HandlerFails(w)
        PROVE  HeldRows' /\ JobHeldOnce'
    <2>1. worker[w].pc \in HandlerPc
      BY <1>4 DEF HandlerStep, HandlerFails, OpenForExtract, Extract, DocForNode, Embed,
                  ChainCheck, ChainInsert, HandlerPc
    <2>2. \A v \in Worker : worker'[v].id = worker[v].id /\ (v # w => worker'[v] = worker[v])
      BY <1>4 DEF HandlerStep, HandlerFails, OpenForExtract, Extract, DocForNode, Embed,
                  ChainCheck, ChainInsert, Others, WorkerRun
    <2>3. \A v \in Worker, j \in Id : Holds(v, j)' => Holds(v, j)
      BY <2>1, <2>2 DEF Holds
    <2>4. \A v \in Worker, j \in Id : Holds(v, j)' => job'[j] = job[j]
      BY <1>4, <2>3, InsertedElsewhere
      DEF HandlerStep, HandlerFails, OpenForExtract, Extract, DocForNode, Embed,
          ChainCheck, ChainInsert
    <2> QED BY <2>3, <2>4, Undisturbed
  <1>5. ASSUME NEW w \in Worker,
               ReportStep(w) \/ ReportLost(w) \/ Crash(w) \/ Start(w)
        PROVE  HeldRows' /\ JobHeldOnce'
    <2>1. worker' = [worker EXCEPT ![w] = IdleWorker]
      BY <1>5 DEF ReportStep, Complete, Fail, ReportLost, Crash, Start
    <2>2. \A v \in Worker, j \in Id : Holds(v, j)' => Holds(v, j) /\ v # w
      BY <2>1, Defaults DEF Holds, Others, HandlerPc
    <2>3. \A j \in Id : ~Holds(w, j) => job'[j] = job[j]
      BY <1>5 DEF ReportStep, Complete, Fail, ReportLost, Crash, Start, Updated, Holds,
                  HandlerPc, Rows
    <2>4. \A v \in Worker, j \in Id : Holds(v, j)' => job'[j] = job[j]
      BY <2>2, <2>3 DEF JobHeldOnce
    <2> QED BY <2>2, <2>4, Undisturbed
  <1>6. ASSUME NEW w \in Worker, Sigterm(w) \/ Exit(w) PROVE HeldRows' /\ JobHeldOnce'
    <2>1. \A v \in Worker, j \in Id : Holds(v, j)' => Holds(v, j)
      BY <1>6 DEF Sigterm, Exit, Holds, Others, WorkerRun, HandlerPc
    <2> QED BY <1>6, <2>1, Undisturbed DEF Sigterm, Exit
  <1>7. ASSUME NEW w \in Worker, ReapStale(w) PROVE HeldRows' /\ JobHeldOnce'
    <2>1. \A v \in Worker, j \in Id : Holds(v, j) => ~Stale(job[j])
      BY DEF HeldRows, Stale
    <2> QED BY <1>7, <2>1, Undisturbed DEF ReapStale, Holds
  <1>8. ASSUME NEW i \in Id, Passing(i) PROVE HeldRows' /\ JobHeldOnce'
    <2> DEFINE same == job'[i].state = job[i].state /\ job'[i].lapsed = job[i].lapsed
    <2>a1. BackoffEnds(i) => same
      BY DEF BackoffEnds, Rows, JobRow
    <2>b1. TtlPasses(i) => same
      BY DEF TtlPasses, Rows, JobRow
    <2>c1. LeaseEnds(i) => \A v \in Worker : ~Holds(v, i)
      BY DEF LeaseEnds
    <2>1. same \/ \A v \in Worker : ~Holds(v, i)
      BY <1>8, <2>a1, <2>b1, <2>c1 DEF Passing
    <2>2. \A j \in Id : j # i => job'[j] = job[j]
      BY <1>8 DEF Passing, BackoffEnds, LeaseEnds, TtlPasses, Rows
    <2>3. \A v \in Worker, j \in Id : Holds(v, j)' <=> Holds(v, j)
      BY <1>8 DEF Passing, BackoffEnds, LeaseEnds, TtlPasses, Holds
    <2> QED BY <2>1, <2>2, <2>3 DEF HeldRows, JobHeldOnce
  <1>9. ASSUME NEW i \in Id, DeleteFinished(i) PROVE HeldRows' /\ JobHeldOnce'
    <2>1. \A j \in Id : job'[j] = job[j] \/ job'[j].state = "none"
      BY <1>9, Defaults DEF DeleteFinished, Rows
    <2> QED BY <1>9, <2>1, Undisturbed DEF DeleteFinished, Holds
  <1>10. CASE DeleteStaleQueued
    <2>1. \A j \in Id : job'[j] = job[j] \/ job'[j].state = "none"
      BY <1>10, Defaults DEF DeleteStaleQueued
    <2> QED BY <1>10, <2>1, Undisturbed DEF DeleteStaleQueued, Holds
  <1>11. ASSUME NEW ks, RetryFailed(ks) PROVE HeldRows' /\ JobHeldOnce'
    <2>1. \A j \in Id : job[j].state # "failed" => job'[j] = job[j]
      BY <1>11 DEF RetryFailed, Requeued
    <2>2. \A v \in Worker, j \in Id : Holds(v, j) => job[j].state # "failed"
      BY DEF HeldRows
    <2> QED BY <1>11, <2>1, <2>2, Undisturbed DEF RetryFailed, Holds
  <1>12. CASE EnqueueForAllFiles
    <2>1. \A j \in Id : j \notin Fresh => job'[j] = job[j]
      BY <1>12 DEF EnqueueForAllFiles
    <2>2. \A v \in Worker, j \in Id : Holds(v, j) => j \notin Fresh
      BY DEF Fresh, Remembered, Holds, HandlerPc
    <2> QED BY <1>12, <2>1, <2>2, Undisturbed DEF EnqueueForAllFiles, Holds
  <1> QED
    BY <1>0, <1>1, <1>2, <1>3, <1>4, <1>5, <1>6, <1>7, <1>8, <1>9, <1>10, <1>11, <1>12
    DEF QueueNext, queueVars, ClientStep, Edit, EnqueueCheck

\* While no handler outlives its lease, no job is ever in the hands of two
\* workers: what the comment on Claim promises, under the assumption it needs.
THEOREM LeaseExclusive == ASSUME ~Lapse PROVE QueueSpec => []JobHeldOnce
  <1>1. QueueInit => Exclusive
    BY TypeInit, Defaults DEF QueueInit, Exclusive, HeldRows, JobHeldOnce, Holds, HandlerPc
  <1>2. Exclusive /\ [QueueNext]_queueVars => Exclusive'
    BY RowsStep, OthersStep, ExclusiveStep DEF Exclusive
  <1>3. Exclusive => JobHeldOnce
    BY DEF Exclusive
  <1> QED BY <1>1, <1>2, <1>3, PTL DEF QueueSpec
-----------------------------------------------------------------------------
(* No edit is missed                                                       *)

\* A worker in a handler has the job it has read, or its row has gone with the file.
HandsTrue ==
  \A w \in Worker : worker[w].pc \in HandlerPc
    => \/ /\ job[worker[w].id].state = "running"
          /\ For(job[worker[w].id], worker[w].kind, worker[w].node)
       \/ job[worker[w].id].state = "none" /\ head[worker[w].node] = Purged

\* It extracts the content that is still the head, and when it has done so, the text is there.
ReadTrue ==
  \A w \in Worker : worker[w].kind = "extract" /\ head[worker[w].node] # Purged
    => /\ worker[w].pc = "work" => worker[w].content = head[worker[w].node]
       /\ worker[w].pc \in {"check", "insert", "done"}
            => <<worker[w].node, head[worker[w].node]>> \in text

EditKept == HandsTrue /\ ReadTrue /\ NoEditMissed

\* What NoEditMissed asks for: a row that is to be handled or looked at, or a request.
Sees(r, n) == (IsPending(r) \/ r.state = "failed") /\ For(r, "extract", n)
Seen(n) == \E j \in Id : Sees(job[j], n)
Comes(n) == \E c \in Client : client[c].pc # "idle" /\ client[c].node = n

LEMMA Missed ==
  NoEditMissed <=> \A n \in Node : head[n] > 0 /\ <<n, head[n]>> \notin text /\ n \notin shed
                                     => Comes(n) \/ Seen(n)
  BY DEF NoEditMissed, Comes, Seen, Sees

\* The heads stay, or go with their files, and whoever sees to a file still does.
LEMMA StillSeen ==
  ASSUME NoEditMissed, text \subseteq text', shed \subseteq shed',
         \A n \in Node : head'[n] = head[n] \/ head'[n] = Purged,
         \A n \in Node : head'[n] > 0 /\ n \notin shed' /\ Comes(n) => Comes(n)' \/ Seen(n)',
         \A n \in Node : head'[n] > 0 /\ n \notin shed' /\ Seen(n)
                           => Seen(n)' \/ <<n, head[n]>> \in text'
  PROVE  NoEditMissed'
  <1>1. ASSUME NEW n \in Node, head'[n] > 0, <<n, head'[n]>> \notin text', n \notin shed'
        PROVE  Comes(n)' \/ Seen(n)'
    <2>1. head'[n] = head[n]
      BY <1>1 DEF Purged
    <2>2. Comes(n) \/ Seen(n)
      BY <1>1, <2>1, Missed
    <2> QED BY <1>1, <2>1, <2>2
  <1> QED BY <1>1 DEF NoEditMissed, Comes, Seen, Sees

SameJob(j) == /\ job'[j].state = job[j].state
              /\ job'[j].kind = job[j].kind /\ job'[j].node = job[j].node

\* Nobody takes a job, and the rows of jobs that are held stay or go with their files.
LEMMA HandsStay ==
  ASSUME HandsTrue, ReadTrue, Others, text \subseteq text',
         \A n \in Node : head'[n] = head[n] \/ head'[n] = Purged,
         \A w \in Worker : worker'[w].pc \in HandlerPc => worker'[w] = worker[w],
         \A w \in Worker :
           worker[w].pc \in HandlerPc /\ worker'[w].pc \in HandlerPc
             => \/ SameJob(worker[w].id)
                \/ job'[worker[w].id].state = "none" /\ head'[worker[w].node] = Purged
  PROVE  HandsTrue' /\ ReadTrue'
  <1>1. ASSUME NEW w \in Worker, worker'[w].pc \in HandlerPc
        PROVE  /\ worker'[w] = worker[w] /\ worker[w].node \in Node
               /\ \/ head'[worker[w].node] = head[worker[w].node]
                  \/ head'[worker[w].node] = Purged
    <2>1. worker[w].node \in Node
      BY DEF Others, WorkerRun
    <2> QED BY <1>1, <2>1
  <1>2. HandsTrue'
    BY <1>1 DEF HandsTrue, For, SameJob
  <1>3. ReadTrue'
    BY <1>1 DEF ReadTrue, HandlerPc
  <1> QED BY <1>2, <1>3

LEMMA EditSeen ==
  ASSUME ~Overlap, Exclusive, EditKept, NEW c \in Client, NEW n \in Node, Edit(c, n)
  PROVE  EditKept'
  <1>1. /\ client[c].pc = "idle" /\ head[n] # Purged
        /\ \A j \in Id : job[j].node = n => job[j].state # "running"
        /\ head' = [head EXCEPT ![n] = @ + 1]
        /\ client' = [client EXCEPT ![c] = [pc |-> "check", node |-> n]]
        /\ shed' = shed \ {n} /\ UNCHANGED <<text, job, worker>>
    BY DEF Edit, Purged
  <1>2. /\ head \in [Node -> Nat \cup {Purged}] /\ client \in [Client -> ClientRun]
        /\ \A w \in Worker : worker[w].node \in Node /\ worker[w].id \in Id
    BY DEF Exclusive, Others, WorkerRun
  <1>3. \A w \in Worker : worker[w].pc \in HandlerPc => worker[w].node # n
    BY <1>1, <1>2 DEF EditKept, HandsTrue, For
  <1>4. \A m \in Node : m # n => head'[m] = head[m]
    BY <1>1, <1>2
  <1>5. HandsTrue'
    BY <1>1, <1>2, <1>3, <1>4 DEF EditKept, HandsTrue, For
  <1>6. ReadTrue'
    BY <1>1, <1>2, <1>3, <1>4 DEF EditKept, ReadTrue, HandlerPc
  <1>7. client'[c].pc = "check" /\ client'[c].node = n /\ \A d \in Client : d # c => client'[d] = client[d]
    BY <1>1, <1>2
  <1>8. ASSUME NEW m \in Node, head'[m] > 0, <<m, head'[m]>> \notin text', m \notin shed'
        PROVE  Comes(m)' \/ Seen(m)'
    <2>1. CASE m = n
      BY <1>7, <2>1 DEF Comes
    <2>2. CASE m # n
      <3>1. Comes(m) \/ Seen(m)
        BY <1>1, <1>4, <1>8, <2>2, Missed DEF EditKept
      <3> QED BY <1>1, <1>7, <3>1 DEF Comes, Seen
    <2> QED BY <2>1, <2>2
  <1>9. NoEditMissed'
    BY <1>8 DEF NoEditMissed, Comes, Seen, Sees
  <1> QED BY <1>5, <1>6, <1>9 DEF EditKept

LEMMA EnqueueCheckSeen ==
  ASSUME Exclusive, EditKept, NEW c \in Client, EnqueueCheck(c)
  PROVE  EditKept'
  <1>1. /\ UNCHANGED <<head, text, job, worker>> /\ shed \subseteq shed'
        /\ client[c].pc = "check" /\ client \in [Client -> ClientRun]
        /\ client' = [client EXCEPT ![c] = IF QueueFull THEN IdleClient ELSE [@ EXCEPT !.pc = "insert"]]
        /\ QueueFull => client[c].node \in shed'
    BY DEF EnqueueCheck, Exclusive, Others
  <1>2. HandsTrue' /\ ReadTrue'
    BY <1>1, HandsStay DEF EditKept, Exclusive, SameJob
  <1>3. ASSUME NEW n \in Node, n \notin shed', Comes(n) PROVE Comes(n)'
    <2>1. PICK d \in Client : client[d].pc # "idle" /\ client[d].node = n
      BY <1>3 DEF Comes
    <2>2. client'[d].pc # "idle" /\ client'[d].node = n
      BY <1>1, <1>3, <2>1 DEF ClientRun
    <2> QED BY <2>2 DEF Comes
  <1>4. \A n \in Node : Seen(n)' <=> Seen(n)
    BY <1>1 DEF Seen
  <1>5. NoEditMissed'
    BY <1>1, <1>3, <1>4, StillSeen DEF EditKept
  <1> QED BY <1>2, <1>5 DEF EditKept

\* A row that is inserted takes no other's place, and afterwards there is one.
LEMMA InsertedSees ==
  ASSUME Rows, NEW k \in Kind, NEW n \in Node, Inserted(k, n)
  PROVE  /\ \A m : Seen(m) => Seen(m)'
         /\ k = "extract" /\ head[n] # Purged => Seen(n)'
  <1>1. CASE UNCHANGED job
    <2>1. k = "extract" /\ PendingFor(k, n) => Seen(n)
      BY DEF PendingFor, Seen, Sees
    <2>2. \A m : Seen(m)' <=> Seen(m)
      BY <1>1 DEF Seen
    <2>3. CASE head[n] = Purged \/ PendingFor(k, n)
      BY <2>1, <2>2, <2>3
    <2>4. CASE Fresh # {} /\ job' = [job EXCEPT ![NewId] = QueuedRow(k, n)]
      <3>1. NewId \in Id /\ job[NewId].state = "none"
        BY <2>4, NewIdFresh DEF Fresh
      <3>2. job'[NewId].state = "queued"
        BY <2>4, <3>1, QueuedRowGood DEF Rows
      <3> QED BY <1>1, <3>1, <3>2
    <2> QED BY <2>3, <2>4 DEF Inserted
  <1>2. CASE Fresh # {} /\ job' = [job EXCEPT ![NewId] = QueuedRow(k, n)]
    <2>1. NewId \in Id /\ job[NewId].state = "none"
      BY <1>2, NewIdFresh DEF Fresh
    <2>2. \A j \in Id : j # NewId => job'[j] = job[j]
      BY <1>2 DEF Rows
    <2>3. job'[NewId] = QueuedRow(k, n)
      BY <1>2, <2>1 DEF Rows
    <2>4. QueuedRow(k, n).state = "queued" /\ QueuedRow(k, n).kind = k /\ QueuedRow(k, n).node = n
      BY Defaults DEF QueuedRow, JobRow
    <2>5. k = "extract" => Seen(n)'
      BY <2>1, <2>3, <2>4 DEF Seen, Sees, IsPending, For
    <2>6. ASSUME NEW m, Seen(m) PROVE Seen(m)'
      <3>1. PICK j \in Id : Sees(job[j], m)
        BY <2>6 DEF Seen
      <3>2. j # NewId
        BY <2>1, <3>1 DEF Sees, IsPending
      <3> QED BY <2>2, <3>1, <3>2 DEF Seen
    <2> QED BY <2>5, <2>6
  <1> QED BY <1>1, <1>2 DEF Inserted

LEMMA EnqueueInsertSeen ==
  ASSUME Exclusive, EditKept, NEW c \in Client, EnqueueInsert(c)
  PROVE  EditKept'
  <1>1. /\ UNCHANGED <<head, text, worker, shed>> /\ client \in [Client -> ClientRun]
        /\ client[c].pc = "insert" /\ client' = [client EXCEPT ![c] = IdleClient]
        /\ Inserted("extract", client[c].node) /\ client[c].node \in Node /\ Rows
    BY DEF EnqueueInsert, Exclusive, Others, ClientRun
  <1>2. \A w \in Worker : worker[w].pc \in HandlerPc => job'[worker[w].id] = job[worker[w].id]
    BY <1>1, InsertedElsewhere DEF Holds, Exclusive, Others, WorkerRun
  <1>3. HandsTrue' /\ ReadTrue'
    BY <1>1, <1>2, HandsStay DEF EditKept, Exclusive, SameJob
  <1>4. PICK m : m = client[c].node
    OBVIOUS
  <1>5. \A n : Seen(n) => Seen(n)'
    BY <1>1, InsertedSees DEF Kind
  <1>6. head[m] # Purged => Seen(m)'
    <2>1. m \in Node /\ Inserted("extract", m)
      BY <1>1, <1>4
    <2> QED BY <1>1, <2>1, InsertedSees DEF Kind
  <1>7. ASSUME NEW n \in Node, head'[n] > 0, Comes(n) PROVE Comes(n)' \/ Seen(n)'
    <2>1. PICK d \in Client : client[d].pc # "idle" /\ client[d].node = n
      BY <1>7 DEF Comes
    <2>2. CASE d = c
      <3>1. n = m /\ head[m] # Purged
        BY <1>1, <1>4, <1>7, <2>1, <2>2 DEF Purged
      <3> QED BY <1>6, <3>1
    <2>3. CASE d # c
      <3>1. client'[d] = client[d]
        BY <1>1, <2>3
      <3> QED BY <2>1, <3>1 DEF Comes
    <2> QED BY <2>2, <2>3
  <1>8. NoEditMissed'
    BY <1>1, <1>5, <1>7, StillSeen DEF EditKept
  <1> QED BY <1>3, <1>8 DEF EditKept

\* Only rows change, those that are held not, and what saw to a file still does, or the
\* history says that it was dropped.
LEMMA RowsTurn ==
  ASSUME Exclusive, EditKept, UNCHANGED <<head, text, worker, client>>, shed \subseteq shed',
         \A w \in Worker, j \in Id : Holds(w, j) => SameJob(j),
         \A j \in Id, n \in Node : Sees(job[j], n) => Sees(job'[j], n) \/ n \in shed'
  PROVE  EditKept'
  <1>1. HandsTrue' /\ ReadTrue'
    BY HandsStay DEF EditKept, Exclusive, Holds, Others, WorkerRun
  <1>2. \A n \in Node : n \notin shed' /\ Seen(n) => Seen(n)'
    BY DEF Seen
  <1>3. \A n \in Node : Comes(n)' <=> Comes(n)
    BY DEF Comes
  <1>4. NoEditMissed'
    BY <1>2, <1>3, StillSeen DEF EditKept
  <1> QED BY <1>1, <1>4 DEF EditKept

LEMMA PurgeSeen ==
  ASSUME Exclusive, EditKept, NEW n \in Node, Purge(n)
  PROVE  EditKept'
  <1>1. /\ head' = [head EXCEPT ![n] = Purged] /\ head \in [Node -> Nat \cup {Purged}]
        /\ job' = [j \in Id |-> IF job[j].node = n THEN NoJob ELSE job[j]]
        /\ UNCHANGED <<text, worker, client, shed>>
    BY DEF Purge, Exclusive, Others
  <1>2. head'[n] = Purged /\ \A m \in Node : m # n => head'[m] = head[m]
    BY <1>1
  <1>3. ASSUME NEW w \in Worker, worker[w].pc \in HandlerPc
        PROVE  \/ SameJob(worker[w].id)
               \/ job'[worker[w].id].state = "none" /\ head'[worker[w].node] = Purged
    <2>1. worker[w].id \in Id /\ worker[w].node \in Node
      BY DEF Exclusive, Others, WorkerRun
    <2>2. CASE job[worker[w].id].node # n
      BY <1>1, <2>1, <2>2 DEF SameJob
    <2>3. CASE job[worker[w].id].node = n /\ job[worker[w].id].state = "running"
      <3>1. worker[w].node = n
        BY <1>3, <2>3 DEF EditKept, HandsTrue, For
      <3> QED BY <1>1, <1>2, <2>1, <2>3, <3>1, Defaults
    <2>4. CASE job[worker[w].id].state = "none"
      <3>1. head[worker[w].node] = Purged /\ job'[worker[w].id].state = "none"
        BY <1>1, <1>3, <2>1, <2>4, Defaults DEF EditKept, HandsTrue
      <3> QED BY <1>1, <1>2, <2>1, <3>1
    <2> QED BY <1>3, <2>2, <2>3, <2>4 DEF EditKept, HandsTrue
  <1>4. HandsTrue' /\ ReadTrue'
    BY <1>1, <1>2, <1>3, HandsStay DEF EditKept, Exclusive
  <1>5. \A m \in Node : m # n /\ Seen(m) => Seen(m)'
    BY <1>1 DEF Seen, Sees, For
  <1>6. \A m \in Node : Comes(m)' <=> Comes(m)
    BY <1>1 DEF Comes
  <1>7. NoEditMissed'
    BY <1>1, <1>2, <1>5, <1>6, StillSeen DEF EditKept, Purged
  <1> QED BY <1>4, <1>7 DEF EditKept

LEMMA ClaimSeen ==
  ASSUME Exclusive, EditKept, NEW w \in Worker, Claim(w)
  PROVE  EditKept'
  <1>1. PICK i \in Id :
          /\ job[i].state = "queued"
          /\ job' = [job EXCEPT ![i].state = "running", ![i].attempts = @ + 1,
                                ![i].lapsed = FALSE, ![i].tried = TRUE]
          /\ worker' = [worker EXCEPT ![w] =
               [IdleWorker EXCEPT !.pc = "open", !.id = i, !.kind = job[i].kind,
                                  !.node = job[i].node]]
    BY DEF Claim
  <1>2. UNCHANGED <<head, text, client, shed>>
    BY DEF Claim
  <1>3. /\ job'[i].state = "running" /\ job'[i].kind = job[i].kind /\ job'[i].node = job[i].node
        /\ \A j \in Id : j # i => job'[j] = job[j]
    BY <1>1 DEF Exclusive, Rows, JobRow
  <1>4. /\ worker'[w].pc = "open" /\ worker'[w].id = i /\ worker'[w].kind = job[i].kind
        /\ worker'[w].node = job[i].node
        /\ \A v \in Worker : v # w => worker'[v] = worker[v]
    BY <1>1, Defaults DEF Exclusive, Others, WorkerRun
  <1>5. HandsTrue'
    <2>1. ASSUME NEW v \in Worker, v # w, worker[v].pc \in HandlerPc
          PROVE  job'[worker[v].id] = job[worker[v].id]
      <3>1. worker[v].id \in Id /\ job[worker[v].id].state # "queued"
        BY <2>1 DEF EditKept, HandsTrue, Exclusive, Others, WorkerRun
      <3> QED BY <1>1, <1>3, <3>1
    <2> QED BY <1>2, <1>3, <1>4, <2>1 DEF EditKept, HandsTrue, For
  <1>6. ReadTrue'
    BY <1>2, <1>4 DEF EditKept, ReadTrue
  <1>7. \A n \in Node : Seen(n) => Seen(n)'
    BY <1>1, <1>3 DEF Seen, Sees, For, IsPending
  <1>8. \A n \in Node : Comes(n)' <=> Comes(n)
    BY <1>2 DEF Comes
  <1>9. NoEditMissed'
    BY <1>2, <1>7, <1>8, StillSeen DEF EditKept
  <1> QED BY <1>5, <1>6, <1>9 DEF EditKept

\* One worker goes on in its handler, with the same job.
LEMMA HandlerSeen ==
  ASSUME Exclusive, EditKept, NEW w \in Worker, HandlerStep(w) \/ HandlerFails(w)
  PROVE  EditKept'
  <1>1. /\ worker[w].pc \in HandlerPc /\ head' = head /\ client' = client /\ shed' = shed
        /\ \A v \in Worker : v # w => worker'[v] = worker[v]
        /\ worker'[w].id = worker[w].id /\ worker'[w].kind = worker[w].kind
        /\ worker'[w].node = worker[w].node
    BY DEF HandlerStep, HandlerFails, OpenForExtract, Extract, DocForNode, Embed,
           ChainCheck, ChainInsert, HandlerPc, Exclusive, Others, WorkerRun
  <1>2. text \subseteq text'
    BY DEF HandlerStep, HandlerFails, OpenForExtract, Extract, DocForNode, Embed, ChainCheck, ChainInsert
  <1>3. /\ \A v \in Worker : worker[v].pc \in HandlerPc => job'[worker[v].id] = job[worker[v].id]
        /\ \A n \in Node : Seen(n) => Seen(n)'
    <2>1. CASE ChainInsert(w)
      <3>1. Inserted("embed", worker[w].node) /\ worker[w].node \in Node /\ Rows
        BY <2>1 DEF ChainInsert, Exclusive, Others, WorkerRun
      <3>2. \A v \in Worker : worker[v].pc \in HandlerPc => Holds(v, worker[v].id) /\ worker[v].id \in Id
        BY DEF Holds, Exclusive, Others, WorkerRun
      <3>3. \A v \in Worker : worker[v].pc \in HandlerPc => job'[worker[v].id] = job[worker[v].id]
        BY <3>1, <3>2, InsertedElsewhere
      <3>4. \A n : Seen(n) => Seen(n)'
        BY <3>1, InsertedSees DEF Kind
      <3> QED BY <3>3, <3>4
    <2>2. CASE ~ChainInsert(w)
      <3>1. job' = job
        BY <2>2 DEF HandlerStep, HandlerFails, OpenForExtract, Extract, DocForNode, Embed, ChainCheck
      <3> QED BY <3>1 DEF Seen
    <2> QED BY <2>1, <2>2
  <1>4. HandsTrue'
    BY <1>1, <1>3 DEF EditKept, HandsTrue, For
  <1>5. worker[w].kind = "extract" /\ head[worker[w].node] # Purged
          => /\ worker'[w].pc = "work" => worker'[w].content = head[worker[w].node]
             /\ worker'[w].pc \in {"check", "insert", "done"}
                  => <<worker[w].node, head[worker[w].node]>> \in text'
    <2>1. worker \in [Worker -> WorkerRun]
      BY DEF Exclusive, Others
    <2>2. CASE OpenForExtract(w)
      BY <2>1, <2>2 DEF OpenForExtract, AfterText, WorkerRun
    <2>3. CASE Extract(w)
      BY <2>1, <2>3 DEF Extract, AfterText, WorkerRun, EditKept, ReadTrue
    <2>4. CASE DocForNode(w) \/ Embed(w)
      BY <2>4 DEF DocForNode, Embed
    <2>5. CASE ChainCheck(w) \/ ChainInsert(w)
      BY <2>1, <2>5 DEF ChainCheck, ChainInsert, WorkerRun, EditKept, ReadTrue
    <2>6. CASE HandlerFails(w)
      BY <2>1, <2>6 DEF HandlerFails, WorkerRun
    <2> QED BY <2>2, <2>3, <2>4, <2>5, <2>6 DEF HandlerStep
  <1>6. ReadTrue'
    BY <1>1, <1>2, <1>5 DEF EditKept, ReadTrue
  <1>7. \A n \in Node : Comes(n)' <=> Comes(n)
    BY <1>1 DEF Comes
  <1>8. NoEditMissed'
    BY <1>1, <1>2, <1>3, <1>7, StillSeen DEF EditKept
  <1> QED BY <1>4, <1>6, <1>8 DEF EditKept

\* A report: only the row of its job changes, and an extraction is reported done when the
\* text of the head is there.
LEMMA ReportSeen ==
  ASSUME Exclusive, EditKept, NEW w \in Worker, ReportStep(w)
  PROVE  EditKept'
  <1>1. /\ worker[w].pc \in HandlerPc /\ UNCHANGED <<head, text, client, shed>>
        /\ worker' = [worker EXCEPT ![w] = IdleWorker]
    BY DEF ReportStep, Complete, Fail, HandlerPc
  <1>2. worker \in [Worker -> WorkerRun] /\ job \in [Id -> JobRow]
    BY DEF Exclusive, Others, Rows
  <1>3. PICK i \in Id : i = worker[w].id
    BY <1>2 DEF WorkerRun
  <1>4. \A j \in Id : j # i => job'[j] = job[j]
    BY <1>2, <1>3 DEF ReportStep, Complete, Fail, Updated
  <1>5. \A v \in Worker : worker'[v].pc \in HandlerPc => v # w /\ worker'[v] = worker[v]
    BY <1>1, <1>2, Defaults DEF HandlerPc
  <1>6. \A v \in Worker : worker[v].pc \in HandlerPc /\ v # w => worker[v].id # i /\ worker[v].id \in Id
    BY <1>1, <1>2, <1>3 DEF Exclusive, JobHeldOnce, Holds, WorkerRun
  <1>7. HandsTrue' /\ ReadTrue'
    BY <1>1, <1>4, <1>5, <1>6, HandsStay DEF EditKept, Exclusive, SameJob
  <1>8. ASSUME NEW n \in Node, head[n] > 0, Sees(job[i], n), ~Sees(job'[i], n)
        PROVE  <<n, head[n]>> \in text
    <2>1. CASE Complete(w)
      <3>1. worker[w].pc = "done" /\ job[i].state # "none"
        BY <2>1, <1>8 DEF Complete, Sees, IsPending
      <3>2. Holds(w, i)
        BY <1>1, <1>3 DEF Holds
      <3>3. job[i].state = "running" /\ job[i].kind = "extract" /\ job[i].node = n
        BY <1>8, <3>1, <3>2 DEF Exclusive, HeldRows, Sees, For
      <3>4. worker[w].kind = "extract" /\ worker[w].node = n
        BY <1>1, <1>3, <3>3 DEF EditKept, HandsTrue, For
      <3> QED BY <1>8, <3>1, <3>4 DEF EditKept, ReadTrue, Purged
    <2>2. CASE Fail(w)
      <3>1. job' = job \/ job'[i] = [job[i] EXCEPT !.state = Spent(job[i]), !.due = FALSE]
        BY <1>2, <1>3, <2>2 DEF Fail, Updated
      <3>2. CASE job' = job
        BY <1>8, <3>2
      <3>3. CASE job'[i] = [job[i] EXCEPT !.state = Spent(job[i]), !.due = FALSE]
        <4>1. job'[i].kind = job[i].kind /\ job'[i].node = job[i].node /\ job'[i].state \in {"queued", "failed"}
          BY <1>2, <3>3 DEF JobRow, Spent
        <4> QED BY <1>8, <4>1 DEF Sees, For, IsPending
      <3> QED BY <3>1, <3>2, <3>3
    <2> QED BY <2>1, <2>2 DEF ReportStep
  <1>9. \A n \in Node : head'[n] > 0 /\ Seen(n) => Seen(n)' \/ <<n, head[n]>> \in text'
    BY <1>1, <1>4, <1>8 DEF Seen
  <1>10. \A n \in Node : Comes(n)' <=> Comes(n)
    BY <1>1 DEF Comes
  <1>11. NoEditMissed'
    BY <1>1, <1>9, <1>10, StillSeen DEF EditKept
  <1> QED BY <1>7, <1>11 DEF EditKept

\* A worker gives its job up, or leaves for good.
LEMMA LeaveSeen ==
  ASSUME Exclusive, EditKept, NEW w \in Worker,
         ReportLost(w) \/ Crash(w) \/ Start(w) \/ Sigterm(w) \/ Exit(w)
  PROVE  EditKept'
  <1>1. UNCHANGED <<head, text, client, shed, job>> /\ worker \in [Worker -> WorkerRun]
    BY DEF ReportLost, Crash, Start, Sigterm, Exit, Exclusive, Others
  <1>2. \A v \in Worker : worker'[v].pc \in HandlerPc => worker'[v] = worker[v]
    BY <1>1, Defaults DEF ReportLost, Crash, Start, Sigterm, Exit, HandlerPc, WorkerRun
  <1>3. HandsTrue' /\ ReadTrue'
    BY <1>1, <1>2, HandsStay DEF EditKept, Exclusive, SameJob
  <1>4. NoEditMissed'
    BY <1>1 DEF EditKept, NoEditMissed
  <1> QED BY <1>3, <1>4 DEF EditKept

LEMMA HeldState ==
  ASSUME Exclusive, NEW w \in Worker, NEW j \in Id, Holds(w, j)
  PROVE  job[j].state \in {"running", "none"} /\ ~Stale(job[j])
  BY DEF Exclusive, HeldRows, Stale

LEMMA ReapStaleSeen ==
  ASSUME Exclusive, EditKept, NEW w \in Worker, ReapStale(w)
  PROVE  EditKept'
  <1>1. /\ UNCHANGED <<head, text, worker, client, shed>> /\ job \in [Id -> JobRow]
        /\ job' = [j \in Id |-> IF Stale(job[j]) THEN Reaped(job[j]) ELSE job[j]]
    BY DEF ReapStale, Exclusive, Rows
  <1>2. \A v \in Worker, j \in Id : Holds(v, j) => SameJob(j)
    BY <1>1, HeldState DEF SameJob
  <1>3. ASSUME NEW j \in Id, NEW n \in Node, Sees(job[j], n) PROVE Sees(job'[j], n)
    <2>1. CASE Stale(job[j])
      <3>1. job'[j] = Reaped(job[j])
        BY <1>1, <2>1
      <3>2. Reaped(job[j]).kind = job[j].kind /\ Reaped(job[j]).node = job[j].node
            /\ Reaped(job[j]).state \in {"queued", "failed"}
        BY <1>1 DEF Reaped, Spent, JobRow
      <3> QED BY <1>3, <3>1, <3>2 DEF Sees, For, IsPending
    <2> QED BY <1>1, <1>3, <2>1
  <1> QED BY <1>1, <1>2, <1>3, RowsTurn

LEMMA PassingSeen ==
  ASSUME Exclusive, EditKept, NEW i \in Id, Passing(i)
  PROVE  EditKept'
  <1>1. UNCHANGED <<head, text, worker, client, shed>> /\ job \in [Id -> JobRow]
    BY DEF Passing, BackoffEnds, LeaseEnds, TtlPasses, Exclusive, Rows
  <1>2. \A j \in Id : SameJob(j)
    BY <1>1 DEF Passing, BackoffEnds, LeaseEnds, TtlPasses, SameJob, JobRow
  <1>3. \A j \in Id, n \in Node : Sees(job[j], n) => Sees(job'[j], n)
    BY <1>2 DEF SameJob, Sees, For, IsPending
  <1> QED BY <1>1, <1>2, <1>3, RowsTurn

\* What is dropped is written down.
LEMMA DroppedSeen ==
  ASSUME NEW js, js \subseteq Id, NEW j \in js, NEW n \in Node, Sees(job[j], n)
  PROVE  n \in Dropped(js)
  <1>1. job[j].kind = "extract" /\ job[j].state # "done" /\ n = job[j].node
    BY DEF Sees, For, IsPending
  <1> QED BY <1>1 DEF Dropped

LEMMA DeleteFinishedSeen ==
  ASSUME Exclusive, EditKept, NEW i \in Id, DeleteFinished(i)
  PROVE  EditKept'
  <1>1. /\ UNCHANGED <<head, text, worker, client>> /\ shed' = shed \cup Dropped({i})
        /\ job[i].state \in {"done", "failed"} /\ \A j \in Id : j # i => job'[j] = job[j]
    BY DEF DeleteFinished, Exclusive, Rows
  <1>2. \A v \in Worker, j \in Id : Holds(v, j) => SameJob(j)
    BY <1>1, HeldState DEF SameJob
  <1>3. \A n \in Node : Sees(job[i], n) => n \in shed'
    <2>1. i \in {i} /\ {i} \subseteq Id
      OBVIOUS
    <2> QED BY <1>1, <2>1, DroppedSeen
  <1>4. shed \subseteq shed'
    BY <1>1
  <1> QED BY <1>1, <1>2, <1>3, <1>4, RowsTurn

LEMMA DeleteStaleQueuedSeen ==
  ASSUME Exclusive, EditKept, DeleteStaleQueued
  PROVE  EditKept'
  <1>1. PICK js : js = {j \in Id : StaleQueued(job[j])}
    OBVIOUS
  <1>2. /\ UNCHANGED <<head, text, worker, client>> /\ shed' = shed \cup Dropped(js)
        /\ \A j \in Id : j \notin js => job'[j] = job[j]
        /\ \A j \in js : job[j].state = "queued"
    BY <1>1 DEF DeleteStaleQueued, StaleQueued
  <1>3. \A v \in Worker, j \in Id : Holds(v, j) => SameJob(j)
    BY <1>2, HeldState DEF SameJob
  <1>4. ASSUME NEW j \in Id, NEW n \in Node, Sees(job[j], n) PROVE Sees(job'[j], n) \/ n \in shed'
    <2>1. CASE j \in js
      <3>1. js \subseteq Id
        BY <1>1
      <3> QED BY <1>2, <1>4, <2>1, <3>1, DroppedSeen
    <2> QED BY <1>2, <1>4, <2>1
  <1>5. shed \subseteq shed'
    BY <1>2
  <1> QED BY <1>2, <1>3, <1>4, <1>5, RowsTurn

LEMMA RetryFailedSeen ==
  ASSUME Exclusive, EditKept, NEW ks, RetryFailed(ks)
  PROVE  EditKept'
  <1>1. /\ UNCHANGED <<head, text, worker, client, shed>> /\ job \in [Id -> JobRow]
        /\ job' = job \/ job' = Requeued(ks)
    BY DEF RetryFailed, Exclusive, Rows
  <1>2. ASSUME NEW j \in Id
        PROVE  /\ job'[j].kind = job[j].kind /\ job'[j].node = job[j].node
               /\ job'[j].state = job[j].state \/ (job[j].state = "failed" /\ job'[j].state = "queued")
    <2>1. CASE job' = job
      BY <2>1
    <2>2. CASE job' = Requeued(ks)
      BY <1>1, <2>2 DEF Requeued, JobRow
    <2> QED BY <1>1, <2>1, <2>2
  <1>3. \A v \in Worker, j \in Id : Holds(v, j) => SameJob(j)
    BY <1>2, HeldState DEF SameJob
  <1>4. \A j \in Id, n \in Node : Sees(job[j], n) => Sees(job'[j], n)
    BY <1>2 DEF Sees, For, IsPending
  <1> QED BY <1>1, <1>3, <1>4, RowsTurn

LEMMA EnqueueForAllFilesSeen ==
  ASSUME Exclusive, EditKept, EnqueueForAllFiles
  PROVE  EditKept'
  <1>1. PICK live : live = {n \in Node : head[n] > 0 /\ ~PendingFor("extract", n)}
    OBVIOUS
  <1>2. PICK at \in [live -> Fresh] :
          /\ \A m, n \in live : at[m] = at[n] => m = n
          /\ job' = [j \in Id |-> IF \E n \in live : at[n] = j
                                    THEN QueuedRow("extract", CHOOSE n \in live : at[n] = j)
                                    ELSE job[j]]
    BY <1>1 DEF EnqueueForAllFiles
  <1>3. UNCHANGED <<head, text, worker, client>> /\ shed' = shed \ live
    BY <1>1 DEF EnqueueForAllFiles
  <1>4. \A j \in Id : j \notin Fresh => job'[j] = job[j]
    BY <1>2
  <1>5. \A j \in Id : j \in Fresh => job[j].state = "none" /\ \A v \in Worker : ~Holds(v, j)
    BY DEF Fresh, Remembered, Holds, HandlerPc
  <1>6. ASSUME NEW n \in live PROVE Seen(n)'
    <2>1. at[n] \in Id
      BY <1>2 DEF Fresh
    <2>2. (CHOOSE m \in live : at[m] = at[n]) = n
      BY <1>2
    <2>3. job'[at[n]] = QueuedRow("extract", n)
      BY <1>2, <2>1, <2>2
    <2>4. n \in Node
      BY <1>1
    <2>5. QueuedRow("extract", n).state = "queued" /\ QueuedRow("extract", n).kind = "extract"
          /\ QueuedRow("extract", n).node = n
      BY <2>4, Defaults DEF QueuedRow, JobRow
    <2> QED BY <2>1, <2>3, <2>5 DEF Seen, Sees, IsPending, For
  <1>7. \A n \in Node : Seen(n) => Seen(n)'
    BY <1>4, <1>5 DEF Seen, Sees, IsPending
  <1>8. \A v \in Worker : worker[v].pc \in HandlerPc => SameJob(worker[v].id)
    BY <1>4, <1>5 DEF SameJob, Holds, Exclusive, Others, WorkerRun
  <1>9. HandsTrue' /\ ReadTrue'
    BY <1>3, <1>8, HandsStay DEF EditKept, Exclusive
  <1>10. \A n \in Node : Comes(n)' <=> Comes(n)
    BY <1>3 DEF Comes
  <1>11. ASSUME NEW n \in Node, head'[n] > 0, <<n, head'[n]>> \notin text', n \notin shed'
         PROVE  Comes(n)' \/ Seen(n)'
    <2>1. CASE n \in live
      BY <1>6, <2>1
    <2>2. CASE n \notin live
      <3>1. Comes(n) \/ Seen(n)
        BY <1>3, <1>11, <2>2, Missed DEF EditKept
      <3> QED BY <1>7, <1>10, <3>1
    <2> QED BY <2>1, <2>2
  <1>12. NoEditMissed'
    BY <1>11 DEF NoEditMissed, Comes, Seen, Sees
  <1> QED BY <1>9, <1>12 DEF EditKept

LEMMA EditStep ==
  ASSUME ~Overlap, Exclusive, EditKept, [QueueNext]_queueVars
  PROVE  EditKept'
  <1>1. CASE UNCHANGED queueVars
    BY <1>1 DEF queueVars, EditKept, HandsTrue, ReadTrue, NoEditMissed
  <1>2. CASE QueueNext
    BY <1>2, EditSeen, EnqueueCheckSeen, EnqueueInsertSeen, PurgeSeen, ClaimSeen, HandlerSeen,
       ReportSeen, LeaveSeen, ReapStaleSeen, PassingSeen, DeleteFinishedSeen,
       DeleteStaleQueuedSeen, RetryFailedSeen, EnqueueForAllFilesSeen
       DEF QueueNext, ClientStep
  <1> QED BY <1>1, <1>2

\* As long as no file is edited while a job for it is running and no handler outlives its
\* lease, a stored file without text has a request, a pending job or a dead letter that
\* will see to it, unless the cap or the prune has dropped the work for that very edit: no
\* crash, retry, late report or reaping ends a job whose text was never stored
\* (jobs/store.go, extract/handler.go).
THEOREM EditsAreSeen == ~Lapse /\ ~Overlap => (QueueSpec => []NoEditMissed)
  <1> SUFFICES ASSUME ~Lapse, ~Overlap PROVE QueueSpec => []NoEditMissed
    OBVIOUS
  <1>1. QueueInit => Exclusive /\ EditKept
    BY TypeInit, Defaults
       DEF QueueInit, Exclusive, HeldRows, JobHeldOnce, Holds, HandlerPc,
           EditKept, HandsTrue, ReadTrue, NoEditMissed
  <1>2. (Exclusive /\ EditKept) /\ [QueueNext]_queueVars => (Exclusive /\ EditKept)'
    BY RowsStep, OthersStep, ExclusiveStep, EditStep DEF Exclusive
  <1>3. Exclusive /\ EditKept => NoEditMissed
    BY DEF EditKept
  <1> QED BY <1>1, <1>2, <1>3, PTL DEF QueueSpec
=============================================================================
