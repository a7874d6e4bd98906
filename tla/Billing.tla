------------------------------ MODULE Billing -------------------------------
(***************************************************************************)
(* The billing seam (server/internal/jobs/billing and its admin handlers):  *)
(* plans that write a quota through to the account, the meter of a worker   *)
(* that samples every account into one row per period and announces what    *)
(* it saw, and the webhook that delivers the announcements with retries.    *)
(*                                                                          *)
(* A period is its number.  Bytes are one total per account; prices, names  *)
(* and signatures are left out.                                             *)
(***************************************************************************)
EXTENDS Naturals, FiniteSets

CONSTANTS
  Owner, Plan,
  Meter,        \* workers that meter
  Bytes,        \* what an account may store
  Limits,       \* quotas a plan may have
  MaxPeriod, MaxSweeps, MaxPlanOps,  \* bounds
  Attempts,     \* webhook attempts
  MaxCrashes    \* bound on crashes of a worker

ASSUME BillingAssumption ==
  /\ Bytes \subseteq Nat /\ Limits \subseteq Nat
  /\ MaxPeriod \in Nat \ {0} /\ MaxSweeps \in Nat /\ MaxPlanOps \in Nat
  /\ Attempts \in Nat \ {0} /\ MaxCrashes \in Nat

VARIABLES
  period,       \* the period the clock is in
  stored,       \* files.Usage: total bytes of each account
  quota,        \* users.quota_bytes: {} unlimited, {q} a limit
  planQuota,    \* billing_plans: the limit of each plan
  assigned,     \* account_plans: {} or {plan}
  records,      \* metering_records by owner and period
  meters,       \* each worker: its sweep, and what it remembers to have announced
  sweeps,       \* sweeps begun in this period
  outbox,       \* deliveries in flight
  planOps, crashes,
  told,         \* history: how often a worker announced what, since it started
  closed        \* history: period.closed events with the figures they carry

billVars == <<period, stored, quota, planQuota, assigned, records, meters, sweeps,
              outbox, planOps, crashes, told, closed>>
plansAndQuotas == <<quota, planQuota, assigned, planOps>>

Periods == 1..MaxPeriod
Topics == ({"closed"} \X {0} \X (0..MaxPeriod)) \cup ({"quota"} \X Owner \X Periods)
NoRecord == [there |-> FALSE]
Between(announced) == [at |-> "wait", announced |-> announced]

(***************************************************************************)
(* The webhook                                                             *)
(***************************************************************************)
\* Detached from what caused it: one goroutine per event.
Notify(event) == outbox' = outbox \cup {[event |-> event, tries |-> 0]}

\* Attempts deliveries in all.
TryAgain(m) == m.tries + 1 < Attempts

\* A failure of the transport, a 429 or a 5xx is tried again.
Deliver(m) ==
  /\ \/ outbox' = outbox \ {m}
     \/ TryAgain(m) /\ outbox' = (outbox \ {m}) \cup {[m EXCEPT !.tries = @ + 1]}
  /\ UNCHANGED <<period, stored, quota, planQuota, assigned, records, meters, sweeps, planOps, crashes, told, closed>>

(***************************************************************************)
(* Plans                                                                   *)
(***************************************************************************)
\* Editing a plan leaves the accounts that are on it alone.
UpsertPlan(p, q) == planQuota' = [planQuota EXCEPT ![p] = {q}]

handleAdminUpsertPlan(p, q) ==
  /\ planOps < MaxPlanOps
  /\ planOps' = planOps + 1
  /\ UpsertPlan(p, q)
  /\ UNCHANGED <<period, stored, quota, assigned, records, meters, sweeps, outbox, crashes, told, closed>>

\* One transaction: the assignment, and the plan's quota on the account.
AssignPlan(o, p) ==
  /\ planQuota[p] # {}
  /\ assigned' = [assigned EXCEPT ![o] = {p}]
  /\ quota' = [quota EXCEPT ![o] = planQuota[p]]

UnassignPlan(o) ==
  /\ assigned' = [assigned EXCEPT ![o] = {}]
  /\ UNCHANGED quota

handleAdminSetAccountPlan(o) ==
  /\ planOps < MaxPlanOps
  /\ planOps' = planOps + 1
  /\ UnassignPlan(o) \/ \E p \in Plan : AssignPlan(o, p)
  /\ Notify(<<"plan.changed", o>>)
  /\ UNCHANGED <<period, stored, planQuota, records, meters, sweeps, crashes, told, closed>>

(***************************************************************************)
(* The meter                                                               *)
(***************************************************************************)
\* PeriodFor(now): the sweep keeps the period it began in, however long it takes.
Sweep(w) ==
  /\ meters[w].at = "wait"
  /\ sweeps < MaxSweeps
  /\ sweeps' = sweeps + 1
  /\ meters' = [meters EXCEPT ![w] =
       [at |-> "close", announced |-> @.announced, period |-> period, left |-> Owner]]
  /\ UNCHANGED <<period, stored, plansAndQuotas, records, outbox, crashes, told, closed>>

\* Mutant: the period that just began is announced as closed.
ClosesCurrent(w) ==
  /\ meters[w].at = "close"
  /\ LET p == meters[w].period
         key == <<"closed", 0, p>>
         silent == \A o \in Owner : records[o][p] = NoRecord
     IN IF key \in meters[w].announced
        THEN /\ meters' = [meters EXCEPT ![w].at = "sample"]
             /\ UNCHANGED <<outbox, told, closed>>
        ELSE /\ meters' = [meters EXCEPT ![w].at = "sample", ![w].announced = @ \cup {key}]
             /\ told' = [told EXCEPT ![w][key] = @ + 1]
             /\ IF silent THEN UNCHANGED <<outbox, closed>>
                ELSE /\ Notify(<<"period.closed", p>>)
                     /\ closed' = closed \cup {[period |-> p, figures |-> [o \in Owner |-> records[o][p]]]}
  /\ UNCHANGED <<period, stored, plansAndQuotas, records, sweeps, crashes>>

\* Mutant: the period before the last one.
ClosesEarlier(w) ==
  /\ meters[w].at = "close"
  /\ LET p == meters[w].period - 2
         key == <<"closed", 0, p>>
         silent == p \notin Periods \/ \A o \in Owner : records[o][p] = NoRecord
     IN IF key \in meters[w].announced
        THEN /\ meters' = [meters EXCEPT ![w].at = "sample"]
             /\ UNCHANGED <<outbox, told, closed>>
        ELSE /\ meters' = [meters EXCEPT ![w].at = "sample", ![w].announced = @ \cup {key}]
             /\ told' = [told EXCEPT ![w][key] = @ + 1]
             /\ IF silent THEN UNCHANGED <<outbox, closed>>
                ELSE /\ Notify(<<"period.closed", p>>)
                     /\ closed' = closed \cup {[period |-> p, figures |-> [o \in Owner |-> records[o][p]]]}
  /\ UNCHANGED <<period, stored, plansAndQuotas, records, sweeps, crashes>>

\* The period before the sweep's, once in the life of the worker; a period
\* in which nothing was measured is marked and not announced.
closePrevious(w) ==
  /\ meters[w].at = "close"
  /\ LET p == meters[w].period - 1
         key == <<"closed", 0, p>>
         silent == p \notin Periods \/ \A o \in Owner : records[o][p] = NoRecord
     IN IF key \in meters[w].announced
        THEN /\ meters' = [meters EXCEPT ![w].at = "sample"]
             /\ UNCHANGED <<outbox, told, closed>>
        ELSE /\ meters' = [meters EXCEPT ![w].at = "sample", ![w].announced = @ \cup {key}]
             /\ told' = [told EXCEPT ![w][key] = @ + 1]
             /\ IF silent THEN UNCHANGED <<outbox, closed>>
                ELSE /\ Notify(<<"period.closed", p>>)
                     /\ closed' = closed \cup {[period |-> p, figures |-> [o \in Owner |-> records[o][p]]]}
  /\ UNCHANGED <<period, stored, plansAndQuotas, records, sweeps, crashes>>

\* The upsert on (owner, period): last figures, and the greatest total so far.  The
\* number of samples and the copies of plan and limit are left out.
RecordUsage(o, p) ==
  records' = [records EXCEPT ![o][p] =
    [there |-> TRUE, total |-> stored[o],
     peak |-> IF @.there /\ @.peak > stored[o] THEN @.peak ELSE stored[o]]]

\* Mutant: the announcement is not remembered.
AnnouncesAgain(w, o) ==
  LET over == \E q \in quota[o] : stored[o] > q
      key == <<"quota", o, meters[w].period>>
  IN IF over /\ key \notin meters[w].announced
     THEN /\ Notify(<<"quota.exceeded", o, meters[w].period>>)
          /\ told' = [told EXCEPT ![w][key] = @ + 1]
          /\ meters' = [meters EXCEPT ![w].left = @ \ {o}]
     ELSE /\ meters' = [meters EXCEPT ![w].left = @ \ {o}]
          /\ UNCHANGED <<outbox, told>>

checkQuotaEvent(w, o) ==
  LET over == \E q \in quota[o] : stored[o] > q
      key == <<"quota", o, meters[w].period>>
  IN IF over /\ key \notin meters[w].announced
     THEN /\ Notify(<<"quota.exceeded", o, meters[w].period>>)
          /\ told' = [told EXCEPT ![w][key] = @ + 1]
          /\ meters' = [meters EXCEPT ![w].left = @ \ {o}, ![w].announced = @ \cup {key}]
     ELSE /\ meters' = [meters EXCEPT ![w].left = @ \ {o}]
          /\ UNCHANGED <<outbox, told>>

\* One account: read, recorded and compared with its limit.
SampleOwner(w, o) ==
  /\ meters[w].at = "sample" /\ o \in meters[w].left
  /\ RecordUsage(o, meters[w].period)
  /\ checkQuotaEvent(w, o)
  /\ UNCHANGED <<period, stored, plansAndQuotas, sweeps, crashes, closed>>

\* A failed read or write leaves this account without a sample, not the others.
SkipOwner(w, o) ==
  /\ meters[w].at = "sample" /\ o \in meters[w].left
  /\ meters' = [meters EXCEPT ![w].left = @ \ {o}]
  /\ UNCHANGED <<period, stored, plansAndQuotas, records, sweeps, outbox, crashes, told, closed>>

EndSweep(w) ==
  /\ meters[w].at = "sample" /\ meters[w].left = {}
  /\ meters' = [meters EXCEPT ![w] = Between(@.announced)]
  /\ UNCHANGED <<period, stored, plansAndQuotas, records, sweeps, outbox, crashes, told, closed>>

\* Memory and deliveries of the worker are lost.
Crash(w) ==
  /\ crashes < MaxCrashes
  /\ crashes' = crashes + 1
  /\ meters' = [meters EXCEPT ![w] = Between({})]
  /\ outbox' \in SUBSET outbox
  /\ told' = [told EXCEPT ![w] = [k \in Topics |-> 0]]
  /\ UNCHANGED <<period, stored, plansAndQuotas, records, sweeps, closed>>

(***************************************************************************)
(* The world                                                               *)
(***************************************************************************)
Store(o, b) ==
  /\ b # stored[o]
  /\ stored' = [stored EXCEPT ![o] = b]
  /\ UNCHANGED <<period, plansAndQuotas, records, meters, sweeps, outbox, crashes, told, closed>>

\* The interval of the meter is shorter than a period: each period sees a sweep begin.
NextPeriod ==
  /\ period < MaxPeriod /\ sweeps > 0
  /\ period' = period + 1 /\ sweeps' = 0
  /\ UNCHANGED <<stored, plansAndQuotas, records, meters, outbox, crashes, told, closed>>

BillInit ==
  /\ period = 1 /\ sweeps = 0
  /\ stored \in [Owner -> Bytes]
  /\ quota = [o \in Owner |-> {}] /\ assigned = [o \in Owner |-> {}]
  /\ planQuota \in [Plan -> {{}} \cup {{q} : q \in Limits}]
  /\ records = [o \in Owner |-> [p \in Periods |-> NoRecord]]
  /\ meters = [w \in Meter |-> Between({})]
  /\ outbox = {} /\ planOps = 0 /\ crashes = 0 /\ closed = {}
  /\ told = [w \in Meter |-> [k \in Topics |-> 0]]

Metering(w) ==
  \/ Sweep(w) \/ closePrevious(w) \/ EndSweep(w)
  \/ \E o \in Owner : SampleOwner(w, o)

BillNext ==
  \/ \E p \in Plan, q \in Limits : handleAdminUpsertPlan(p, q)
  \/ \E o \in Owner : handleAdminSetAccountPlan(o)
  \/ \E w \in Meter : \/ Metering(w) \/ Crash(w)
                      \/ \E o \in Owner : SkipOwner(w, o)
  \/ \E m \in outbox : Deliver(m)
  \/ \E o \in Owner, b \in Bytes : Store(o, b)
  \/ NextPeriod

\* The ticker of a worker fires for ever, and its sweep goes on.
BillFairness == \A w \in Meter : WF_billVars(Metering(w))

(***************************************************************************)
(* Properties                                                              *)
(***************************************************************************)
\* One row per owner and period, of the shape the schema demands.
BillTypeOK ==
  /\ period \in Periods /\ stored \in [Owner -> Bytes]
  /\ \A o \in Owner : quota[o] \subseteq Limits /\ assigned[o] \subseteq Plan
                      /\ Cardinality(quota[o]) <= 1 /\ Cardinality(assigned[o]) <= 1
  /\ \A o \in Owner, p \in Periods : records[o][p] # NoRecord =>
       {records[o][p].total, records[o][p].peak} \subseteq Bytes
  /\ \A m \in outbox : m.tries < Attempts

\* What is announced as closed is final: no sample changes the figures of a
\* period after closePrevious read them, for all that a sweep begun before the
\* end of the period writes into it afterwards.
ClosedIsFinal == \A c \in closed : \A o \in Owner : records[o][c.period] = c.figures[o]

\* In one life of a worker nothing is announced twice, whatever the number of
\* sweeps that see an account over its limit or a period over.
AnnouncedOncePerLife == \A w \in Meter, k \in Topics : told[w][k] <= 1

\* A period in which something was measured is announced as closed once the
\* next one has begun, if the worker is not restarted.
EveryPeriodCloses ==
  \A p \in Periods :
    (period > p /\ \E o \in Owner : records[o][p] # NoRecord)
      ~> (crashes > 0 \/ \E c \in closed : c.period = p)
=============================================================================
