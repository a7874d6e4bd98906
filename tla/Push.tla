-------------------------------- MODULE Push --------------------------------
(***************************************************************************)
(* Web push to the devices of one account (server/internal/push, devices in *)
(* server/internal/auth/devices.go and their handlers): a request that      *)
(* succeeded starts a notification, a notification reads the account's      *)
(* change cursor, announces it if it moved, and fans out to the             *)
(* subscriptions.  A device is a session of kind device; an endpoint is an  *)
(* address at the browser's push service, which may report it gone.         *)
(***************************************************************************)
EXTENDS Naturals, FiniteSets

CONSTANTS
  Device, Endpoint,
  Notification,   \* notifications in flight
  MaxSeq,         \* bound on the journal
  MaxFaults,      \* bound on restarts, failed reads and failed sends
  Rebind          \* may a device register anew while a fan-out holds its old endpoint?

ASSUME PushAssumption == MaxSeq \in Nat /\ MaxFaults \in Nat /\ Rebind \in BOOLEAN

VARIABLES
  device,         \* "live" or "revoked"
  subs,           \* push_subscriptions: the endpoint of a device, or none
  seq,            \* the account's latest change
  pending,        \* succeeded requests whose notification is not yet started
  lastNotified,   \* memory of the process: the cursor announced last
  notes,          \* the notifications in flight
  gone,           \* endpoints the push service no longer knows
  pushFaults,
  owed,           \* history: the latest change made while the device was subscribed
  sends           \* history: announcements handed to the sender, since the start

pushVars == <<device, subs, seq, pending, lastNotified, notes, gone, pushFaults, owed, sends>>

NoEndpoint == {}
Resting == [at |-> "idle"]

(***************************************************************************)
(* Devices                                                                 *)
(***************************************************************************)
Forget(d) == /\ subs' = [subs EXCEPT ![d] = NoEndpoint]
             /\ owed' = [owed EXCEPT ![d] = 0]

\* Holding an address read before: the fan-out that reached its targets.
Holds(n, d, e) == notes[n].at = "fan" /\ <<d, e>> \in notes[n].left

\* Inserts or replaces, if the device is live at that statement.  An endpoint is the
\* address of one browser: no two devices have the same one.
PutPushSubscription(d, e) ==
  /\ device[d] = "live" /\ e \notin gone
  /\ \A o \in Device \ {d} : subs[o] # {e}
  /\ Rebind \/ \A n \in Notification, f \in Endpoint : ~Holds(n, d, f)
  /\ subs' = [subs EXCEPT ![d] = {e}]
  /\ owed' = [owed EXCEPT ![d] = 0]

handleRegisterPush(d, e) ==
  /\ subs[d] # {e}
  /\ PutPushSubscription(d, e)
  /\ UNCHANGED <<device, seq, pending, lastNotified, notes, gone, pushFaults, sends>>

DeletePushSubscription(d) == subs[d] # NoEndpoint /\ Forget(d)

handleUnregisterPush(d) ==
  /\ DeletePushSubscription(d)
  /\ UNCHANGED <<device, seq, pending, lastNotified, notes, gone, pushFaults, sends>>

\* One statement revokes the session and drops the subscription.
RevokeDevice(d) ==
  /\ device[d] = "live"
  /\ device' = [device EXCEPT ![d] = "revoked"]
  /\ Forget(d)

handleRevokeDevice(d) ==
  /\ RevokeDevice(d)
  /\ UNCHANGED <<seq, pending, lastNotified, notes, gone, pushFaults, sends>>

\* Logout, the sessions page or the console: the subscription row stays.
RevokeOtherwise(d) ==
  /\ device[d] = "live"
  /\ device' = [device EXCEPT ![d] = "revoked"]
  /\ owed' = [owed EXCEPT ![d] = 0]
  /\ UNCHANGED <<subs, seq, pending, lastNotified, notes, gone, pushFaults, sends>>

\* The push service drops an endpoint on its own.
EndpointGone(e) ==
  /\ e \notin gone
  /\ gone' = gone \cup {e}
  /\ UNCHANGED <<device, subs, seq, pending, lastNotified, notes, pushFaults, owed, sends>>

(***************************************************************************)
(* Notification                                                            *)
(***************************************************************************)
\* A handler that changes the tree commits; its answer is not yet sent.
ChangeTree ==
  /\ seq < MaxSeq
  /\ seq' = seq + 1
  /\ pending' = pending + 1
  /\ owed' = [d \in Device |-> IF device[d] = "live" /\ subs[d] # NoEndpoint THEN seq + 1 ELSE owed[d]]
  /\ UNCHANGED <<device, subs, lastNotified, notes, gone, pushFaults, sends>>

\* Only for a method that writes and an answer that is a success.
notifyIfChanged(n) ==
  /\ pending > 0
  /\ notes[n] = Resting
  /\ pending' = pending - 1
  /\ notes' = [notes EXCEPT ![n] = [at |-> "begin"]]
  /\ UNCHANGED <<device, subs, seq, lastNotified, gone, pushFaults, owed, sends>>

LatestSeq(n) ==
  /\ notes[n].at = "begin"
  /\ notes' = [notes EXCEPT ![n] = [at |-> "read", seq |-> seq]]
  /\ UNCHANGED <<device, subs, seq, pending, lastNotified, gone, pushFaults, owed, sends>>

\* Mutant: does not compare with the cursor announced last.
NotifiesAlways(n) ==
  /\ notes[n].at = "read"
  /\ lastNotified' = notes[n].seq
  /\ notes' = [notes EXCEPT ![n] = [at |-> "targets", seq |-> notes[n].seq]]
  /\ UNCHANGED <<device, subs, seq, pending, gone, pushFaults, owed, sends>>

\* Mutant: a cursor that moved by one is not announced.
SkipsOne(n) ==
  /\ notes[n].at = "read"
  /\ IF notes[n].seq > lastNotified + 1
     THEN /\ lastNotified' = notes[n].seq
          /\ notes' = [notes EXCEPT ![n] = [at |-> "targets", seq |-> notes[n].seq]]
     ELSE /\ notes' = [notes EXCEPT ![n] = Resting]
          /\ UNCHANGED lastNotified
  /\ UNCHANGED <<device, subs, seq, pending, gone, pushFaults, owed, sends>>

\* Under the mutex: announced before it is delivered.
notify(n) ==
  /\ notes[n].at = "read"
  /\ IF notes[n].seq > lastNotified
     THEN /\ lastNotified' = notes[n].seq
          /\ notes' = [notes EXCEPT ![n] = [at |-> "targets", seq |-> notes[n].seq]]
     ELSE /\ notes' = [notes EXCEPT ![n] = Resting]
          /\ UNCHANGED lastNotified
  /\ UNCHANGED <<device, subs, seq, pending, gone, pushFaults, owed, sends>>

\* Joined with the sessions: a revoked device is no target.
PushTargetsFor == {t \in Device \X Endpoint : t[2] \in subs[t[1]] /\ device[t[1]] = "live"}

fanout(n) ==
  /\ notes[n].at = "targets"
  /\ notes' = [notes EXCEPT ![n] = [at |-> "fan", seq |-> notes[n].seq, left |-> PushTargetsFor]]
  /\ UNCHANGED <<device, subs, seq, pending, lastNotified, gone, pushFaults, owed, sends>>

\* One goroutine per target.  Gone: the row of the session is deleted,
\* whatever endpoint it holds by now.  Any other failure is only logged.
Send(n, d, e) ==
  /\ Holds(n, d, e)
  /\ sends' = sends \cup {<<d, e, notes[n].seq, n>>}
  /\ notes' = [notes EXCEPT ![n].left = @ \ {<<d, e>>}]
  /\ IF e \in gone THEN Forget(d) ELSE UNCHANGED <<subs, owed>>
  /\ UNCHANGED <<device, seq, pending, lastNotified, gone, pushFaults>>

Finish(n) ==
  /\ notes[n].at = "fan" /\ notes[n].left = {}
  /\ notes' = [notes EXCEPT ![n] = Resting]
  /\ UNCHANGED <<device, subs, seq, pending, lastNotified, gone, pushFaults, owed, sends>>

(***************************************************************************)
(* Faults                                                                  *)
(***************************************************************************)
\* The cursor or the targets cannot be read, or the 30 seconds are over.
Fails(n) ==
  /\ pushFaults < MaxFaults
  /\ notes[n] # Resting
  /\ pushFaults' = pushFaults + 1
  /\ notes' = [notes EXCEPT ![n] = Resting]
  /\ UNCHANGED <<device, subs, seq, pending, lastNotified, gone, owed, sends>>

\* What is in memory is lost; the map of announced cursors starts empty.
RestartNotifier ==
  /\ pushFaults < MaxFaults
  /\ pushFaults' = pushFaults + 1
  /\ notes' = [n \in Notification |-> Resting]
  /\ pending' = 0 /\ lastNotified' = 0 /\ sends' = {}
  /\ UNCHANGED <<device, subs, seq, gone, owed>>

PushInit ==
  /\ device = [d \in Device |-> "live"] /\ subs = [d \in Device |-> NoEndpoint]
  /\ seq = 0 /\ pending = 0 /\ lastNotified = 0
  /\ notes = [n \in Notification |-> Resting]
  /\ gone = {} /\ pushFaults = 0 /\ owed = [d \in Device |-> 0] /\ sends = {}

Works(n) ==
  \/ notifyIfChanged(n) \/ LatestSeq(n) \/ notify(n) \/ fanout(n) \/ Finish(n)
  \/ \E d \in Device, e \in Endpoint : Send(n, d, e)

PushNext ==
  \/ \E d \in Device, e \in Endpoint : handleRegisterPush(d, e)
  \/ \E d \in Device : handleUnregisterPush(d) \/ handleRevokeDevice(d) \/ RevokeOtherwise(d)
  \/ \E e \in Endpoint : EndpointGone(e)
  \/ ChangeTree
  \/ \E n \in Notification : Works(n) \/ Fails(n)
  \/ RestartNotifier

\* The runtime runs every goroutine that can go on.
PushFairness == \A n \in Notification : WF_pushVars(Works(n))

(***************************************************************************)
(* Properties                                                              *)
(***************************************************************************)
\* One subscription per device, and no cursor announced that the journal has not
\* reached.
PushTypeOK ==
  /\ device \in [Device -> {"live", "revoked"}]
  /\ subs \in [Device -> SUBSET Endpoint]
  /\ \A d \in Device : Cardinality(subs[d]) <= 1
  /\ seq \in 0..MaxSeq /\ lastNotified \in 0..seq /\ pending \in 0..MaxSeq
  /\ owed \in [Device -> 0..seq]

\* Within one life of the process a cursor is announced by one notification
\* only, however many requests ended at the same change.
AnnouncedOnce ==
  \A a, b \in sends : a[3] = b[3] => a[4] = b[4]

\* A subscription goes away because its device gave it up or was revoked, or
\* because the push service disowned that very endpoint.
SubscriptionKept ==
  [][\A d \in Device, e \in Endpoint :
       subs[d] = {e} /\ subs'[d] = NoEndpoint
       => \/ handleUnregisterPush(d) \/ device'[d] = "revoked"
          \/ \E n \in Notification : Holds(n, d, e) /\ e \in gone]_pushVars

Tried(d) == \E a \in sends : a[1] = d /\ a[3] >= owed[d]

\* A device that was subscribed when the tree changed is told of that change
\* or a later one, unless it leaves or something failed: a notification that
\* finds the cursor announced may rely on the one that announced it.
EveryoneTold ==
  \A d \in Device : owed[d] > 0 ~> owed[d] = 0 \/ Tried(d) \/ pushFaults > 0
=============================================================================
