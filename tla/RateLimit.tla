----------------------------- MODULE RateLimit -----------------------------
(***************************************************************************)
(* Rate limiting (httpapi/ratelimit.go, ratelimit_user.go, the limiters in  *)
(* server.go): token buckets in the memory of the process, one limiter for  *)
(* the routes that establish who calls, keyed by the address, and others    *)
(* for authenticated routes, keyed by the user.  A request reads the clock  *)
(* before it takes the limiter's lock, so requests are charged in another   *)
(* order than that of their times; the reaper drops idle buckets.  Tokens   *)
(* are counted in fractions, Unit of them to a request.                     *)
(***************************************************************************)
EXTENDS Integers, Sequences, FiniteSetsExt

CONSTANTS
  Client,        \* who calls, each from an address that is not private
  Proxy,         \* addresses in the trusted ranges
  Forwarded,     \* what a caller may have written into X-Forwarded-For itself
  Call,          \* requests in flight
  Unit, Refill,  \* fractions per request, and per tick
  Burst,         \* Burst[l]: the capacity of limiter l, in requests
  ReapAfter,     \* ticks after which a bucket is idle
  MaxWait,       \* ticks a request may wait for the lock
  MaxClock, MaxGrants

ASSUME RateAssumption ==
  /\ {Unit, Refill, ReapAfter, MaxWait, MaxClock, MaxGrants} \subseteq Nat /\ Unit > 0
  /\ 2 * MaxWait < ReapAfter
  /\ Client \cap Proxy = {} /\ "junk" \notin Client
  /\ Forwarded \subseteq Seq(Client \cup Proxy \cup {"junk"})
  /\ Burst \in [DOMAIN Burst -> Nat \ {0}]
  \* server.go and ratelimit.go, reap: 15 minutes are far more than a bucket takes to be
  \* full again, and than requests wait for the lock.
  /\ \A l \in DOMAIN Burst : (ReapAfter - 2 * MaxWait) * Refill >= Burst[l] * Unit

VARIABLES
  clock,
  limiter,       \* which one: they share nothing
  buckets,       \* its map
  calls,         \* what each request in flight has read
  granted,       \* history: granted[c][t]: how many requests that c sent at t or later were
                 \*   let through
  refused        \* history: the refusal decided last, if its time was the latest

rateVars == <<clock, limiter, buckets, calls, granted, refused>>

NotCalling == [at |-> "idle"]
Capacity == Burst[limiter] * Unit

(***************************************************************************)
(* Whom to charge                                                          *)
(***************************************************************************)
isTrusted(a) == a \in Proxy

\* Wrong: the first address is the caller's.
Leftmost(peer, xff) == IF ~isTrusted(peer) \/ xff = <<>> THEN peer ELSE xff[1]

\* Behind a trusted peer, the last address that is one and is not trusted itself.
clientIPFrom(peer, xff) ==
  LET usable == {i \in 1..Len(xff) : xff[i] # "junk" /\ ~isTrusted(xff[i])} IN
  IF ~isTrusted(peer) \/ usable = {} THEN peer
  ELSE xff[CHOOSE i \in usable : \A j \in usable : j <= i]

\* Each proxy appends the address it saw: one proxy, or two.
Through(c) ==
  {Append(f, c) : f \in Forwarded}
    \cup {Append(Append(f, c), q) : f \in Forwarded, q \in Proxy}

\* A request comes directly, or through proxies.
Arrivals(c) ==
  {[peer |-> c, xff |-> f] : f \in Forwarded}
    \cup {[peer |-> p, xff |-> x] : p \in Proxy, x \in Through(c)}

\* Wrong: everybody who comes through the proxy is one caller.
SharedKey(c, arrival) == CHOOSE p \in Proxy : TRUE

\* The route decides: streams are not counted, authentication counts by address.
Key(c, arrival) == IF limiter = "auth" THEN clientIPFrom(arrival.peer, arrival.xff) ELSE c

(***************************************************************************)
(* The bucket                                                              *)
(***************************************************************************)

Capped(n) == IF n > Capacity THEN Capacity ELSE n

\* The time since may be negative: the tokens are taken back and given again later.
Refilled(b, now) == [tokens |-> Capped(b.tokens + (now - b.last) * Refill), last |-> now]

FullBucket(now) == [tokens |-> Capacity, last |-> now]

\* The bucket before the request is charged.
Bucket(key, now) ==
  IF key \in DOMAIN buckets THEN Refilled(buckets[key], now) ELSE FullBucket(now)

WithBucket(f, k, v) == [x \in DOMAIN f \cup {k} |-> IF x = k THEN v ELSE f[x]]

-----------------------------------------------------------------------------
\* The middleware finds the key and reads the clock.
Arrive(r, c) ==
  /\ calls[r] = NotCalling
  /\ \E arrival \in Arrivals(c) :
       calls' = [calls EXCEPT ![r] =
         [at |-> "waits", caller |-> c, now |-> clock, key |-> Key(c, arrival)]]
  /\ UNCHANGED <<clock, limiter, buckets, granted, refused>>

\* Nothing that the caller sent later was let through before.
InOrder(q) == granted[q.caller][q.now + 1] = 0

\* Under the lock: refill, and charge if there is enough.
allow(r) ==
  /\ calls[r].at = "waits"
  /\ LET q == calls[r]
         b == Bucket(q.key, q.now) IN
       \/ /\ b.tokens >= Unit
          /\ buckets' = WithBucket(buckets, q.key, [b EXCEPT !.tokens = @ - Unit])
          /\ MapThenSumSet(LAMBDA c : granted[c][0], Client) < MaxGrants
          /\ granted' = [granted EXCEPT ![q.caller] =
               [t \in 0..MaxClock + 1 |-> IF t <= q.now THEN @[t] + 1 ELSE @[t]]]
          /\ UNCHANGED refused
       \/ /\ b.tokens < Unit
          /\ buckets' = WithBucket(buckets, q.key, b)
          /\ refused' = IF InOrder(q) THEN {[caller |-> q.caller, time |-> q.now]} ELSE {}
          /\ UNCHANGED granted
  /\ calls' = [calls EXCEPT ![r] = NotCalling]
  /\ UNCHANGED <<clock, limiter>>

\* Wrong: a bucket is idle as soon as the clock moves on.
ReapsEarly(k) == buckets[k].last < clock

IdleBucket(k) == buckets[k].last < clock - ReapAfter

reap ==
  /\ \E k \in DOMAIN buckets : IdleBucket(k)
  /\ buckets' = [k \in {x \in DOMAIN buckets : ~IdleBucket(x)} |-> buckets[k]]
  /\ UNCHANGED <<clock, limiter, calls, granted, refused>>

Tick ==
  /\ clock < MaxClock
  /\ \A r \in Call : calls[r].at = "waits" => clock - calls[r].now < MaxWait
  /\ clock' = clock + 1
  /\ UNCHANGED <<limiter, buckets, calls, granted, refused>>

RateInit ==
  /\ clock = 0
  /\ limiter \in DOMAIN Burst /\ buckets = [k \in {} |-> 0]
  /\ calls = [r \in Call |-> NotCalling]
  /\ granted = [c \in Client |-> [t \in 0..MaxClock + 1 |-> 0]] /\ refused = {}

RateNext ==
  \/ \E r \in Call : allow(r) \/ \E c \in Client : Arrive(r, c)
  \/ reap
  \/ Tick

RateSpec == RateInit /\ [][RateNext]_rateVars

-----------------------------------------------------------------------------
Granted(c, s, t) == granted[c][s] - granted[c][t + 1]

\* What was charged since time s was sent at most MaxWait before.
GrantedSince(c, s) == granted[c][IF s > MaxWait THEN s - MaxWait ELSE 0]

\* Types, and: no bucket holds more than its capacity or lies in the future
\* (ratelimit.go, allow).
RateTypeOK ==
  /\ clock \in 0..MaxClock
  /\ granted \in [Client -> [0..MaxClock + 1 -> Nat]]
  /\ \A k \in DOMAIN buckets :
       buckets[k].tokens <= Capacity /\ buckets[k].last \in 0..clock

\* Between any two times a caller is let through at most the burst and what was refilled
\* between them, whatever it writes into its headers, in whatever order the requests get
\* the lock, and however often its bucket is dropped (ratelimit.go, allow, reap,
\* clientIPFrom).
RateHolds ==
  \A c \in Client, s \in 0..clock : \A t \in s..clock :
    Granted(c, s, t) * Unit <= Capacity + (t - s) * Refill

\* A caller is refused only for its own requests: since some time it has used the burst
\* and what was refilled since.  A request that was overtaken on its way to the lock may
\* be refused for less (ratelimit.go, allow, clientIPFrom).
RefusedWhenSpent ==
  \A q \in refused : \E s \in 0..q.time :
    GrantedSince(q.caller, s) * Unit > Capacity + (q.time - s) * Refill - Unit

\* A caller gets its share of requests, no more and no less (ratelimit.go, allow).
RateFair == RateHolds /\ RefusedWhenSpent
=============================================================================
