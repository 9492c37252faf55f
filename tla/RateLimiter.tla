---------------------------- MODULE RateLimiter ----------------------------
(***************************************************************************)
(* The rate limiter of the HTTP server (src/src/server.rs): token buckets  *)
(* with bans, one for each address and label.  A request asks two of them, *)
(* first the global bucket of its address and then the one of its          *)
(* endpoint, and gets through when both let it pass; no state depends on   *)
(* whether it does.                                                        *)
(*                                                                         *)
(* The buckets are behind a mutex, but allow reads the clock before it     *)
(* takes the mutex (server.rs:77-78): the threads of the server reach a    *)
(* bucket with readings that are out of order.  A limiter that is not      *)
(* enabled lets everything pass and has no state.                          *)
(*                                                                         *)
(* Second is the number of clock ticks in a second.  Tokens are counted in *)
(* parts, Second of them to a token, so that a bucket with a rate of n     *)
(* tokens a second gains n parts with each tick; the code has an f64.      *)
(***************************************************************************)
EXTENDS Naturals, Sequences

CONSTANTS
  Addresses,     \* the addresses that clients connect from
  Endpoints,     \* "push", "pull" and "ack"
  Global,        \* the label "global"
  Threads,       \* the threads of the server that are in enforce_rate
  None,          \* Option::None
  Second,        \* clock ticks in a second
  Rate,          \* Rate[label]: per_ip_rps and the endpoints' rates
  Burst,         \* rate_limit.burst
  BanSeconds,    \* rate_limit.ban_seconds
  MaxTime        \* bound: the clock stops here

Labels == {Global} \cup Endpoints
Keys == Addresses \X Labels

ASSUME NoneAssumption ==
  None \notin Nat /\ None \notin [tokens : Nat, last : Nat, until : Nat \cup {None}]

ASSUME ClockAssumption == Second \in Nat \ {0} /\ MaxTime \in Nat

\* What RelayConfig::validate guarantees.
ASSUME RateAssumption ==
  /\ Rate \in [Labels -> Nat \ {0}]
  /\ Burst \in Nat \ {0}
  /\ BanSeconds \in Nat

VARIABLES
  buckets,       \* buckets[k]: the Bucket of address and label k, or None
  requests,      \* requests[w]: the buckets to ask yet, and the reading of now
  now,           \* the clock
  \* History, which no action reads to decide anything:
  banEnd,        \* banEnd[k]: the latest end of any ban of k
  watch          \* what one bucket has granted since some call, or None

vars == <<buckets, requests, now, banEnd, watch>>

Idle == [todo |-> <<>>, t |-> None]

Init ==
  /\ buckets = [k \in Keys |-> None]
  /\ requests = [w \in Threads |-> Idle]
  /\ now = 0
  /\ banEnd = [k \in Keys |-> 0]
  /\ watch = None

Tick ==
  /\ now < MaxTime
  /\ now' = now + 1
  /\ UNCHANGED <<buckets, requests, banEnd, watch>>

-----------------------------------------------------------------------------
(***************************************************************************)
(* enforce_rate: a call of allow for each of the two buckets.              *)
(***************************************************************************)

\* The buckets a request of address a for endpoint e asks, in order.
Calls(a, e) == << <<a, Global>>, <<a, e>> >>

EnforceRate(w, a, e) ==
  /\ requests[w] = Idle
  /\ requests' = [requests EXCEPT ![w].todo = Calls(a, e)]
  /\ UNCHANGED <<buckets, now, banEnd, watch>>

\* Instant::now()
ReadClock(w) ==
  /\ requests[w].todo # <<>> /\ requests[w].t = None
  /\ requests' = [requests EXCEPT ![w].t = now]
  /\ UNCHANGED <<buckets, now, banEnd, watch>>

-----------------------------------------------------------------------------
(***************************************************************************)
(* allow, from the lock on, with a reading t of the clock.                 *)
(***************************************************************************)

Capacity == Burst * Second

Entry(k, t) ==
  IF buckets[k] = None THEN [tokens |-> Capacity, last |-> t, until |-> None] ELSE buckets[k]

Banned(k, t) == Entry(k, t).until # None /\ Entry(k, t).until > t

\* saturating_duration_since
Elapsed(b, t) == IF t > b.last THEN t - b.last ELSE 0

\* A mistake to check against: what a bucket gains is not cut off at its burst.
RefilledUncapped(k, t) ==
  Entry(k, t).tokens + Elapsed(Entry(k, t), t) * Rate[k[2]]

\* The tokens of the bucket after the time that has passed.
Refilled(k, t) ==
  LET tokens == Entry(k, t).tokens + Elapsed(Entry(k, t), t) * Rate[k[2]]
  IN  IF tokens < Capacity THEN tokens ELSE Capacity

\* The history of a call that refills bucket k.  It may be the one from which on
\* the bucket is watched; later ones add to what it has granted, and to the time
\* that their readings have taken the bucket back.
Watch(k, t, granted) ==
  \/ /\ watch = None
     /\ watch' = [key |-> k, from |-> t, granted |-> granted, rewound |-> 0]
  \/ watch' = IF watch # None /\ watch.key = k
                THEN [watch EXCEPT !.granted = @ + granted,
                                   !.rewound = @ + (IF t < Entry(k, t).last THEN Entry(k, t).last - t ELSE 0)]
                ELSE watch

\* Mistakes to check against: a refused request renews the ban, ...
RefuseBannedAnew(k, t) ==
  /\ Banned(k, t)
  /\ buckets' = [buckets EXCEPT ![k].until = t + BanSeconds * Second]
  /\ UNCHANGED <<banEnd, watch>>

\* ... or counts as the last use of the bucket.
RefuseBannedUsed(k, t) ==
  /\ Banned(k, t)
  /\ buckets' = [buckets EXCEPT ![k].last = t]
  /\ UNCHANGED <<banEnd, watch>>

RefuseBanned(k, t) ==
  /\ Banned(k, t)
  /\ UNCHANGED <<buckets, banEnd, watch>>

\* A mistake to check against: a granted request does not move `last`.
GrantKeepsLast(k, t) ==
  /\ ~Banned(k, t)
  /\ Refilled(k, t) >= Second
  /\ buckets' = [buckets EXCEPT ![k] =
       [tokens |-> Refilled(k, t) - Second, last |-> Entry(k, t).last, until |-> None]]
  /\ Watch(k, t, 1)
  /\ UNCHANGED banEnd

Grant(k, t) ==
  /\ ~Banned(k, t)
  /\ Refilled(k, t) >= Second
  /\ buckets' = [buckets EXCEPT ![k] = [tokens |-> Refilled(k, t) - Second, last |-> t, until |-> None]]
  /\ Watch(k, t, 1)
  /\ UNCHANGED banEnd

\* An empty bucket bans its address.
Ban(k, t) ==
  LET until == t + BanSeconds * Second IN
  /\ ~Banned(k, t)
  /\ Refilled(k, t) < Second
  /\ buckets' = [buckets EXCEPT ![k] = [tokens |-> Refilled(k, t), last |-> t, until |-> until]]
  /\ banEnd' = [banEnd EXCEPT ![k] = IF until > @ THEN until ELSE @]
  /\ Watch(k, t, 0)

\* The next call of the request, or its end, follows whatever the bucket says.
Allow(w) ==
  LET r == requests[w] IN
  /\ r.todo # <<>> /\ r.t # None
  /\ RefuseBanned(Head(r.todo), r.t) \/ Grant(Head(r.todo), r.t) \/ Ban(Head(r.todo), r.t)
  /\ requests' = [requests EXCEPT ![w] = [todo |-> Tail(r.todo), t |-> None]]
  /\ UNCHANGED now

-----------------------------------------------------------------------------

Next ==
  \/ Tick
  \/ \E w \in Threads : (\E a \in Addresses, e \in Endpoints : EnforceRate(w, a, e)) \/ ReadClock(w) \/ Allow(w)

Spec == Init /\ [][Next]_vars

-----------------------------------------------------------------------------
(***************************************************************************)
(* Properties.                                                             *)
(***************************************************************************)

Buckets == [tokens : 0..Capacity, last : 0..now, until : Nat \cup {None}]

Todos ==
  {<<>>} \cup {Calls(a, e) : a \in Addresses, e \in Endpoints}
         \cup {Tail(Calls(a, e)) : a \in Addresses, e \in Endpoints}

\* Every variable has its type; a bucket holds no more than its burst, and no
\* reading of the clock is ahead of it.
TypeOK ==
  /\ now \in Nat
  /\ buckets \in [Keys -> Buckets \cup {None}]
  /\ requests \in [Threads -> [todo : Todos, t : 0..now \cup {None}]]
  /\ banEnd \in [Keys -> Nat]
  /\ watch \in [key : Keys, from : 0..now, granted : Nat, rewound : Nat] \cup {None}

\* From any call on, a bucket grants no more than its burst and its rate times the
\* time that has passed (server.rs:93-100), plus its rate times the time that
\* late readings have taken it back: allow sets `last` to a reading older than
\* the one before, and the next call is credited with the difference again.
AdmissionBound ==
  watch # None =>
    watch.granted * Second <= Capacity + Rate[watch.key[2]] * ((now - watch.from) + watch.rewound)

\* A ban is served: until the latest end of any ban a bucket has imposed, a ban
\* with that end is in force.  Neither a late reading nor another refusal lifts,
\* shortens or replaces it (server.rs:87-92, 100).
BanIsServed ==
  \A k \in Keys : banEnd[k] > now => (buckets[k] # None /\ buckets[k].until = banEnd[k])

\* A ban is not followed by the next one: when it is over, the first request
\* finds a token, however many were refused in the meantime, for the bucket
\* refills during the ban (server.rs:93-95).  ban_seconds may be 0, and then
\* there is no ban at all.
BanEndsWithToken ==
  BanSeconds > 0 =>
    \A k \in Keys, t \in 0..now :
      (buckets[k] # None /\ buckets[k].until # None /\ ~Banned(k, t)) => Refilled(k, t) >= Second
=============================================================================
