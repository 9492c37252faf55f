------------------------- MODULE RateLimiter_proofs -------------------------
(***************************************************************************)
(* Proofs about the rate limiter: the bound on what a bucket grants, and   *)
(* that bans are served and do not follow each other.                      *)
(***************************************************************************)
EXTENDS RateLimiter, TLAPS

\* A ban starts when its bucket was last used, and lasts BanSeconds.
BanFromLast ==
  \A k \in Keys :
    (buckets[k] # None /\ buckets[k].until # None) =>
      buckets[k].until = buckets[k].last + BanSeconds * Second

\* The account of the watched bucket: what it has granted and what it still
\* holds is covered by its burst and by the time it has been credited with.
Credited == buckets[watch.key].last + watch.rewound - watch.from

Account ==
  watch # None =>
    /\ buckets[watch.key] # None
    /\ Credited \in Nat
    /\ watch.granted * Second + buckets[watch.key].tokens <= Capacity + Rate[watch.key[2]] * Credited

Inv == TypeOK /\ BanIsServed /\ BanFromLast /\ Account

\* The constants of the limiter are numbers.
LEMMA ConstantsType ==
  /\ Second \in Nat /\ Second > 0
  /\ BanSeconds \in Nat
  /\ Capacity \in Nat /\ Capacity >= Second
  /\ BanSeconds * Second \in Nat
  /\ \A k \in Keys : k[2] \in Labels /\ Rate[k[2]] \in Nat /\ Rate[k[2]] > 0
<1>1. /\ Second \in Nat /\ Second > 0
      /\ BanSeconds \in Nat /\ Burst \in Nat /\ Burst >= 1
  BY ClockAssumption, RateAssumption
<1>2. Capacity \in Nat /\ Capacity >= Second
  BY <1>1 DEF Capacity
<1>3. BanSeconds * Second \in Nat
  BY <1>1
<1>4. \A k \in Keys : k[2] \in Labels
  BY DEF Keys
<1>5. \A k \in Keys : Rate[k[2]] \in Nat /\ Rate[k[2]] > 0
  BY <1>4, RateAssumption
<1> QED
  BY <1>1, <1>2, <1>3, <1>4, <1>5

\* A larger number of ticks gains at least as much.
LEMMA GainGrows ==
  ASSUME NEW r \in Nat, NEW a \in Nat, NEW b \in Nat, a <= b
  PROVE  r * a <= r * b
<1>1. PICK d \in Nat : b = a + d
  BY b - a \in Nat
<1>2. r * b = r * a + r * d
  BY <1>1
<1>3. r * d \in Nat /\ r * a \in Nat
  OBVIOUS
<1> QED
  BY <1>2, <1>3

\* The bucket a call finds or creates has the type of a bucket.
LEMMA EntryType ==
  ASSUME TypeOK, NEW k \in Keys, NEW t \in 0..now
  PROVE  Entry(k, t) \in Buckets
<1>1. CASE buckets[k] = None
  BY <1>1, ConstantsType DEF TypeOK, Entry, Buckets
<1>2. CASE buckets[k] # None
  BY <1>2 DEF TypeOK, Entry
<1> QED
  BY <1>1, <1>2

\* A refill never takes a bucket beyond its burst, nor beyond what it gained.
LEMMA RefillBounds ==
  ASSUME TypeOK, NEW k \in Keys, NEW t \in 0..now
  PROVE  /\ Elapsed(Entry(k, t), t) \in Nat
         /\ Refilled(k, t) \in 0..Capacity
         /\ Refilled(k, t) <= Entry(k, t).tokens + Rate[k[2]] * Elapsed(Entry(k, t), t)
<1> DEFINE e == Elapsed(Entry(k, t), t)
           n == Entry(k, t).tokens
           r == Rate[k[2]]
<1>1. n \in 0..Capacity /\ Entry(k, t).last \in Nat /\ now \in Nat
  BY EntryType DEF Buckets, TypeOK
<1>2. e \in Nat
  BY <1>1 DEF Elapsed
<1>3. r \in Nat /\ Capacity \in Nat
  BY ConstantsType
<1>4. e * r \in Nat /\ e * r = r * e
  BY <1>2, <1>3
<1>5. Refilled(k, t) = IF n + e * r < Capacity THEN n + e * r ELSE Capacity
  BY DEF Refilled
<1> HIDE DEF e, n, r
<1>6. Refilled(k, t) \in 0..Capacity /\ Refilled(k, t) <= n + r * e
  BY <1>1, <1>3, <1>4, <1>5
<1> QED
  BY <1>2, <1>6 DEF e, n, r

-----------------------------------------------------------------------------
(***************************************************************************)
(* A call that refills bucket k, granting one token or none, or keeping it *)
(* from the address for a while.                                           *)
(***************************************************************************)

\* The bucket that such a call leaves behind.
Left(k, t, granted, until) ==
  [tokens |-> Refilled(k, t) - granted * Second, last |-> t, until |-> until]

\* It is a bucket.
LEMMA LeftType ==
  ASSUME TypeOK, NEW k \in Keys, NEW t \in 0..now, NEW granted \in {0, 1},
         NEW until \in Nat \cup {None}, granted * Second <= Refilled(k, t)
  PROVE  /\ Left(k, t, granted, until) \in Buckets
         /\ Left(k, t, granted, until) # None
<1>1. Refilled(k, t) - granted * Second \in 0..Capacity
  BY RefillBounds, ConstantsType
<1>2. Left(k, t, granted, until) \in Buckets
  BY <1>1 DEF Left, Buckets
<1>3. Left(k, t, granted, until) \in [tokens : Nat, last : Nat, until : Nat \cup {None}]
  BY <1>1, ConstantsType DEF Left, TypeOK
<1> QED
  BY <1>2, <1>3, NoneAssumption

\* The account of the watched bucket stays covered, however late the reading.
LEMMA RefillKeepsAccount ==
  ASSUME TypeOK, Account,
         NEW k \in Keys, NEW t \in 0..now, NEW granted \in {0, 1},
         NEW until \in Nat \cup {None}, granted * Second <= Refilled(k, t),
         buckets' = [buckets EXCEPT ![k] = Left(k, t, granted, until)],
         Watch(k, t, granted)
  PROVE  /\ watch' \in [key : Keys, from : 0..now, granted : Nat, rewound : Nat] \cup {None}
         /\ Account'
<1> DEFINE left == Left(k, t, granted, until)
<1>1. /\ left # None /\ left.last = t /\ t \in Nat /\ now \in Nat
      /\ left.tokens = Refilled(k, t) - granted * Second
  BY LeftType DEF Left, TypeOK
<1>2. buckets'[k] = left /\ \A j \in Keys : j # k => buckets'[j] = buckets[j]
  BY DEF TypeOK
<1>3. Refilled(k, t) \in 0..Capacity /\ Capacity \in Nat /\ Second \in Nat
  BY RefillBounds, ConstantsType
<1>4. CASE watch' = [key |-> k, from |-> t, granted |-> granted, rewound |-> 0]
  <2>1. Credited' = 0
    BY <1>1, <1>2, <1>4 DEF Credited
  <2>2. Rate[watch'.key[2]] * Credited' = 0
    BY <2>1, <1>4, ConstantsType
  <2>3. watch'.granted * Second + buckets'[watch'.key].tokens <= Capacity
    BY <1>1, <1>2, <1>3, <1>4
  <2>4. watch'.key = k /\ watch' \in [key : Keys, from : 0..now, granted : Nat, rewound : Nat]
    BY <1>4
  <2>5. buckets'[watch'.key] # None
    BY <1>1, <1>2, <2>4
  <2>6. watch'.granted * Second + buckets'[watch'.key].tokens <= Capacity + Rate[watch'.key[2]] * Credited'
    BY <1>3, <2>2, <2>3
  <2>7. Account'
    BY <2>1, <2>5, <2>6 DEF Account, Capacity
  <2> QED
    BY <2>4, <2>7
<1>5. CASE watch' = watch /\ (watch = None \/ watch.key # k)
  <2>1. CASE watch = None
    BY <1>5, <2>1 DEF Account
  <2>2. CASE watch # None
    <3>1. watch.key \in Keys /\ buckets'[watch.key] = buckets[watch.key]
      BY <1>2, <1>5, <2>2 DEF TypeOK
    <3>2. Credited' = Credited
      BY <1>5, <3>1 DEF Credited
    <3> QED
      BY <1>5, <2>2, <3>1, <3>2 DEF Account, TypeOK, Capacity
  <2> QED
    BY <2>1, <2>2
<1>6. CASE watch # None /\ watch.key = k
           /\ watch' = [watch EXCEPT !.granted = @ + granted,
                          !.rewound = @ + (IF t < Entry(k, t).last THEN Entry(k, t).last - t ELSE 0)]
  <2> DEFINE b == buckets[k]
             r == Rate[k[2]]
             e == Elapsed(b, t)
             back == IF t < b.last THEN b.last - t ELSE 0
  <2>1. b # None /\ Entry(k, t) = b /\ b \in Buckets
    BY <1>6 DEF Account, Entry, TypeOK
  <2>2. /\ watch \in [key : Keys, from : 0..now, granted : Nat, rewound : Nat]
        /\ watch.from \in Nat /\ watch.granted \in Nat /\ watch.rewound \in Nat
    BY <1>6, <1>1 DEF TypeOK
  <2>3. /\ b.last \in Nat /\ b.tokens \in Nat /\ r \in Nat
        /\ back \in Nat /\ e \in Nat /\ t + back = b.last + e
    BY <1>1, <2>1, ConstantsType DEF Buckets, Elapsed
  <2> HIDE DEF r, e
  <2>4. /\ watch'.key = k /\ watch'.from = watch.from
        /\ watch'.granted = watch.granted + granted
        /\ watch'.rewound = watch.rewound + back
        /\ watch' \in [key : Keys, from : 0..now, granted : Nat, rewound : Nat]
    <3>1. watch' = [watch EXCEPT !.granted = @ + granted, !.rewound = @ + back]
      BY <1>6, <2>1
    <3>2. watch.granted + granted \in Nat /\ watch.rewound + back \in Nat
      BY <2>2, <2>3
    <3> QED
      BY <1>6, <2>2, <3>1, <3>2
  <2>5. Credited = b.last + watch.rewound - watch.from
    BY <1>6 DEF Credited
  <2>6. Credited' = t + watch.rewound + back - watch.from
    BY <1>1, <1>2, <2>2, <2>3, <2>4 DEF Credited
  <2>7. Credited \in Nat /\ watch.granted * Second + b.tokens <= Capacity + r * Credited
    BY <1>6 DEF Account, r
  <2>8. Credited' = Credited + e /\ Credited' \in Nat
    BY <1>1, <2>2, <2>3, <2>5, <2>6, <2>7
  <2>9. r * Credited' = r * Credited + r * e
    BY <2>3, <2>7, <2>8
  <2>10. Refilled(k, t) <= b.tokens + r * e
    BY RefillBounds, <2>1 DEF r, e
  <2>11. (watch.granted + granted) * Second = watch.granted * Second + granted * Second
    BY <1>3, <2>2
  <2>12. /\ watch.granted * Second \in Nat /\ granted * Second \in Nat
         /\ r * Credited \in Nat /\ r * e \in Nat
    BY <1>3, <2>2, <2>3, <2>7
  <2>13. (watch.granted + granted) * Second + left.tokens <= Capacity + r * Credited'
    BY <1>1, <1>3, <2>3, <2>7, <2>9, <2>10, <2>11, <2>12
  <2>14. buckets'[watch'.key] = left
    BY <1>2, <2>4
  <2>15. watch'.granted * Second + buckets'[watch'.key].tokens <= Capacity + Rate[watch'.key[2]] * Credited'
    BY <2>4, <2>13, <2>14 DEF r
  <2>16. Account'
    BY <1>1, <2>8, <2>14, <2>15 DEF Account, Capacity
  <2> QED
    BY <2>4, <2>16
<1> QED
  BY <1>4, <1>5, <1>6 DEF Watch

-----------------------------------------------------------------------------
(***************************************************************************)
(* The steps.                                                              *)
(***************************************************************************)

\* What the invariant says of the buckets and of the watched one.
BucketsTyped ==
  /\ buckets \in [Keys -> Buckets \cup {None}]
  /\ banEnd \in [Keys -> Nat]
  /\ watch \in [key : Keys, from : 0..now, granted : Nat, rewound : Nat] \cup {None}

BucketsInv == BucketsTyped /\ BanIsServed /\ BanFromLast /\ Account

\* A granted request keeps the invariant: no ban that is in force is lifted.
LEMMA GrantKeepsBuckets ==
  ASSUME Inv, NEW k \in Keys, NEW t \in 0..now, Grant(k, t), now' = now
  PROVE  BucketsInv'
<1> DEFINE left == Left(k, t, 1, None)
<1>1. TypeOK /\ now \in Nat /\ t \in Nat
  BY DEF Inv, TypeOK
<1>2. /\ buckets' = [buckets EXCEPT ![k] = left] /\ banEnd' = banEnd
      /\ Refilled(k, t) >= 1 * Second /\ Watch(k, t, 1) /\ ~Banned(k, t)
  <2>1. 1 * Second = Second
    BY ConstantsType
  <2>2. left = [tokens |-> Refilled(k, t) - Second, last |-> t, until |-> None]
    BY <2>1 DEF Left
  <2> QED
    BY <2>1, <2>2 DEF Grant
<1>3. left \in Buckets /\ left # None /\ left.until = None
  BY <1>1, <1>2, LeftType, RefillBounds, ConstantsType DEF Left
<1>4. buckets'[k] = left /\ \A j \in Keys : j # k => buckets'[j] = buckets[j]
  BY <1>1, <1>2 DEF TypeOK
<1>5. watch' \in [key : Keys, from : 0..now, granted : Nat, rewound : Nat] \cup {None} /\ Account'
  BY <1>1, <1>2, RefillKeepsAccount, RefillBounds, ConstantsType DEF Inv
<1>6. BucketsTyped'
  BY <1>1, <1>2, <1>3, <1>5 DEF TypeOK, BucketsTyped, Buckets
<1>7. banEnd[k] <= now
  <2>1. SUFFICES ASSUME banEnd[k] > now PROVE FALSE
    BY <1>1 DEF TypeOK
  <2>2. buckets[k] # None /\ buckets[k].until = banEnd[k] /\ banEnd[k] \in Nat
    BY <2>1, <1>1 DEF Inv, BanIsServed, TypeOK
  <2>3. Banned(k, t)
    BY <2>1, <2>2, <1>1, NoneAssumption DEF Banned, Entry
  <2> QED
    BY <2>3, <1>2
<1>8. BanIsServed'
  BY <1>1, <1>2, <1>4, <1>7 DEF Inv, BanIsServed, TypeOK
<1>9. BanFromLast'
  BY <1>3, <1>4 DEF Inv, BanFromLast
<1> QED
  BY <1>5, <1>6, <1>8, <1>9 DEF BucketsInv

\* So does a ban: whatever its reading, the bans before it are over.
LEMMA BanKeepsBuckets ==
  ASSUME Inv, NEW k \in Keys, NEW t \in 0..now, Ban(k, t), now' = now
  PROVE  BucketsInv'
<1> DEFINE end == t + BanSeconds * Second
         left == Left(k, t, 0, end)
<1>1. TypeOK /\ now \in Nat /\ t \in Nat /\ end \in Nat /\ banEnd \in [Keys -> Nat]
  BY ConstantsType DEF Inv, TypeOK
<1>2. /\ buckets' = [buckets EXCEPT ![k] = left]
      /\ banEnd' = [banEnd EXCEPT ![k] = IF end > @ THEN end ELSE @]
      /\ 0 * Second <= Refilled(k, t) /\ Watch(k, t, 0) /\ ~Banned(k, t)
  <2>1. 0 * Second = 0 /\ Refilled(k, t) \in Nat
    BY RefillBounds, <1>1, ConstantsType
  <2>2. left = [tokens |-> Refilled(k, t), last |-> t, until |-> end]
    BY <2>1 DEF Left
  <2>3. buckets' = [buckets EXCEPT ![k] = left]
    BY <2>2 DEF Ban
  <2>4. banEnd' = [banEnd EXCEPT ![k] = IF end > @ THEN end ELSE @]
    BY DEF Ban
  <2>5. Watch(k, t, 0) /\ ~Banned(k, t)
    BY DEF Ban
  <2> QED
    BY <2>1, <2>3, <2>4, <2>5
<1>3. left \in Buckets /\ left # None /\ left.until = end /\ left.last = t
  BY <1>1, <1>2, LeftType DEF Left
<1>4. buckets'[k] = left /\ \A j \in Keys : j # k => buckets'[j] = buckets[j] /\ banEnd'[j] = banEnd[j]
  BY <1>1, <1>2 DEF TypeOK
<1>5. watch' \in [key : Keys, from : 0..now, granted : Nat, rewound : Nat] \cup {None} /\ Account'
  BY <1>1, <1>2, RefillKeepsAccount DEF Inv
<1>6. BucketsTyped'
  BY <1>1, <1>2, <1>3, <1>5 DEF TypeOK, BucketsTyped, Buckets
<1>7. banEnd[k] <= now
  <2>1. SUFFICES ASSUME banEnd[k] > now PROVE FALSE
    BY <1>1
  <2>2. buckets[k] # None /\ buckets[k].until = banEnd[k] /\ banEnd[k] \in Nat
    BY <2>1, <1>1 DEF Inv, BanIsServed
  <2>3. Banned(k, t)
    BY <2>1, <2>2, <1>1, NoneAssumption DEF Banned, Entry
  <2> QED
    BY <2>3, <1>2
<1>8. banEnd'[k] > now => banEnd'[k] = end
  BY <1>1, <1>2, <1>7
<1>9. BanIsServed'
  BY <1>1, <1>3, <1>4, <1>8 DEF Inv, BanIsServed
<1>10. BanFromLast'
  BY <1>3, <1>4 DEF Inv, BanFromLast
<1> QED
  BY <1>5, <1>6, <1>9, <1>10 DEF BucketsInv

\* A step that leaves the buckets alone keeps the invariant, also when time passes.
LEMMA UntouchedKeepsBuckets ==
  ASSUME Inv, UNCHANGED <<buckets, banEnd, watch>>, now' = now \/ now' = now + 1
  PROVE  BucketsInv'
<1>1. now \in Nat /\ now' \in Nat /\ now <= now'
  BY DEF Inv, TypeOK
<1>2. 0..now \subseteq 0..now'
  BY <1>1
<1>3. BucketsTyped'
  BY <1>2 DEF Inv, TypeOK, BucketsTyped, Buckets
<1>4. BanIsServed'
  BY <1>1 DEF Inv, TypeOK, BanIsServed
<1>5. BanFromLast' /\ Account'
  BY DEF Inv, BanFromLast, Account, Credited
<1> QED
  BY <1>3, <1>4, <1>5 DEF BucketsInv

\* What a request may be.
Requests == [todo : Todos, t : 0..now \cup {None}]

\* A request asks buckets that exist, and goes on to ask the rest of them.
LEMMA TodosShape ==
  ASSUME NEW todo \in Todos, todo # <<>>
  PROVE  Head(todo) \in Keys /\ Tail(todo) \in Todos
<1>1. PICK a \in Addresses, e \in Endpoints : todo \in {Calls(a, e), Tail(Calls(a, e))}
  BY DEF Todos
<1>2. <<a, Global>> \in Keys /\ <<a, e>> \in Keys
  BY DEF Keys, Labels
<1>3. /\ Head(Calls(a, e)) = <<a, Global>>
      /\ Tail(Calls(a, e)) = << <<a, e>> >>
      /\ Head(Tail(Calls(a, e))) = <<a, e>>
      /\ Tail(Tail(Calls(a, e))) = <<>>
  BY DEF Calls
<1>4. Tail(Calls(a, e)) \in Todos /\ <<>> \in Todos
  BY DEF Todos
<1> QED
  BY <1>1, <1>2, <1>3, <1>4

\* What may be a request now may be one later.
LEMMA RequestsGrow ==
  ASSUME now \in Nat, now' = now \/ now' = now + 1
  PROVE  Requests \subseteq Requests'
<1>1. 0..now \subseteq 0..now'
  OBVIOUS
<1> QED
  BY <1>1 DEF Requests

\* The parts of the type invariant.
LEMMA TypeParts ==
  TypeOK <=> now \in Nat /\ requests \in [Threads -> Requests] /\ BucketsTyped
BY DEF TypeOK, BucketsTyped, Requests

-----------------------------------------------------------------------------

\* A server just started satisfies the invariant.
THEOREM InitInv == Init => Inv
<1> SUFFICES ASSUME Init PROVE Inv
  OBVIOUS
<1>1. TypeOK
  <2>1. Idle \in Requests
    BY DEF Idle, Requests, Todos
  <2>2. BucketsTyped
    BY DEF Init, BucketsTyped
  <2> QED
    BY <2>1, <2>2, TypeParts DEF Init
<1>2. BanIsServed /\ BanFromLast /\ Account
  BY DEF Init, BanIsServed, BanFromLast, Account
<1> QED
  BY <1>1, <1>2 DEF Inv

\* Every step keeps it.
THEOREM NextInv == Inv /\ [Next]_vars => Inv'
<1> SUFFICES ASSUME Inv, [Next]_vars PROVE Inv'
  OBVIOUS
<1>1. now \in Nat /\ requests \in [Threads -> Requests]
  BY TypeParts DEF Inv
<1>2. SUFFICES /\ BucketsInv'
               /\ now' = now \/ now' = now + 1
               /\ requests' \in [Threads -> Requests']
  <2>1. now' \in Nat
    BY <1>1
  <2>2. TypeOK'
    BY <2>1 DEF TypeOK, BucketsInv, BucketsTyped, Requests
  <2> QED
    BY <2>2 DEF Inv, BucketsInv
<1>3. CASE Tick
  BY <1>1, <1>3, UntouchedKeepsBuckets, RequestsGrow DEF Tick
<1>4. ASSUME NEW w \in Threads, NEW a \in Addresses, NEW e \in Endpoints, EnforceRate(w, a, e)
      PROVE  BucketsInv' /\ now' = now /\ requests' \in [Threads -> Requests]
  <2>1. Calls(a, e) \in Todos
    BY DEF Todos
  <2>2. [requests[w] EXCEPT !.todo = Calls(a, e)] \in Requests
    BY <1>1, <2>1 DEF Requests
  <2>3. requests' \in [Threads -> Requests]
    BY <1>1, <1>4, <2>2 DEF EnforceRate
  <2> QED
    BY <1>4, <2>3, UntouchedKeepsBuckets DEF EnforceRate
<1>5. ASSUME NEW w \in Threads, ReadClock(w)
      PROVE  BucketsInv' /\ now' = now /\ requests' \in [Threads -> Requests]
  <2>1. requests[w] \in Requests /\ requests[w].todo # <<>> /\ now \in 0..now
    BY <1>1, <1>5 DEF ReadClock
  <2>2. [requests[w] EXCEPT !.t = now] \in Requests
    BY <2>1 DEF Requests
  <2>3. requests' \in [Threads -> Requests]
    BY <1>1, <1>5, <2>2 DEF ReadClock
  <2> QED
    BY <1>5, <2>3, UntouchedKeepsBuckets DEF ReadClock
<1>6. ASSUME NEW w \in Threads, Allow(w)
      PROVE  BucketsInv' /\ now' = now /\ requests' \in [Threads -> Requests]
  <2> DEFINE r == requests[w]
             k == Head(r.todo)
  <2>1. r \in Requests /\ r.todo # <<>> /\ r.t # None /\ now' = now
    BY <1>1, <1>6 DEF Allow
  <2>2. k \in Keys /\ r.t \in 0..now /\ [todo |-> Tail(r.todo), t |-> None] \in Requests
    BY <2>1, TodosShape DEF Requests
  <2>3. requests' \in [Threads -> Requests]
    BY <1>1, <1>6, <2>2 DEF Allow
  <2>4. RefuseBanned(k, r.t) \/ Grant(k, r.t) \/ Ban(k, r.t)
    BY <1>6 DEF Allow
  <2>5. BucketsInv'
    BY <2>1, <2>2, <2>4, UntouchedKeepsBuckets, GrantKeepsBuckets, BanKeepsBuckets DEF RefuseBanned
  <2> QED
    BY <2>1, <2>3, <2>5
<1>7. CASE UNCHANGED vars
  BY <1>1, <1>7, UntouchedKeepsBuckets, RequestsGrow DEF vars
<1> QED
  BY <1>1, <1>3, <1>4, <1>5, <1>6, <1>7, RequestsGrow DEF Next

\* The inductive invariant, from which the results below follow.
THEOREM SpecInv == Spec => []Inv
  BY InitInv, NextInv, PTL DEF Spec

\* Every variable keeps its type: a bucket never holds more than its burst.
THEOREM TypeCorrect == Spec => []TypeOK
<1>1. Inv => TypeOK
  BY DEF Inv
<1> QED
  BY <1>1, SpecInv, PTL

\* Until the latest end of its bans a bucket has a ban in force.
THEOREM BansServed == Spec => []BanIsServed
<1>1. Inv => BanIsServed
  BY DEF Inv
<1> QED
  BY <1>1, SpecInv, PTL

\* A bucket never grants more than its burst and its rate allow, but for what
\* late readings give back.
THEOREM AdmissionBounded == Spec => []AdmissionBound
<1>1. Inv => AdmissionBound
  <2> SUFFICES ASSUME Inv, watch # None
               PROVE  watch.granted * Second <=
                        Capacity + Rate[watch.key[2]] * ((now - watch.from) + watch.rewound)
    BY DEF AdmissionBound
  <2> DEFINE r == Rate[watch.key[2]]
             b == buckets[watch.key]
             n == (now - watch.from) + watch.rewound
  <2>1. /\ watch.key \in Keys /\ watch.from \in 0..now
        /\ watch.granted \in Nat /\ watch.rewound \in Nat /\ now \in Nat
    BY DEF Inv, TypeOK
  <2>2. b # None /\ b \in Buckets /\ b.last \in 0..now /\ b.tokens \in Nat
    BY <2>1, ConstantsType DEF Inv, Account, TypeOK, Buckets
  <2>3. r \in Nat /\ Capacity \in Nat /\ Second \in Nat
    BY <2>1, ConstantsType
  <2>4. Credited \in Nat /\ n \in Nat /\ Credited <= n
    BY <2>1, <2>2 DEF Inv, Account, Credited
  <2>5. watch.granted * Second + b.tokens <= Capacity + r * Credited
    BY DEF Inv, Account
  <2>6. r * Credited <= r * n
    BY <2>3, <2>4, GainGrows
  <2>7. r * Credited \in Nat /\ r * n \in Nat /\ watch.granted * Second \in Nat
    BY <2>1, <2>3, <2>4
  <2> HIDE DEF r, n, b
  <2>8. watch.granted * Second <= Capacity + r * n
    BY <2>2, <2>3, <2>5, <2>6, <2>7
  <2> QED
    BY <2>8 DEF r, n
<1> QED
  BY <1>1, SpecInv, PTL

\* When a ban is over the bucket has a token.
THEOREM BansEndWithToken == Spec => []BanEndsWithToken
<1>1. Inv => BanEndsWithToken
  <2> SUFFICES ASSUME Inv, BanSeconds > 0, NEW k \in Keys, NEW t \in 0..now,
                      buckets[k] # None, buckets[k].until # None, ~Banned(k, t)
               PROVE  Refilled(k, t) >= Second
    BY DEF BanEndsWithToken
  <2> DEFINE b == buckets[k]
             r == Rate[k[2]]
             e == Elapsed(b, t)
  <2>1. /\ Entry(k, t) = b /\ b \in Buckets /\ b.last \in Nat /\ b.tokens \in Nat
        /\ t \in Nat /\ b.until \in Nat
    BY DEF Inv, TypeOK, Buckets, Entry
  <2>2. b.until = b.last + BanSeconds * Second /\ b.until <= t
    BY <2>1 DEF Inv, BanFromLast, Banned
  <2>3. /\ r \in Nat /\ r >= 1 /\ Second \in Nat /\ BanSeconds \in Nat /\ BanSeconds >= 1
        /\ Capacity \in Nat /\ Capacity >= Second
    BY ConstantsType
  <2>4. BanSeconds * Second >= 1 * Second /\ BanSeconds * Second \in Nat
    BY <2>3, GainGrows
  <2>5. e \in Nat /\ e >= Second
    BY <2>1, <2>2, <2>3, <2>4 DEF Elapsed
  <2>6. e * r >= e /\ e * r \in Nat
    <3>1. e * 1 <= e * r
      BY <2>3, <2>5, GainGrows
    <3> QED
      BY <2>3, <2>5, <3>1
  <2>7. Refilled(k, t) = IF b.tokens + e * r < Capacity THEN b.tokens + e * r ELSE Capacity
    BY <2>1 DEF Refilled
  <2> HIDE DEF e, r, b
  <2> QED
    BY <2>1, <2>3, <2>5, <2>6, <2>7
<1> QED
  BY <1>1, SpecInv, PTL
=============================================================================
