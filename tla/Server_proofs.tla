---------------------------- MODULE Server_proofs ----------------------------
(***************************************************************************)
(* Proofs about the handlers, the collector and /stats: with any number of *)
(* threads the counters keep the books of the store, and no snapshot tells *)
(* of more outcomes than there were requests.                              *)
(***************************************************************************)
EXTENDS Server, MemStore_proofs

-----------------------------------------------------------------------------
(***************************************************************************)
(* The inductive invariant.                                                *)
(***************************************************************************)

\* What passes the checks of a handler is what the store takes.
Passed ==
  {q \in Requests : Accepts(q) /\ (q.op = "pull" => q.max \in 1..PullBatchMax)}

\* No outcome counts for more than there are keys.
Outcomes ==
  [pc : {"count"}, n : {"push_stored", "duplicates"}, amount : {1} \cap (0..Cardinality(Keys))]
    \cup [pc : {"count"}, n : {"ack_deleted"}, amount : 0..Cardinality(Keys)]

CallStates == {Idle} \cup [pc : {"store"}, q : Passed, t : Nat] \cup Outcomes

GcStates == {Idle} \cup [pc : {"store"}, t : Nat] \cup [pc : {"count"}, removed : Nat]

StatsStates ==
  {Idle} \cup [pc : {"load", "answer"}, todo : SUBSET Groups, got : [Counters -> Nat]]

ServerTyped ==
  /\ calls \in [Threads -> CallStates]
  /\ gc \in GcStates
  /\ metrics \in [Counters -> Nat]
  /\ stats \in StatsStates
  /\ lapsed \in Nat

\* A reading of the clock is not ahead of it: this makes every call of a handler
\* one that the specification of the store allows.
ReadingsArePast ==
  /\ \A c \in Threads : calls[c].pc = "store" => calls[c].t <= now
  /\ gc.pc = "store" => gc.t <= now

\* A push is counted as received before it has an outcome, and has at most one:
\* whoever is still inside has a count of its own left to be balanced.
InPush(s) ==
  \/ s.pc = "store" /\ s.q.op = "push"
  \/ s.pc = "count" /\ s.n \in {"push_stored", "duplicates"}

PushesAreCounted ==
  metrics["push_stored"] + metrics["duplicates"] + Cardinality({c \in Threads : InPush(calls[c])})
    <= metrics["push_total"]

\* What a snapshot has loaded, the counters have reached.
SnapshotIsBehind ==
  stats.pc \in {"load", "answer"} => \A n \in Counters : stats.got[n] <= metrics[n]

\* The first three conjuncts say that the store is in order and its callers keep
\* to what it expects.  The snapshot is bounded because each of its loads is
\* behind the counters as they are now, and those are bounded.
ServerInv ==
  /\ Inv /\ UnknownIsEmpty
  /\ ServerTyped
  /\ ReadingsArePast
  /\ CountersBalance
  /\ PushesAreCounted
  /\ SnapshotIsBehind

-----------------------------------------------------------------------------
(***************************************************************************)
(* What the threads have still to count.                                   *)
(***************************************************************************)

\* How much of counter n a thread in state s has still to add.
Share(s, n) == IF s.pc = "count" /\ s.n = n THEN s.amount ELSE 0

\* What Owing counts, for threads in the states f.
Units(f, n) ==
  {u \in Threads \X (1..Cardinality(Keys)) :
     f[u[1]].pc = "count" /\ f[u[1]].n = n /\ u[2] <= f[u[1]].amount}

LEMMA KeysCounted == Cardinality(Keys) \in Nat
BY KeysAssumption, FS_CardinalityType

LEMMA ShareType ==
  ASSUME NEW s \in CallStates, NEW n
  PROVE  Share(s, n) \in 0..Cardinality(Keys)
<1>1. s = Idle \/ s.pc = "store" \/ s \in Outcomes
  BY DEF CallStates
<1>2. Idle.pc # "count"
  BY DEF Idle
<1>3. s \in Outcomes => s.amount \in 0..Cardinality(Keys)
  BY DEF Outcomes
<1> QED
  BY <1>1, <1>2, <1>3, KeysCounted DEF Share

LEMMA UnitsFinite ==
  ASSUME NEW f, NEW n
  PROVE  IsFiniteSet(Units(f, n))
<1>1. IsFiniteSet(1..Cardinality(Keys))
  BY KeysCounted, FS_Interval
<1>2. IsFiniteSet(Threads \X (1..Cardinality(Keys)))
  BY <1>1, RequestsAssumption, FS_Product
<1>3. Units(f, n) \in SUBSET (Threads \X (1..Cardinality(Keys)))
  BY DEF Units
<1> QED
  BY <1>2, <1>3, FS_Subset

\* One thread's part of what is owed.
LEMMA UnitsOfOne ==
  ASSUME NEW f \in [Threads -> CallStates], NEW c \in Threads, NEW n
  PROVE  /\ Cardinality({u \in Units(f, n) : u[1] # c}) \in Nat
         /\ Cardinality(Units(f, n)) = Cardinality({u \in Units(f, n) : u[1] # c}) + Share(f[c], n)
<1> DEFINE rest == {u \in Units(f, n) : u[1] # c}
           mine == {c} \X (1..Share(f[c], n))
<1>1. Share(f[c], n) \in 0..Cardinality(Keys)
  BY ShareType
<1>2. IsFiniteSet(Units(f, n))
  BY UnitsFinite
<1>3. mine = {u \in Units(f, n) : u[1] = c}
  BY <1>1, KeysCounted DEF Units, Share
<1>4. Cardinality(mine) = Share(f[c], n)
  <2>1. IsFiniteSet({c}) /\ Cardinality({c}) = 1
    BY FS_Singleton
  <2>2. IsFiniteSet(1..Share(f[c], n)) /\ Cardinality(1..Share(f[c], n)) = Share(f[c], n)
    BY <1>1, KeysCounted, FS_Interval
  <2>3. Cardinality(mine) = Cardinality({c}) * Cardinality(1..Share(f[c], n))
    BY <2>1, <2>2, FS_Product
  <2> QED
    BY <1>1, <2>1, <2>2, <2>3, KeysCounted
<1>5. rest = Units(f, n) \ mine /\ Units(f, n) \cap mine = mine
  BY <1>3
<1>6. IsFiniteSet(rest) /\ Cardinality(rest) = Cardinality(Units(f, n)) - Cardinality(mine)
  <2> HIDE DEF rest, mine
  <2> QED
    BY <1>2, <1>5, FS_Difference
<1>7. Cardinality(rest) \in Nat /\ Cardinality(Units(f, n)) \in Nat
  BY <1>2, <1>6, FS_CardinalityType
<1> HIDE DEF rest, mine
<1>8. Cardinality(Units(f, n)) = Cardinality(rest) + Share(f[c], n)
  BY <1>1, <1>4, <1>6, <1>7, KeysCounted
<1> QED
  BY <1>7, <1>8 DEF rest

\* When one thread moves on, what is owed changes by its share alone.
LEMMA OwingMoves ==
  ASSUME ServerTyped, NEW c \in Threads, NEW s \in CallStates,
         calls' = [calls EXCEPT ![c] = s], NEW n
  PROVE  /\ Owing(n) \in Nat /\ Owing(n)' \in Nat
         /\ Share(calls[c], n) \in Nat /\ Share(s, n) \in Nat
         /\ Owing(n)' + Share(calls[c], n) = Owing(n) + Share(s, n)
<1>1. PICK f, g : f = calls /\ g = calls'
  OBVIOUS
<1>2. /\ f \in [Threads -> CallStates] /\ g \in [Threads -> CallStates]
      /\ g[c] = s /\ \A d \in Threads \ {c} : g[d] = f[d]
  BY <1>1 DEF ServerTyped
<1>3. {u \in Units(g, n) : u[1] # c} = {u \in Units(f, n) : u[1] # c}
  BY <1>2 DEF Units
<1>4. Owing(n) = Cardinality(Units(f, n)) /\ Owing(n)' = Cardinality(Units(g, n))
  BY <1>1 DEF Owing, Units
<1>5. Share(f[c], n) \in Nat /\ Share(s, n) \in Nat
  BY <1>2, ShareType, KeysCounted
<1>6. PICK k : k = Cardinality({u \in Units(f, n) : u[1] # c})
  OBVIOUS
<1>7. k \in Nat /\ Owing(n) = k + Share(f[c], n)
  BY <1>2, <1>4, <1>6, UnitsOfOne
<1>8. Owing(n)' = k + Share(s, n)
  BY <1>2, <1>3, <1>4, <1>6, UnitsOfOne
<1> QED
  BY <1>1, <1>5, <1>7, <1>8

LEMMA OwingType ==
  ASSUME NEW n
  PROVE  Owing(n) \in Nat
<1>1. PICK f : f = calls
  OBVIOUS
<1>2. Owing(n) = Cardinality(Units(f, n))
  BY <1>1 DEF Owing, Units
<1> QED
  BY <1>2, UnitsFinite, FS_CardinalityType

\* The pushes inside the relay.
Pushes == Cardinality({c \in Threads : InPush(calls[c])})
One(s) == IF InPush(s) THEN 1 ELSE 0

LEMMA PushesType == Pushes \in Nat /\ (Pushes' \in Nat)
BY RequestsAssumption, FS_Subset, FS_CardinalityType DEF Pushes

LEMMA PushesMove ==
  ASSUME ServerTyped, NEW c \in Threads, NEW s \in CallStates, calls' = [calls EXCEPT ![c] = s]
  PROVE  Pushes' + One(calls[c]) = Pushes + One(s)
<1>1. PICK f, g : f = calls /\ g = calls'
  OBVIOUS
<1>2. g[c] = s /\ \A d \in Threads \ {c} : g[d] = f[d]
  BY <1>1 DEF ServerTyped
<1> DEFINE In(h) == {d \in Threads : InPush(h[d])}
           Others(h) == {d \in Threads \ {c} : InPush(h[d])}
<1>3. ASSUME NEW h
      PROVE  Cardinality(Others(h)) \in Nat /\ Cardinality(In(h)) = Cardinality(Others(h)) + One(h[c])
  <2>1. IsFiniteSet(Others(h))
    BY RequestsAssumption, FS_Subset
  <2>2. c \notin Others(h) /\ Cardinality(Others(h)) \in Nat
    BY <2>1, FS_CardinalityType
  <2>3. CASE InPush(h[c])
    <3>1. In(h) = Others(h) \cup {c}
      BY <2>3
    <3> QED
      BY <2>1, <2>2, <2>3, <3>1, FS_AddElement DEF One
  <2>4. CASE ~InPush(h[c])
    <3>1. In(h) = Others(h)
      BY <2>4
    <3> QED
      BY <2>2, <2>4, <3>1 DEF One
  <2> QED
    BY <2>3, <2>4
<1>4. Others(f) = Others(g)
  BY <1>2
<1>5. Pushes = Cardinality(In(f)) /\ Pushes' = Cardinality(In(g))
  BY <1>1 DEF Pushes, InPush
<1>6. One(f[c]) \in Nat /\ One(g[c]) \in Nat
  BY DEF One
<1> HIDE DEF In, Others
<1>7. Pushes = Cardinality(Others(f)) + One(f[c]) /\ Pushes' = Cardinality(Others(f)) + One(g[c])
  BY <1>3, <1>4, <1>5
<1>8. Cardinality(Others(f)) \in Nat
  BY <1>3
<1>9. f[c] = calls[c] /\ g[c] = s
  BY <1>1, <1>2
<1> QED
  BY <1>6, <1>7, <1>8, <1>9
-----------------------------------------------------------------------------
(***************************************************************************)
(* What the calls of the store do to the messages it holds, by what it     *)
(* promises its callers.                                                   *)
(***************************************************************************)

HeldCount == Cardinality(Promise!Held(queue))

LEMMA HeldFinite ==
  ASSUME NEW b, \A r \in Recipients : IsFiniteSet(b[r])
  PROVE  IsFiniteSet(Promise!Held(b)) /\ Cardinality(Promise!Held(b)) \in Nat
<1> DEFINE parts == {{r} \X b[r] : r \in Recipients}
<1>1. \A P \in parts : IsFiniteSet(P)
  <2>1. ASSUME NEW r \in Recipients
        PROVE  IsFiniteSet({r} \X b[r])
    <3>1. IsFiniteSet({r}) /\ IsFiniteSet(b[r])
      BY FS_Singleton
    <3> QED
      BY <3>1, FS_Product
  <2> QED
    BY <2>1
<1>2. IsFiniteSet(parts)
  <2> DEFINE f == [r \in Recipients |-> {r} \X b[r]]
  <2>1. f \in Surjection(Recipients, parts)
    BY DEF Surjection
  <2> HIDE DEF f, parts
  <2> QED
    BY <2>1, RecipientsAssumption, FS_Surjection
<1>3. IsFiniteSet(Promise!Held(b))
  <2> HIDE DEF parts
  <2>1. IsFiniteSet(UNION parts)
    BY <1>1, <1>2, FS_UNION
  <2> QED
    BY <2>1 DEF parts, Promise!Held
<1> QED
  BY <1>3, FS_CardinalityType

\* From the boxes b to the boxes d, that of r gains the message m, or loses T.
Boxes(b) == DOMAIN b = Recipients /\ \A q \in Recipients : IsFiniteSet(b[q])
Gains(b, d, r, m) == m \notin b[r] /\ d = [b EXCEPT ![r] = @ \cup {m}]
Loses(b, d, r, T) == T \in SUBSET b[r] /\ d = [b EXCEPT ![r] = @ \ T]

LEMMA HeldGains ==
  \A r \in Recipients : \A b, d, m : Boxes(b) /\ Gains(b, d, r, m) =>
    Cardinality(Promise!Held(d)) = Cardinality(Promise!Held(b)) + 1
<1> SUFFICES ASSUME NEW r \in Recipients, NEW b, NEW d, NEW m, Boxes(b), Gains(b, d, r, m)
             PROVE  Cardinality(Promise!Held(d)) = Cardinality(Promise!Held(b)) + 1
  OBVIOUS
<1> USE DEF Boxes, Gains
<1>1. Promise!Held(d) = Promise!Held(b) \cup {<<r, m>>} /\ <<r, m>> \notin Promise!Held(b)
  BY DEF Promise!Held
<1> QED
  BY <1>1, HeldFinite, FS_AddElement

LEMMA HeldLoses ==
  \A r \in Recipients : \A b, d, T : Boxes(b) /\ Loses(b, d, r, T) =>
    /\ Cardinality(T) \in Nat
    /\ Cardinality(Promise!Held(d)) + Cardinality(T) = Cardinality(Promise!Held(b))
<1> SUFFICES ASSUME NEW r \in Recipients, NEW b, NEW d, NEW T, Boxes(b), Loses(b, d, r, T)
             PROVE  /\ Cardinality(T) \in Nat
                    /\ Cardinality(Promise!Held(d)) + Cardinality(T) = Cardinality(Promise!Held(b))
  OBVIOUS
<1> USE DEF Boxes, Loses
<1>1. IsFiniteSet(T) /\ Cardinality(T) \in Nat
  BY FS_Subset, FS_CardinalityType
<1>2. Promise!Held(d) = Promise!Held(b) \ ({r} \X T)
  BY DEF Promise!Held
<1>3. {r} \X T \in SUBSET Promise!Held(b)
  BY DEF Promise!Held
<1>4. Cardinality({r} \X T) = Cardinality(T)
  <2>1. IsFiniteSet({r}) /\ Cardinality({r}) = 1
    BY FS_Singleton
  <2>2. Cardinality({r} \X T) = Cardinality({r}) * Cardinality(T)
    BY <1>1, <2>1, FS_Product
  <2> QED
    BY <1>1, <2>1, <2>2
<1>5. IsFiniteSet(Promise!Held(b)) /\ Cardinality(Promise!Held(b)) \in Nat
  BY HeldFinite
<1>6. Cardinality(Promise!Held(d)) = Cardinality(Promise!Held(b)) - Cardinality({r} \X T)
  BY <1>2, <1>3, <1>5, PartTaken
<1> QED
  BY <1>1, <1>4, <1>5, <1>6

LEMMA HeldCountType ==
  /\ Inv => HeldCount \in Nat
  /\ Inv' => HeldCount' \in Nat
<1>1. /\ Inv => \A r \in Recipients : IsFiniteSet(queue[r])
      /\ Inv' => \A r \in Recipients : IsFiniteSet(queue'[r])
  BY DEF Inv, StoreInv, QueuesFinite
<1>2. PICK b, d : b = queue /\ d = queue'
  OBVIOUS
<1> QED
  BY <1>1, <1>2, HeldFinite DEF HeldCount

\* A push that is reported as stored adds one message, any other adds none.
LEMMA PushEffect ==
  ASSUME Inv, Inv', NEW r \in Recipients, NEW k \in Keys, NEW b \in 0..MaxMessageBytes,
         NEW t \in 0..now, Push(r, k, b, t)
  PROVE  \/ /\ reply'.op = "push" /\ reply'.stored
            /\ HeldCount' = HeldCount + 1
         \/ /\ reply'.op = "push" /\ ~reply'.stored
            /\ HeldCount' = HeldCount
         \/ /\ reply'.op = "quota_exceeded"
            /\ HeldCount' = HeldCount
<1>1. Promise!Push(r, k, b, t)
  BY PushImplements
<1>2. CASE queue' = queue /\ reply' = Promise!PushReply(r, FALSE)
  BY <1>2 DEF Promise!PushReply, HeldCount
<1>3. CASE queue' = queue /\ reply' = [op |-> "quota_exceeded"]
  BY <1>3 DEF HeldCount
<1>4. CASE /\ ~Promise!Holds(r, k)
           /\ queue' = [queue EXCEPT ![r] = @ \cup {Promise!NewMessage(k, b, t, seq[r])}]
           /\ reply' = Promise!PushReply(r, TRUE)
  <2>1. PICK q, d, m : q = queue /\ d = queue' /\ m = NewMessage(k, b, t, seq[r])
    OBVIOUS
  <2>2. m \notin q[r]
    BY <1>4, <2>1 DEF NewMessage, Promise!Holds
  <2>3. d = [q EXCEPT ![r] = @ \cup {m}]
    BY <1>4, <2>1, PromiseWords
  <2>4. Boxes(q)
    BY <2>1 DEF Inv, StoreInv, StoreTypeOK, QueuesFinite, Boxes
  <2>5. Cardinality(Promise!Held(d)) = Cardinality(Promise!Held(q)) + 1
    <3>1. Gains(q, d, r, m)
      BY <2>2, <2>3 DEF Gains
    <3> QED
      BY <2>4, <3>1, HeldGains
  <2>6. HeldCount' = HeldCount + 1
    BY <2>1, <2>5 DEF HeldCount
  <2> QED
    BY <1>4, <2>6 DEF Promise!PushReply
<1> QED
  BY <1>1, <1>2, <1>3, <1>4 DEF Promise!Push

\* A pull takes from the store what it takes from the queue it reads.
LEMMA PullEffect ==
  ASSUME Inv, UnknownIsEmpty, Inv', NEW r \in Recipients, NEW c \in Cursors,
         NEW l \in 1..PullBatchMax, NEW t \in 0..now, Pull(r, c, l, t)
  PROVE  /\ reply'.op \in {"pull", "invalid_cursor"}
         /\ Cardinality(queue[r] \ queue'[r]) \in Nat
         /\ HeldCount' + Cardinality(queue[r] \ queue'[r]) = HeldCount
<1>1. Promise!Pull(r, c, l, t)
  BY PullImplements
<1>2. PICK q, d : q = queue /\ d = queue'
  OBVIOUS
<1>3. /\ q \in [Recipients -> SUBSET Message] /\ d \in [Recipients -> SUBSET Message]
      /\ \A s \in Recipients : IsFiniteSet(q[s])
  BY <1>2 DEF Inv, StoreInv, StoreTypeOK, QueuesFinite
<1>4. d = [q EXCEPT ![r] = @ \ (q[r] \ d[r])]
  <2>1. CASE queue' = queue
    BY <1>2, <1>3, <2>1
  <2>2. CASE queue'[r] \subseteq queue[r] /\ queue' = [queue EXCEPT ![r] = queue'[r]]
    BY <1>2, <1>3, <2>2
  <2> QED
    BY <1>1, <2>1, <2>2 DEF Promise!Pull
<1>5. PICK T : T = q[r] \ d[r]
  OBVIOUS
<1>6. Boxes(q) /\ Loses(q, d, r, T)
  BY <1>3, <1>4, <1>5 DEF Boxes, Loses
<1>7. /\ Cardinality(T) \in Nat
      /\ Cardinality(Promise!Held(d)) + Cardinality(T) = Cardinality(Promise!Held(q))
  BY <1>6, HeldLoses
<1>8. reply'.op \in {"pull", "invalid_cursor"}
  BY <1>1 DEF Promise!Pull
<1> QED
  BY <1>2, <1>5, <1>7, <1>8 DEF HeldCount

\* An ack reports as deleted what it took out, no more than it has entries.
LEMMA AckEffect ==
  ASSUME Inv, UnknownIsEmpty, Inv', NEW r \in Recipients, NEW K \in SUBSET Keys,
         Ack(r, K, Cardinality(K))
  PROVE  /\ reply'.op = "ack" /\ reply'.deleted \in 0..Cardinality(Keys)
         /\ HeldCount' + reply'.deleted = HeldCount
<1>1. Cardinality(K) + 0 = Cardinality(K) /\ 0 \in 0..MaxRepeats
  BY KeysAssumption, FS_Subset, FS_CardinalityType, BoundsAssumption
<1>2. Promise!Ack(r, K, Cardinality(K) + 0)
  BY <1>1, AckImplements
<1>3. PICK q, d, T : q = queue /\ d = queue' /\ T = {m \in queue[r] : m.key \in K}
  OBVIOUS
<1>4. Loses(q, d, r, T)
  BY <1>2, <1>3 DEF Promise!Ack, Loses
<1>5. reply'.op = "ack" /\ reply'.deleted = Cardinality(T)
  BY <1>2, <1>3, PromiseWords DEF Promise!Ack
<1>6. Boxes(q)
  BY <1>3 DEF Inv, StoreInv, StoreTypeOK, QueuesFinite, Boxes
<1>7. /\ Cardinality(T) \in Nat
      /\ Cardinality(Promise!Held(d)) + Cardinality(T) = Cardinality(Promise!Held(q))
  BY <1>4, <1>6, HeldLoses
<1>8. Cardinality(T) <= Cardinality(Keys)
  <2>1. PICK hit, gone :
          /\ hit = {k \in K : idx[r][k] # None}
          /\ gone = {m \in queue[r] : \E k \in hit : idx[r][k] = m.seq}
          /\ gone = {m \in queue[r] : m.key \in K}
          /\ IsFiniteSet(gone) /\ IsFiniteSet(hit)
          /\ Cardinality(hit) = Cardinality(gone)
    BY EntriesAreMessages, Zenon
  <2>2. hit \in SUBSET Keys
    BY <2>1
  <2>3. Cardinality(hit) <= Cardinality(Keys)
    BY <2>2, KeysAssumption, FS_Subset
  <2> QED
    BY <1>3, <2>1, <2>3
<1> QED
  BY <1>3, <1>5, <1>7, <1>8, KeysCounted DEF HeldCount

\* The collector reports as removed what it took out.
LEMMA PurgeEffect ==
  ASSUME Inv, NEW t \in 0..now, Purge(t)
  PROVE  /\ reply'.removed \in Nat
         /\ HeldCount' + reply'.removed = HeldCount
<1>1. Promise!Purge(t)
  BY PurgeImplements
<1>2. PICK q, d : q = queue /\ d = queue'
  OBVIOUS
<1>3. Promise!Held(d) \subseteq Promise!Held(q)
  BY <1>1, <1>2 DEF Promise!Purge
<1>4. reply'.removed = Cardinality(Promise!Held(q) \ Promise!Held(d))
  BY <1>1, <1>2, PromiseWords DEF Promise!Purge
<1>5. IsFiniteSet(Promise!Held(q)) /\ Cardinality(Promise!Held(q)) \in Nat
  <2>1. \A r \in Recipients : IsFiniteSet(q[r])
    BY <1>2 DEF Inv, StoreInv, QueuesFinite
  <2> QED
    BY <2>1, HeldFinite
<1>6. Promise!Held(q) \cap Promise!Held(d) = Promise!Held(d)
  BY <1>3
<1>7. /\ Cardinality(Promise!Held(d)) \in Nat
      /\ Cardinality(Promise!Held(q) \ Promise!Held(d)) \in Nat
  BY <1>3, <1>5, FS_Subset, FS_Difference, FS_CardinalityType
<1>8. Cardinality(Promise!Held(q) \ Promise!Held(d)) =
        Cardinality(Promise!Held(q)) - Cardinality(Promise!Held(d))
  BY <1>5, <1>6, FS_Difference
<1> QED
  BY <1>2, <1>4, <1>5, <1>7, <1>8 DEF HeldCount

-----------------------------------------------------------------------------
(***************************************************************************)
(* Handlers and the collector call the store as it may be called.          *)
(***************************************************************************)

LEMMA PassedRequests ==
  ASSUME NEW q \in Passed
  PROVE  \/ /\ q.op = "push" /\ q.to \in Recipients /\ q.key \in Keys
            /\ q.bytes \in 0..MaxMessageBytes
         \/ /\ q.op = "pull" /\ q.to \in Recipients /\ q.cursor \in Cursors
            /\ q.max \in 1..PullBatchMax
         \/ q.op = "ack" /\ q.to \in Recipients /\ q.keys \in SUBSET Keys
<1>1. q \in Requests /\ Accepts(q) /\ (q.op = "pull" => q.max \in 1..PullBatchMax)
  BY DEF Passed
<1>2. CASE q \in [op : {"push"}, well : BOOLEAN, to : Recipients, key : Keys,
                  bytes : 0..(MaxMessageBytes + 1)]
  <2>1. q.op = "push" /\ q.to \in Recipients /\ q.key \in Keys /\ q.bytes \in 0..(MaxMessageBytes + 1)
    BY <1>2
  <2> QED
    BY <1>1, <2>1, LimitsAssumption DEF Accepts
<1>3. CASE q \in [op : {"pull"}, well : BOOLEAN, to : Recipients, cursor : Cursors,
                  max : {None} \cup 0..(PullBatchMax + 1)]
  BY <1>1, <1>3
<1>4. CASE q \in [op : {"ack"}, well : BOOLEAN, to : Recipients, keys : SUBSET Keys]
  BY <1>4
<1> QED
  BY <1>1, <1>2, <1>3, <1>4 DEF Requests

\* What a thread that waits for the store has in hand.
LEMMA WaitingCall ==
  ASSUME ServerInv, NEW c \in Threads, calls[c].pc = "store"
  PROVE  calls[c].q \in Passed /\ calls[c].t \in 0..now
<1>1. calls[c] \in CallStates /\ now \in Nat /\ calls[c].t <= now
  BY DEF ServerInv, ServerTyped, ReadingsArePast, Inv, TypeOK
<1>2. calls[c] \in [pc : {"store"}, q : Passed, t : Nat]
  BY <1>1 DEF CallStates, Idle, Outcomes
<1>3. calls[c].q \in Passed /\ calls[c].t \in Nat
  BY <1>2
<1> QED
  BY <1>1, <1>3

LEMMA StoreCall ==
  ASSUME ServerInv, NEW c \in Threads, Store(c)
  PROVE  \E q \in Passed, t \in 0..now :
           /\ q = calls[c].q /\ t = calls[c].t
           /\ \/ /\ q.op = "push" /\ q.to \in Recipients /\ q.key \in Keys
                 /\ q.bytes \in 0..MaxMessageBytes
                 /\ Push(q.to, q.key, q.bytes, t)
              \/ /\ q.op = "pull" /\ q.to \in Recipients /\ q.cursor \in Cursors
                 /\ q.max \in 1..PullBatchMax
                 /\ Pull(q.to, q.cursor, q.max, t)
              \/ /\ q.op = "ack" /\ q.to \in Recipients /\ q.keys \in SUBSET Keys
                 /\ Ack(q.to, q.keys, Cardinality(q.keys))
<1>1. PICK q, t : q = calls[c].q /\ t = calls[c].t
  OBVIOUS
<1>2. q \in Passed /\ t \in 0..now
  BY <1>1, WaitingCall DEF Store
<1>3. /\ q.op = "push" => Push(q.to, q.key, q.bytes, t)
      /\ q.op = "pull" => Pull(q.to, q.cursor, q.max, t)
      /\ q.op = "ack" => Ack(q.to, q.keys, Cardinality(q.keys))
  BY <1>1 DEF Store
<1> QED
  BY <1>1, <1>2, <1>3, PassedRequests

\* Every step of the server is a step of the store, or leaves the store alone.
LEMMA UsesStoreStep ==
  ASSUME ServerInv, [ServerNext]_serverVars
  PROVE  [Next]_vars
<1>1. CASE Time
  BY <1>1 DEF Time, Next
<1>2. ASSUME NEW c \in Threads, Store(c)
      PROVE  Next
  <2>1. PICK q \in Passed, t \in 0..now :
          \/ /\ q.op = "push" /\ q.to \in Recipients /\ q.key \in Keys
             /\ q.bytes \in 0..MaxMessageBytes
             /\ Push(q.to, q.key, q.bytes, t)
          \/ /\ q.op = "pull" /\ q.to \in Recipients /\ q.cursor \in Cursors
             /\ q.max \in 1..PullBatchMax
             /\ Pull(q.to, q.cursor, q.max, t)
          \/ /\ q.op = "ack" /\ q.to \in Recipients /\ q.keys \in SUBSET Keys
             /\ Ack(q.to, q.keys, Cardinality(q.keys))
    BY <1>2, StoreCall
  <2>2. \A K \in SUBSET Keys : Cardinality(K) + 0 = Cardinality(K)
    BY KeysAssumption, FS_Subset, FS_CardinalityType
  <2>3. 0 \in 0..MaxRepeats
    BY BoundsAssumption
  <2> QED
    BY <2>1, <2>2, <2>3 DEF Next
<1>3. CASE GcPurge
  <2>1. gc.t \in 0..now
    <3>1. gc \in GcStates /\ gc.pc = "store" /\ gc.t <= now /\ now \in Nat
      BY <1>3 DEF GcPurge, ServerInv, ServerTyped, ReadingsArePast, Inv, TypeOK
    <3>2. gc \in [pc : {"store"}, t : Nat]
      BY <3>1 DEF GcStates, Idle
    <3> QED
      BY <3>1, <3>2
  <2> QED
    BY <1>3, <2>1 DEF GcPurge, Next
<1>4. ASSUME NEW c \in Threads, Limit(c) \/ (\E q \in Requests : Admit(c, q)) \/ Count(c) \/ Abandon(c)
      PROVE  UNCHANGED vars
  BY <1>4 DEF Limit, Admit, Count, Abandon
<1>5. CASE \/ GcTick \/ GcCount \/ Snapshot \/ (\E g \in Groups : Load(g)) \/ Answer
  BY <1>5 DEF GcTick, GcCount, Snapshot, Load, Answer
<1>6. CASE UNCHANGED serverVars
  BY <1>6 DEF serverVars
<1> QED
  BY <1>1, <1>2, <1>3, <1>4, <1>5, <1>6 DEF ServerNext, Handler

LEMMA StoreStaysSound ==
  ASSUME ServerInv, [ServerNext]_serverVars
  PROVE  Inv' /\ UnknownIsEmpty'
BY UsesStoreStep, NextInv, UnknownStaysEmpty DEF ServerInv

-----------------------------------------------------------------------------
(***************************************************************************)
(* The steps of the server.                                                *)
(***************************************************************************)

Upkept == ServerTyped /\ ReadingsArePast /\ CountersBalance /\ PushesAreCounted /\ SnapshotIsBehind

\* What the collector has still to count.
GcOwes == IF gc.pc = "count" THEN gc.removed ELSE 0

LEMMA BalanceForm ==
  /\ CountersBalance <=>
       metrics["push_stored"] + Owing("push_stored") =
         HeldCount + metrics["ack_deleted"] + Owing("ack_deleted")
           + metrics["gc_removed"] + GcOwes + lapsed
  /\ CountersBalance' <=>
       metrics'["push_stored"] + Owing("push_stored")' =
         HeldCount' + metrics'["ack_deleted"] + Owing("ack_deleted")'
           + metrics'["gc_removed"] + GcOwes' + lapsed'
BY DEF CountersBalance, HeldCount, Promise!Held, GcOwes

LEMMA GcOwesType ==
  ASSUME ServerTyped
  PROVE  GcOwes \in Nat
BY DEF ServerTyped, GcStates, GcOwes, Idle

LEMMA BooksArithmetic ==
  ASSUME NEW p1 \in Nat, NEW p2 \in Nat, NEW o1 \in Nat, NEW o2 \in Nat,
         NEW x1 \in Nat, NEW x2 \in Nat, NEW h1 \in Nat, NEW h2 \in Nat,
         NEW a1 \in Nat, NEW a2 \in Nat, NEW w1 \in Nat, NEW w2 \in Nat,
         NEW y1 \in Nat, NEW y2 \in Nat, NEW l1 \in Nat, NEW l2 \in Nat,
         NEW g \in Nat, NEW k \in Nat,
         o2 + x1 = o1 + x2, w2 + y1 = w1 + y2,
         p2 + x2 + (h1 + a1 + y1 + l1) = p1 + x1 + (h2 + a2 + y2 + l2),
         p1 + o1 = h1 + a1 + w1 + g + k + l1
  PROVE  p2 + o2 = h2 + a2 + w2 + g + k + l2
OBVIOUS

\* A step of one thread keeps the books when its own entries balance.
LEMMA ThreadMoves ==
  ASSUME ServerInv, Inv', NEW c \in Threads, NEW s \in CallStates,
         calls' = [calls EXCEPT ![c] = s], s.pc = "store" => s.t <= now,
         UNCHANGED <<now, gc, stats>>, lapsed' \in Nat,
         metrics' \in [Counters -> Nat], \A n \in Counters : metrics[n] <= metrics'[n],
         metrics["gc_removed"] = metrics'["gc_removed"],
         metrics'["push_stored"] + Share(s, "push_stored")
             + (HeldCount + metrics["ack_deleted"] + Share(calls[c], "ack_deleted") + lapsed)
           = metrics["push_stored"] + Share(calls[c], "push_stored")
             + (HeldCount' + metrics'["ack_deleted"] + Share(s, "ack_deleted") + lapsed'),
         metrics'["push_stored"] + metrics'["duplicates"] + One(s) + metrics["push_total"]
           <= metrics["push_stored"] + metrics["duplicates"] + One(calls[c]) + metrics'["push_total"]
  PROVE  Upkept'
<1>1. ServerTyped /\ ReadingsArePast /\ CountersBalance /\ PushesAreCounted /\ SnapshotIsBehind
  BY DEF ServerInv
<1>2. ServerTyped'
  BY <1>1 DEF ServerTyped
<1>3. ReadingsArePast'
  BY <1>1 DEF ReadingsArePast, ServerTyped
<1>4. /\ metrics["push_stored"] \in Nat /\ metrics'["push_stored"] \in Nat
      /\ metrics["ack_deleted"] \in Nat /\ metrics'["ack_deleted"] \in Nat
      /\ metrics["gc_removed"] \in Nat
      /\ metrics["duplicates"] \in Nat /\ metrics'["duplicates"] \in Nat
      /\ metrics["push_total"] \in Nat /\ metrics'["push_total"] \in Nat
      /\ lapsed \in Nat
  BY <1>1 DEF ServerTyped, Counters
<1>5. CountersBalance'
  <2>1. /\ Owing("push_stored") \in Nat /\ Owing("push_stored")' \in Nat
        /\ Share(calls[c], "push_stored") \in Nat /\ Share(s, "push_stored") \in Nat
        /\ Owing("push_stored")' + Share(calls[c], "push_stored") = Owing("push_stored") + Share(s, "push_stored")
    BY <1>1, OwingMoves
  <2>2. /\ Owing("ack_deleted") \in Nat /\ Owing("ack_deleted")' \in Nat
        /\ Share(calls[c], "ack_deleted") \in Nat /\ Share(s, "ack_deleted") \in Nat
        /\ Owing("ack_deleted")' + Share(calls[c], "ack_deleted") = Owing("ack_deleted") + Share(s, "ack_deleted")
    BY <1>1, OwingMoves
  <2>3. HeldCount \in Nat /\ HeldCount' \in Nat /\ GcOwes \in Nat /\ GcOwes' = GcOwes
    <3>1. HeldCount \in Nat
      BY HeldCountType DEF ServerInv
    <3>2. HeldCount' \in Nat
      BY HeldCountType
    <3>3. GcOwes \in Nat /\ GcOwes' = GcOwes
      BY <1>1, GcOwesType DEF GcOwes
    <3> QED
      BY <3>1, <3>2, <3>3
  <2>4. metrics["push_stored"] + Owing("push_stored") =
          HeldCount + metrics["ack_deleted"] + Owing("ack_deleted")
            + metrics["gc_removed"] + GcOwes + lapsed
    BY <1>1, BalanceForm
  <2>5. metrics'["push_stored"] + Owing("push_stored")' =
          HeldCount' + metrics'["ack_deleted"] + Owing("ack_deleted")'
            + metrics'["gc_removed"] + GcOwes' + lapsed'
    BY <1>4, <2>1, <2>2, <2>3, <2>4, BooksArithmetic
  <2> QED
    BY <2>5, BalanceForm
<1>6. PushesAreCounted'
  <2>1. Pushes' + One(calls[c]) = Pushes + One(s) /\ Pushes \in Nat /\ Pushes' \in Nat
    BY <1>1, PushesMove, PushesType
  <2>2. One(s) \in Nat /\ One(calls[c]) \in Nat
    BY DEF One
  <2>3. metrics["push_stored"] + metrics["duplicates"] + Pushes <= metrics["push_total"]
    BY <1>1 DEF PushesAreCounted, Pushes
  <2>4. metrics'["push_stored"] + metrics'["duplicates"] + Pushes' <= metrics'["push_total"]
    BY <1>4, <2>1, <2>2, <2>3
  <2> QED
    BY <2>4 DEF PushesAreCounted, Pushes
<1>7. SnapshotIsBehind'
  <2>1. ASSUME stats.pc \in {"load", "answer"}, NEW n \in Counters
        PROVE  stats.got[n] <= metrics'[n]
    <3>1. stats.got[n] \in Nat /\ metrics[n] \in Nat /\ metrics'[n] \in Nat
      BY <1>1, <2>1 DEF ServerTyped, StatsStates, Idle
    <3> QED
      BY <1>1, <2>1, <3>1 DEF SnapshotIsBehind
  <2> QED
    BY <2>1 DEF SnapshotIsBehind
<1> QED
  BY <1>2, <1>3, <1>5, <1>6, <1>7 DEF Upkept

LEMMA MetricsType ==
  ASSUME ServerTyped, NEW n \in Counters, NEW a \in Nat, Add(n, a)
  PROVE  /\ metrics' \in [Counters -> Nat]
         /\ \A m \in Counters : metrics[m] <= metrics'[m]
         /\ metrics'[n] = metrics[n] + a
         /\ \A m \in Counters \ {n} : metrics'[m] = metrics[m]
<1>1. \A m \in Counters : metrics[m] \in Nat
  BY DEF ServerTyped
<1> QED
  BY <1>1 DEF ServerTyped, Add

LEMMA CountersAreNat ==
  ASSUME ServerTyped
  PROVE  /\ metrics["push_stored"] \in Nat /\ metrics["duplicates"] \in Nat
         /\ metrics["push_total"] \in Nat /\ metrics["ack_deleted"] \in Nat
         /\ metrics["gc_removed"] \in Nat /\ lapsed \in Nat
BY DEF ServerTyped, Counters

LEMMA LimitKeeps ==
  ASSUME ServerInv, Inv', NEW c \in Threads, Limit(c)
  PROVE  Upkept'
<1>1. ServerTyped /\ calls[c] = Idle /\ Add("rate_limited", 1) /\ Idle \in CallStates /\ Idle.pc # "store"
  BY DEF Limit, ServerInv, CallStates, Idle
<1>2. calls' = [calls EXCEPT ![c] = Idle]
  BY <1>1 DEF Limit, ServerTyped
<1>3. /\ metrics' \in [Counters -> Nat] /\ \A n \in Counters : metrics[n] <= metrics'[n]
      /\ \A n \in Counters \ {"rate_limited"} : metrics'[n] = metrics[n]
  BY <1>1, MetricsType DEF Counters
<1>4. /\ metrics'["push_stored"] = metrics["push_stored"] /\ metrics'["duplicates"] = metrics["duplicates"]
      /\ metrics'["push_total"] = metrics["push_total"] /\ metrics'["ack_deleted"] = metrics["ack_deleted"]
      /\ metrics'["gc_removed"] = metrics["gc_removed"]
  BY <1>3 DEF Counters
<1>5. HeldCount' = HeldCount /\ UNCHANGED <<now, gc, stats, lapsed>>
  BY DEF Limit, HeldCount, vars, store
<1>6. HeldCount \in Nat /\ One(Idle) \in Nat
  BY HeldCountType DEF ServerInv, One
<1>7. Share(Idle, "push_stored") = 0 /\ Share(Idle, "ack_deleted") = 0
  BY DEF Share, Idle
<1>8. metrics'["push_stored"] + Share(Idle, "push_stored")
          + (HeldCount + metrics["ack_deleted"] + Share(calls[c], "ack_deleted") + lapsed)
        = metrics["push_stored"] + Share(calls[c], "push_stored")
          + (HeldCount' + metrics'["ack_deleted"] + Share(Idle, "ack_deleted") + lapsed')
  BY <1>1, <1>4, <1>5, <1>6, <1>7, CountersAreNat
<1>9. metrics'["push_stored"] + metrics'["duplicates"] + One(Idle) + metrics["push_total"]
        <= metrics["push_stored"] + metrics["duplicates"] + One(calls[c]) + metrics'["push_total"]
  BY <1>1, <1>4, <1>5, <1>6, <1>7, CountersAreNat
<1>10. lapsed' \in Nat
  BY <1>1, <1>4, <1>5, <1>6, <1>7, CountersAreNat
<1> QED
  BY <1>1, <1>2, <1>3, <1>4, <1>5, <1>8, <1>9, <1>10, ThreadMoves

\* A request enters counted; a push brings a count that waits to be balanced.
LEMMA AdmitKeeps ==
  ASSUME ServerInv, Inv', NEW c \in Threads, NEW q \in Requests, Admit(c, q)
  PROVE  Upkept'
<1>1. ServerTyped /\ calls[c] = Idle /\ Add(Total(q.op), 1) /\ now \in Nat
  BY DEF Admit, ServerInv, Inv, TypeOK
<1>2. q.op \in {"push", "pull", "ack"}
  BY DEF Requests
<1>3. Accepts(q) => Prepared(q) \in Passed
  <2>1. CASE q.op = "pull"
    <3>1. q \in [op : {"pull"}, well : BOOLEAN, to : Recipients, cursor : Cursors,
                 max : {None} \cup 0..(PullBatchMax + 1)]
      BY <2>1 DEF Requests
    <3>2. Accepts(q) => Clamped(q.max) \in 1..PullBatchMax
      BY <2>1, <3>1, LimitsAssumption, NoneAssumption DEF Accepts, Clamped
    <3>3. Prepared(q) = [q EXCEPT !.max = Clamped(q.max)]
      BY <2>1 DEF Prepared
    <3>4. ASSUME Accepts(q)
          PROVE  /\ Prepared(q) \in [op : {"pull"}, well : BOOLEAN, to : Recipients, cursor : Cursors,
                                     max : {None} \cup 0..(PullBatchMax + 1)]
                 /\ Prepared(q).op = "pull" /\ Prepared(q).max \in 1..PullBatchMax
                 /\ Prepared(q).well = q.well
      <4>1. Clamped(q.max) \in 0..(PullBatchMax + 1)
        BY <3>2, <3>4, LimitsAssumption
      <4> QED
        BY <3>1, <3>2, <3>3, <3>4, <4>1, <2>1
    <3>5. Accepts(q) => Accepts(Prepared(q))
      <4>1. 0 \notin 1..PullBatchMax
        BY LimitsAssumption
      <4> QED
        BY <3>4, <4>1 DEF Accepts
    <3> QED
      BY <3>4, <3>5 DEF Passed, Requests
  <2>2. CASE q.op # "pull"
    BY <2>2 DEF Prepared, Passed
  <2> QED
    BY <2>1, <2>2
<1>4. Prepared(q).op = q.op
  BY DEF Prepared, Requests
<1>5. PICK s : s = Waiting(q)
  OBVIOUS
<1>6. s \in CallStates /\ s.pc # "count" /\ (s.pc = "store" => s.t <= now /\ s.q.op = q.op)
  <2>1. CASE Accepts(q)
    BY <1>1, <1>3, <1>4, <1>5, <2>1 DEF Waiting, CallStates
  <2>2. CASE ~Accepts(q)
    BY <1>5, <2>2 DEF Waiting, CallStates, Idle
  <2> QED
    BY <2>1, <2>2
<1>7. Total(q.op) \in Counters /\ (q.op = "push" <=> Total(q.op) = "push_total")
      /\ Total(q.op) \in {"push_total", "pull_total", "ack_total"}
  BY <1>2 DEF Total, Counters
<1>8. /\ metrics' \in [Counters -> Nat] /\ \A n \in Counters : metrics[n] <= metrics'[n]
      /\ metrics'[Total(q.op)] = metrics[Total(q.op)] + 1
      /\ \A n \in Counters \ {Total(q.op)} : metrics'[n] = metrics[n]
  BY <1>1, <1>7, MetricsType
<1>9. /\ metrics'["push_stored"] = metrics["push_stored"] /\ metrics'["duplicates"] = metrics["duplicates"]
      /\ metrics'["ack_deleted"] = metrics["ack_deleted"] /\ metrics'["gc_removed"] = metrics["gc_removed"]
      /\ metrics'["push_total"] = metrics["push_total"] + (IF q.op = "push" THEN 1 ELSE 0)
  BY <1>7, <1>8, CountersAreNat, <1>1 DEF Counters
<1>10. One(s) <= (IF q.op = "push" THEN 1 ELSE 0) /\ One(s) \in Nat /\ One(Idle) = 0
  BY <1>6 DEF One, InPush, Idle
<1>11. Share(s, "push_stored") = 0 /\ Share(s, "ack_deleted") = 0
       /\ Share(Idle, "push_stored") = 0 /\ Share(Idle, "ack_deleted") = 0
  BY <1>6 DEF Share, Idle
<1>12. HeldCount' = HeldCount /\ UNCHANGED <<now, gc, stats, lapsed>> /\ calls' = [calls EXCEPT ![c] = s]
  BY <1>5 DEF Admit, HeldCount, vars, store
<1>13. HeldCount \in Nat
  BY HeldCountType DEF ServerInv
<1>14. metrics'["push_stored"] + Share(s, "push_stored")
          + (HeldCount + metrics["ack_deleted"] + Share(calls[c], "ack_deleted") + lapsed)
        = metrics["push_stored"] + Share(calls[c], "push_stored")
          + (HeldCount' + metrics'["ack_deleted"] + Share(s, "ack_deleted") + lapsed')
  BY <1>1, <1>9, <1>10, <1>11, <1>12, <1>13, CountersAreNat
<1>15. metrics'["push_stored"] + metrics'["duplicates"] + One(s) + metrics["push_total"]
        <= metrics["push_stored"] + metrics["duplicates"] + One(calls[c]) + metrics'["push_total"]
  BY <1>1, <1>9, <1>10, <1>11, <1>12, <1>13, CountersAreNat
<1>16. lapsed' \in Nat
  BY <1>1, <1>9, <1>10, <1>11, <1>12, <1>13, CountersAreNat
<1> QED
  BY <1>6, <1>8, <1>9, <1>12, <1>14, <1>15, <1>16, ThreadMoves

\* Counting an outcome turns what a thread owes into what the counter shows.
LEMMA CountKeeps ==
  ASSUME ServerInv, Inv', NEW c \in Threads, Count(c)
  PROVE  Upkept'
<1>1. PICK n, a : n = calls[c].n /\ a = calls[c].amount
  OBVIOUS
<1>2. ServerTyped /\ calls[c].pc = "count" /\ Add(n, a) /\ Idle \in CallStates /\ Idle.pc = "idle"
  BY <1>1 DEF Count, ServerInv, CallStates, Idle
<1>3. calls[c] \in Outcomes
  BY <1>2 DEF ServerTyped, CallStates, Idle
<1>4. a \in Nat /\ n \in {"push_stored", "duplicates", "ack_deleted"} /\ n \in Counters
      /\ (n \in {"push_stored", "duplicates"} => a = 1)
  BY <1>1, <1>3, KeysCounted DEF Outcomes, Counters
<1>5. /\ metrics' \in [Counters -> Nat] /\ \A m \in Counters : metrics[m] <= metrics'[m]
      /\ metrics'[n] = metrics[n] + a
      /\ \A m \in Counters \ {n} : metrics'[m] = metrics[m]
  BY <1>2, <1>4, MetricsType
<1>6. /\ metrics'["push_stored"] = metrics["push_stored"] + Share(calls[c], "push_stored")
      /\ metrics'["ack_deleted"] = metrics["ack_deleted"] + Share(calls[c], "ack_deleted")
      /\ metrics'["push_total"] = metrics["push_total"] /\ metrics'["gc_removed"] = metrics["gc_removed"]
  BY <1>1, <1>2, <1>4, <1>5, CountersAreNat DEF Share, Counters
<1>7. /\ metrics'["push_stored"] + metrics'["duplicates"] =
           metrics["push_stored"] + metrics["duplicates"] + One(calls[c])
      /\ One(calls[c]) \in Nat
  BY <1>1, <1>2, <1>4, <1>5, CountersAreNat DEF One, InPush, Counters
<1>8. Share(Idle, "push_stored") = 0 /\ Share(Idle, "ack_deleted") = 0 /\ One(Idle) = 0
  BY <1>2 DEF Share, One, InPush
<1>9. HeldCount' = HeldCount /\ UNCHANGED <<now, gc, stats, lapsed>> /\ calls' = [calls EXCEPT ![c] = Idle]
  BY DEF Count, HeldCount, vars, store
<1>10. HeldCount \in Nat
  BY HeldCountType DEF ServerInv
<1>11. Share(calls[c], "push_stored") \in Nat /\ Share(calls[c], "ack_deleted") \in Nat
  BY <1>1, <1>4 DEF Share
<1>12. metrics'["push_stored"] + Share(Idle, "push_stored")
          + (HeldCount + metrics["ack_deleted"] + Share(calls[c], "ack_deleted") + lapsed)
        = metrics["push_stored"] + Share(calls[c], "push_stored")
          + (HeldCount' + metrics'["ack_deleted"] + Share(Idle, "ack_deleted") + lapsed')
  BY <1>2, <1>6, <1>7, <1>8, <1>9, <1>10, <1>11, CountersAreNat
<1>13. metrics'["push_stored"] + metrics'["duplicates"] + One(Idle) + metrics["push_total"]
        <= metrics["push_stored"] + metrics["duplicates"] + One(calls[c]) + metrics'["push_total"]
  BY <1>2, <1>6, <1>7, <1>8, <1>9, <1>10, <1>11, CountersAreNat
<1>14. lapsed' \in Nat
  BY <1>2, <1>6, <1>7, <1>8, <1>9, <1>10, <1>11, CountersAreNat
<1> QED
  BY <1>2, <1>5, <1>6, <1>9, <1>12, <1>13, <1>14, ThreadMoves

\* Whoever goes away before the store has answered leaves no trace in the books.
LEMMA AbandonKeeps ==
  ASSUME ServerInv, Inv', NEW c \in Threads, Abandon(c)
  PROVE  Upkept'
<1>1. ServerTyped /\ calls[c].pc = "store" /\ Idle \in CallStates /\ Idle.pc = "idle"
  BY DEF Abandon, ServerInv, CallStates, Idle
<1>2. /\ Share(calls[c], "push_stored") = 0 /\ Share(calls[c], "ack_deleted") = 0
      /\ Share(Idle, "push_stored") = 0 /\ Share(Idle, "ack_deleted") = 0
      /\ One(Idle) = 0 /\ One(calls[c]) \in Nat
  BY <1>1 DEF Share, One, InPush
<1>3. /\ HeldCount' = HeldCount /\ UNCHANGED <<now, gc, stats, lapsed, metrics>>
      /\ calls' = [calls EXCEPT ![c] = Idle]
  BY DEF Abandon, HeldCount, vars, store
<1>4. HeldCount \in Nat
  BY HeldCountType DEF ServerInv
<1>5. metrics' \in [Counters -> Nat] /\ \A n \in Counters : metrics[n] <= metrics'[n]
  BY <1>1, <1>3 DEF ServerTyped
<1>6. metrics'["push_stored"] + Share(Idle, "push_stored")
          + (HeldCount + metrics["ack_deleted"] + Share(calls[c], "ack_deleted") + lapsed)
        = metrics["push_stored"] + Share(calls[c], "push_stored")
          + (HeldCount' + metrics'["ack_deleted"] + Share(Idle, "ack_deleted") + lapsed')
  BY <1>1, <1>2, <1>3, <1>4, CountersAreNat
<1>7. metrics'["push_stored"] + metrics'["duplicates"] + One(Idle) + metrics["push_total"]
        <= metrics["push_stored"] + metrics["duplicates"] + One(calls[c]) + metrics'["push_total"]
  BY <1>1, <1>2, <1>3, <1>4, CountersAreNat
<1>8. lapsed' \in Nat
  BY <1>1, <1>2, <1>3, <1>4, CountersAreNat
<1> QED
  BY <1>1, <1>3, <1>5, <1>6, <1>7, <1>8, ThreadMoves

\* What a call of the store leaves its thread to count is what it did to the
\* store, but for what a pull drops.
LEMMA StoreOutcome ==
  ASSUME ServerInv, Inv', NEW c \in Threads, Store(c)
  PROVE  \E s \in CallStates, gone \in Nat :
           /\ calls' = [calls EXCEPT ![c] = s] /\ s.pc # "store"
           /\ lapsed' = lapsed + gone
           /\ HeldCount' + Share(s, "ack_deleted") + gone = HeldCount + Share(s, "push_stored")
           /\ One(s) <= One(calls[c])
<1>1. PICK q \in Passed, t \in 0..now :
        /\ q = calls[c].q
        /\ \/ /\ q.op = "push" /\ q.to \in Recipients /\ q.key \in Keys
              /\ q.bytes \in 0..MaxMessageBytes
              /\ Push(q.to, q.key, q.bytes, t)
           \/ /\ q.op = "pull" /\ q.to \in Recipients /\ q.cursor \in Cursors
              /\ q.max \in 1..PullBatchMax
              /\ Pull(q.to, q.cursor, q.max, t)
           \/ /\ q.op = "ack" /\ q.to \in Recipients /\ q.keys \in SUBSET Keys
              /\ Ack(q.to, q.keys, Cardinality(q.keys))
  BY StoreCall
<1>2. Inv /\ UnknownIsEmpty /\ HeldCount \in Nat /\ HeldCount' \in Nat /\ lapsed \in Nat
  BY HeldCountType DEF ServerInv, ServerTyped
<1>3. PICK s, gone :
        /\ s = Outcome(reply')
        /\ gone = IF q.op = "pull" THEN Cardinality(queue[q.to] \ queue'[q.to]) ELSE 0
  OBVIOUS
<1>4. calls[c].pc = "store" /\ calls' = [calls EXCEPT ![c] = s] /\ lapsed' = lapsed + gone
  BY <1>1, <1>3 DEF Store
<1>5. Idle \in CallStates /\ Idle.pc = "idle" /\ One(Idle) = 0
      /\ Share(Idle, "push_stored") = 0 /\ Share(Idle, "ack_deleted") = 0
  BY DEF CallStates, Idle, One, InPush, Share
<1>6. SUFFICES /\ s \in CallStates /\ gone \in Nat /\ s.pc # "store"
               /\ HeldCount' + Share(s, "ack_deleted") + gone = HeldCount + Share(s, "push_stored")
               /\ One(s) <= One(calls[c])
  BY <1>4
<1>7. CASE q.op = "push"
  <2>1. gone = 0 /\ One(calls[c]) = 1
    BY <1>1, <1>3, <1>4, <1>7 DEF One, InPush
  <2>2. \/ /\ reply'.op = "push" /\ reply'.stored
           /\ HeldCount' = HeldCount + 1
        \/ /\ reply'.op = "push" /\ ~reply'.stored
           /\ HeldCount' = HeldCount
        \/ /\ reply'.op = "quota_exceeded"
           /\ HeldCount' = HeldCount
    BY <1>1, <1>2, <1>7, PushEffect
  <2>3. 1 \in 0..Cardinality(Keys)
    <3>1. Keys # {}
      BY <1>1, <1>7
    <3> QED
      BY <3>1, KeysAssumption, KeysCounted, FS_EmptySet
  <2>4. CASE reply'.op = "push"
    <3>1. s = [pc |-> "count", n |-> IF reply'.stored THEN "push_stored" ELSE "duplicates", amount |-> 1]
      BY <1>3, <2>4 DEF Outcome
    <3>2. s \in CallStates
      BY <2>3, <3>1 DEF CallStates, Outcomes
    <3>3. /\ Share(s, "push_stored") = (IF reply'.stored THEN 1 ELSE 0)
          /\ Share(s, "ack_deleted") = 0 /\ One(s) = 1
      BY <3>1 DEF Share, One, InPush
    <3> QED
      BY <1>2, <2>1, <2>2, <2>4, <3>1, <3>2, <3>3
  <2>5. CASE reply'.op = "quota_exceeded"
    <3>1. s = Idle
      BY <1>3, <2>5 DEF Outcome
    <3> QED
      BY <1>2, <1>5, <2>1, <2>2, <2>5, <3>1
  <2> QED
    BY <2>2, <2>4, <2>5
<1>8. CASE q.op = "pull"
  <2>1. PICK r \in Recipients, k \in Cursors, l \in 1..PullBatchMax :
          r = q.to /\ Pull(r, k, l, t)
    BY <1>1, <1>8
  <2>2. /\ reply'.op \in {"pull", "invalid_cursor"}
        /\ Cardinality(queue[r] \ queue'[r]) \in Nat
        /\ HeldCount' + Cardinality(queue[r] \ queue'[r]) = HeldCount
    BY <1>2, <2>1, PullEffect
  <2>3. gone = Cardinality(queue[r] \ queue'[r])
    BY <1>3, <1>8, <2>1
  <2>4. s = Idle
    BY <1>3, <2>2 DEF Outcome
  <2>5. One(calls[c]) \in Nat
    BY DEF One
  <2> QED
    BY <1>2, <1>5, <2>2, <2>3, <2>4, <2>5
<1>9. CASE q.op = "ack"
  <2>1. PICK r \in Recipients, K \in SUBSET Keys : Ack(r, K, Cardinality(K))
    BY <1>1, <1>9
  <2>2. /\ reply'.op = "ack" /\ reply'.deleted \in 0..Cardinality(Keys)
        /\ HeldCount' + reply'.deleted = HeldCount
    BY <1>2, <2>1, AckEffect
  <2>3. s = [pc |-> "count", n |-> "ack_deleted", amount |-> reply'.deleted]
    BY <1>3, <2>2 DEF Outcome
  <2>4. s \in CallStates
    BY <2>2, <2>3 DEF CallStates, Outcomes
  <2>5. /\ Share(s, "push_stored") = 0 /\ Share(s, "ack_deleted") = reply'.deleted
        /\ One(s) = 0 /\ One(calls[c]) \in Nat
    BY <2>3 DEF Share, One, InPush
  <2>6. gone = 0 /\ reply'.deleted \in Nat
    BY <1>3, <1>9, <2>2, KeysCounted
  <2> QED
    BY <1>2, <2>2, <2>3, <2>4, <2>5, <2>6
<1> QED
  BY <1>1, <1>7, <1>8, <1>9

LEMMA StoreKeeps ==
  ASSUME ServerInv, Inv', NEW c \in Threads, Store(c)
  PROVE  Upkept'
<1>1. PICK s \in CallStates, gone \in Nat :
        /\ calls' = [calls EXCEPT ![c] = s] /\ s.pc # "store"
        /\ lapsed' = lapsed + gone
        /\ HeldCount' + Share(s, "ack_deleted") + gone = HeldCount + Share(s, "push_stored")
        /\ One(s) <= One(calls[c])
  BY StoreOutcome
<1>2. ServerTyped /\ calls[c].pc = "store" /\ UNCHANGED <<now, gc, stats, metrics>>
  <2>1. ServerTyped /\ calls[c].pc = "store" /\ UNCHANGED <<gc, stats, metrics>>
    BY DEF ServerInv, Store
  <2>2. now' = now
    BY StoreCall DEF Push, Pull, Ack
  <2> QED
    BY <2>1, <2>2
<1>3. /\ Share(calls[c], "push_stored") = 0 /\ Share(calls[c], "ack_deleted") = 0
      /\ One(calls[c]) \in Nat /\ One(s) \in Nat
  BY <1>2 DEF Share, One
<1>4. Share(s, "push_stored") \in Nat /\ Share(s, "ack_deleted") \in Nat
  BY ShareType, KeysCounted
<1>5. HeldCount \in Nat /\ HeldCount' \in Nat
  BY HeldCountType DEF ServerInv
<1>6. metrics' \in [Counters -> Nat] /\ \A n \in Counters : metrics[n] <= metrics'[n]
  BY <1>2 DEF ServerTyped
<1>7. lapsed' \in Nat
  BY <1>1, <1>2, CountersAreNat
<1>8. metrics'["push_stored"] + Share(s, "push_stored")
          + (HeldCount + metrics["ack_deleted"] + Share(calls[c], "ack_deleted") + lapsed)
        = metrics["push_stored"] + Share(calls[c], "push_stored")
          + (HeldCount' + metrics'["ack_deleted"] + Share(s, "ack_deleted") + lapsed')
  BY <1>1, <1>2, <1>3, <1>4, <1>5, CountersAreNat
<1>9. metrics'["push_stored"] + metrics'["duplicates"] + One(s) + metrics["push_total"]
        <= metrics["push_stored"] + metrics["duplicates"] + One(calls[c]) + metrics'["push_total"]
  BY <1>1, <1>2, <1>3, <1>4, <1>5, CountersAreNat
<1> QED
  BY <1>1, <1>2, <1>6, <1>7, <1>8, <1>9, ThreadMoves

\* Steps of the collector, of /stats and of the clock leave the threads where
\* they are.
LEMMA ThreadsStay ==
  ASSUME ServerInv, calls' = calls, metrics["push_stored"] = metrics'["push_stored"],
         metrics["duplicates"] = metrics'["duplicates"], metrics["push_total"] = metrics'["push_total"],
         metrics["ack_deleted"] = metrics'["ack_deleted"]
  PROVE  /\ PushesAreCounted'
         /\ Owing("push_stored")' = Owing("push_stored") /\ Owing("ack_deleted")' = Owing("ack_deleted")
         /\ Owing("push_stored") \in Nat /\ Owing("ack_deleted") \in Nat
<1>1. PushesAreCounted'
  BY DEF ServerInv, PushesAreCounted, InPush
<1>2. \A n : Owing(n)' = Owing(n)
  BY DEF Owing
<1> QED
  BY <1>1, <1>2, OwingType

\* The collector takes messages out and keeps in hand how many.
LEMMA GcPurgeKeeps ==
  ASSUME ServerInv, Inv', GcPurge
  PROVE  Upkept'
<1>1. /\ ServerTyped /\ ReadingsArePast /\ SnapshotIsBehind /\ gc.pc = "store" /\ Purge(gc.t)
      /\ UNCHANGED <<calls, metrics, stats, lapsed, now>>
      /\ gc' = [pc |-> "count", removed |-> reply'.removed]
  BY DEF ServerInv, GcPurge, Purge
<1>2. gc \in [pc : {"store"}, t : Nat] /\ gc.t <= now /\ now \in Nat
  BY <1>1 DEF ServerInv, ServerTyped, GcStates, Idle, ReadingsArePast, Inv, TypeOK
<1>3. PICK t \in 0..now : t = gc.t /\ Purge(t)
  BY <1>1, <1>2
<1>4. reply'.removed \in Nat /\ HeldCount' + reply'.removed = HeldCount
  BY <1>3, PurgeEffect DEF ServerInv
<1>5. ServerTyped'
  BY <1>1, <1>4 DEF ServerTyped, GcStates
<1>6. ReadingsArePast' /\ SnapshotIsBehind'
  BY <1>1 DEF ReadingsArePast, SnapshotIsBehind
<1>7. GcOwes = 0 /\ GcOwes' = reply'.removed
  BY <1>1 DEF GcOwes
<1>8. HeldCount \in Nat /\ HeldCount' \in Nat
  BY HeldCountType DEF ServerInv
<1>9. CountersBalance' /\ PushesAreCounted'
  <2>1. /\ Owing("push_stored")' = Owing("push_stored") /\ Owing("ack_deleted")' = Owing("ack_deleted")
        /\ Owing("push_stored") \in Nat /\ Owing("ack_deleted") \in Nat /\ PushesAreCounted'
    BY <1>1, ThreadsStay
  <2>2. metrics["push_stored"] + Owing("push_stored") =
          HeldCount + metrics["ack_deleted"] + Owing("ack_deleted")
            + metrics["gc_removed"] + GcOwes + lapsed
    BY BalanceForm DEF ServerInv
  <2>3. metrics'["push_stored"] + Owing("push_stored")' =
          HeldCount' + metrics'["ack_deleted"] + Owing("ack_deleted")'
            + metrics'["gc_removed"] + GcOwes' + lapsed'
    BY <1>1, <1>4, <1>7, <1>8, <2>1, <2>2, CountersAreNat
  <2> QED
    BY <2>1, <2>3, BalanceForm
<1> QED
  BY <1>5, <1>6, <1>9 DEF Upkept

\* It counts what it had in hand.
LEMMA GcCountKeeps ==
  ASSUME ServerInv, Inv', GcCount
  PROVE  Upkept'
<1>1. PICK a : a = gc.removed
  OBVIOUS
<1>2. /\ ServerTyped /\ ReadingsArePast /\ SnapshotIsBehind /\ gc.pc = "count" /\ Add("gc_removed", a)
      /\ gc' = Idle /\ UNCHANGED <<calls, stats, lapsed, now, queue>>
  BY <1>1 DEF ServerInv, GcCount, vars, store
<1>3. a \in Nat
  BY <1>1, <1>2 DEF ServerTyped, GcStates, Idle
<1>4. /\ metrics' \in [Counters -> Nat] /\ \A n \in Counters : metrics[n] <= metrics'[n]
      /\ metrics'["gc_removed"] = metrics["gc_removed"] + a
      /\ \A n \in Counters \ {"gc_removed"} : metrics'[n] = metrics[n]
  BY <1>2, <1>3, MetricsType DEF Counters
<1>5. /\ metrics'["push_stored"] = metrics["push_stored"] /\ metrics'["duplicates"] = metrics["duplicates"]
      /\ metrics'["push_total"] = metrics["push_total"] /\ metrics'["ack_deleted"] = metrics["ack_deleted"]
  BY <1>4 DEF Counters
<1>6. ServerTyped'
  BY <1>2, <1>4 DEF ServerTyped, GcStates
<1>7. ReadingsArePast'
  BY <1>2 DEF ReadingsArePast, Idle
<1>8. SnapshotIsBehind'
  <2>1. ASSUME stats.pc \in {"load", "answer"}, NEW n \in Counters
        PROVE  stats.got[n] <= metrics'[n]
    <3>1. stats.got[n] \in Nat /\ metrics[n] \in Nat /\ metrics'[n] \in Nat
      BY <1>2, <1>4, <2>1 DEF ServerTyped, StatsStates, Idle
    <3> QED
      BY <1>2, <1>4, <2>1, <3>1 DEF SnapshotIsBehind
  <2> QED
    BY <1>2, <2>1 DEF SnapshotIsBehind
<1>9. GcOwes = a /\ GcOwes' = 0
  BY <1>1, <1>2 DEF GcOwes, Idle
<1>10. HeldCount \in Nat /\ HeldCount' = HeldCount
  BY <1>2, HeldCountType DEF ServerInv, HeldCount
<1>11. CountersBalance' /\ PushesAreCounted'
  <2>1. /\ Owing("push_stored")' = Owing("push_stored") /\ Owing("ack_deleted")' = Owing("ack_deleted")
        /\ Owing("push_stored") \in Nat /\ Owing("ack_deleted") \in Nat /\ PushesAreCounted'
    BY <1>2, <1>5, ThreadsStay
  <2>2. metrics["push_stored"] + Owing("push_stored") =
          HeldCount + metrics["ack_deleted"] + Owing("ack_deleted")
            + metrics["gc_removed"] + GcOwes + lapsed
    BY BalanceForm DEF ServerInv
  <2>3. metrics'["push_stored"] + Owing("push_stored")' =
          HeldCount' + metrics'["ack_deleted"] + Owing("ack_deleted")'
            + metrics'["gc_removed"] + GcOwes' + lapsed'
    BY <1>2, <1>3, <1>4, <1>5, <1>9, <1>10, <2>1, <2>2, CountersAreNat
  <2> QED
    BY <2>1, <2>3, BalanceForm
<1> QED
  BY <1>6, <1>7, <1>8, <1>11 DEF Upkept

\* Nothing else touches the books.
LEMMA BooksRest ==
  ASSUME ServerInv, UNCHANGED <<calls, metrics, lapsed, queue>>, GcOwes' = GcOwes
  PROVE  CountersBalance' /\ PushesAreCounted'
<1>1. /\ PushesAreCounted'
      /\ Owing("push_stored")' = Owing("push_stored") /\ Owing("ack_deleted")' = Owing("ack_deleted")
  BY ThreadsStay
<1>2. HeldCount' = HeldCount
  BY DEF HeldCount
<1> QED
  BY <1>1, <1>2, BalanceForm DEF ServerInv

LEMMA OthersKeep ==
  ASSUME ServerInv, Inv', Time \/ GcTick \/ Snapshot \/ Answer \/ UNCHANGED serverVars
  PROVE  Upkept'
<1>1. ServerTyped /\ ReadingsArePast /\ SnapshotIsBehind /\ now \in Nat
  BY DEF ServerInv, Inv, TypeOK
<1>2. UNCHANGED <<calls, metrics, lapsed, queue>> /\ now' \in {now, now + 1}
  BY <1>1 DEF Time, Tick, GcTick, Snapshot, Answer, serverVars, vars, store
<1>3. GcOwes' = GcOwes
  BY DEF Time, GcTick, Snapshot, Answer, serverVars, GcOwes, Idle
<1>4. ServerTyped'
  <2>1. gc' \in GcStates
    BY <1>1 DEF ServerTyped, GcStates, Time, GcTick, Snapshot, Answer, serverVars
  <2>2. stats' \in StatsStates
    <3>1. CASE Snapshot
      <4>1. Zeros \in [Counters -> Nat]
        BY DEF Zeros
      <4> QED
        BY <3>1, <4>1 DEF Snapshot, StatsStates
    <3> QED
      BY <1>1, <3>1 DEF ServerTyped, StatsStates, Time, GcTick, Answer, serverVars
  <2> QED
    BY <1>1, <1>2, <2>1, <2>2 DEF ServerTyped
<1>5. ReadingsArePast'
  <2>1. ASSUME NEW c \in Threads, calls[c].pc = "store"
        PROVE  calls[c].t <= now'
    BY <1>1, <1>2, <2>1, WaitingCall
  <2>2. gc'.pc = "store" => gc'.t <= now'
    <3>1. CASE GcTick
      BY <1>1, <3>1 DEF GcTick, vars
    <3>2. CASE gc' = gc
      <4>1. gc.pc = "store" => gc.t \in Nat /\ gc.t <= now
        BY <1>1 DEF ServerTyped, GcStates, Idle, ReadingsArePast
      <4> QED
        BY <1>1, <1>2, <3>2, <4>1
    <3> QED
      BY <3>1, <3>2 DEF Time, Snapshot, Answer, serverVars
  <2> QED
    BY <1>2, <2>1, <2>2 DEF ReadingsArePast
<1>6. SnapshotIsBehind'
  <2>1. CASE Snapshot
    BY <1>1, <1>2, <2>1 DEF Snapshot, SnapshotIsBehind, Zeros, ServerTyped
  <2>2. CASE Answer
    BY <2>2 DEF Answer, SnapshotIsBehind, Idle
  <2>3. CASE Time \/ GcTick \/ UNCHANGED serverVars
    BY <1>1, <2>3 DEF Time, GcTick, serverVars, SnapshotIsBehind
  <2> QED
    BY <2>1, <2>2, <2>3
<1> QED
  BY <1>2, <1>3, <1>4, <1>5, <1>6, BooksRest DEF Upkept

\* A load takes the counters as they are.
LEMMA LoadKeeps ==
  ASSUME ServerInv, Inv', NEW g \in Groups, Load(g)
  PROVE  Upkept'
<1>1. /\ ServerTyped /\ ReadingsArePast /\ SnapshotIsBehind /\ stats.pc = "load"
      /\ UNCHANGED <<calls, gc, metrics, lapsed, now, queue>>
  BY DEF ServerInv, Load, vars, store
<1>2. stats \in [pc : {"load", "answer"}, todo : SUBSET Groups, got : [Counters -> Nat]]
  BY <1>1 DEF ServerTyped, StatsStates, Idle
<1>3. stats'.got = [n \in Counters |-> IF n \in g THEN metrics[n] ELSE stats.got[n]]
  BY DEF Load
<1>4. ServerTyped'
  <2>1. \A n \in Counters : metrics[n] \in Nat /\ stats.got[n] \in Nat
    BY <1>1, <1>2 DEF ServerTyped
  <2>2. stats' \in StatsStates
    BY <1>2, <2>1 DEF Load, StatsStates
  <2> QED
    BY <1>1, <2>2 DEF ServerTyped
<1>5. SnapshotIsBehind'
  <2>1. \A n \in Counters : metrics[n] \in Nat
    BY <1>1 DEF ServerTyped
  <2> QED
    BY <1>1, <1>3, <2>1 DEF SnapshotIsBehind
<1>6. ReadingsArePast' /\ GcOwes' = GcOwes
  BY <1>1 DEF ReadingsArePast, GcOwes
<1> QED
  BY <1>1, <1>4, <1>5, <1>6, BooksRest DEF Upkept

-----------------------------------------------------------------------------
(***************************************************************************)
(* The theorems.                                                           *)
(***************************************************************************)

LEMMA InitServerInv == ServerInit => ServerInv
<1> SUFFICES ASSUME ServerInit
             PROVE  ServerInv
  OBVIOUS
<1>1. Inv /\ UnknownIsEmpty
  BY InitInv DEF ServerInit, Init, UnknownIsEmpty
<1>2. ServerTyped
  BY DEF ServerInit, ServerTyped, CallStates, GcStates, StatsStates, Zeros
<1>3. ReadingsArePast /\ SnapshotIsBehind
  BY DEF ServerInit, ReadingsArePast, SnapshotIsBehind, Idle
<1>4. PushesAreCounted
  <2>1. {c \in Threads : InPush(calls[c])} = {}
    BY DEF ServerInit, InPush, Idle
  <2> QED
    BY <2>1, FS_EmptySet DEF ServerInit, PushesAreCounted, Zeros, Counters
<1>5. CountersBalance
  <2>1. \A n : Owing(n) = 0
    <3>1. \A u \in Threads \X (1..Cardinality(Keys)) : calls[u[1]].pc # "count"
      BY DEF ServerInit, Idle
    <3> QED
      BY <3>1, FS_EmptySet DEF Owing
  <2>2. HeldCount = 0
    <3>1. Promise!Held(queue) = {}
      BY DEF ServerInit, Init, Promise!Held
    <3> QED
      BY <3>1, FS_EmptySet DEF HeldCount
  <2>3. /\ metrics["push_stored"] = 0 /\ metrics["ack_deleted"] = 0
        /\ metrics["gc_removed"] = 0 /\ lapsed = 0 /\ GcOwes = 0
    BY DEF ServerInit, Zeros, Counters, GcOwes, Idle
  <2> QED
    BY <2>1, <2>2, <2>3, BalanceForm
<1> QED
  BY <1>1, <1>2, <1>3, <1>4, <1>5 DEF ServerInv

LEMMA NextServerInv == ServerInv /\ [ServerNext]_serverVars => ServerInv'
<1> SUFFICES ASSUME ServerInv, [ServerNext]_serverVars
             PROVE  ServerInv'
  OBVIOUS
<1>1. Inv' /\ UnknownIsEmpty'
  BY StoreStaysSound
<1>2. ASSUME NEW c \in Threads, Handler(c)
      PROVE  Upkept'
  BY <1>1, <1>2, LimitKeeps, AdmitKeeps, StoreKeeps, CountKeeps, AbandonKeeps DEF Handler
<1>3. ASSUME GcPurge PROVE Upkept'
  BY <1>1, <1>3, GcPurgeKeeps
<1>4. ASSUME GcCount PROVE Upkept'
  BY <1>1, <1>4, GcCountKeeps
<1>5. ASSUME NEW g \in Groups, Load(g)
      PROVE  Upkept'
  BY <1>1, <1>5, LoadKeeps
<1>6. ASSUME Time \/ GcTick \/ Snapshot \/ Answer \/ UNCHANGED serverVars
      PROVE  Upkept'
  BY <1>1, <1>6, OthersKeep
<1>7. Upkept'
  BY <1>2, <1>3, <1>4, <1>5, <1>6 DEF ServerNext
<1> QED
  BY <1>1, <1>7 DEF ServerInv, Upkept

\* The books, the bounds and the types hold in every state of the server: the
\* inductive invariant from which the results below follow.
THEOREM ServerSpecInv == ServerSpec => []ServerInv
BY InitServerInv, NextServerInv, PTL DEF ServerSpec

\* The handlers and the collector use the store as its specification says it is
\* used: payloads are measured, pull sizes are clamped (server.rs:439,
\* server.rs:298), and no reading of the clock is ahead of it.  What is proved of
\* MemStore and of Mailbox therefore holds of the store inside the server.
THEOREM ServerUsesStore == ServerSpec => Spec
<1>1. ServerInit => Init
  BY DEF ServerInit
<1>2. ServerInv /\ [ServerNext]_serverVars => [Next]_vars
  BY UsesStoreStep
<1> QED
  BY <1>1, <1>2, ServerSpecInv, PTL DEF ServerSpec, Spec

\* Every variable has its type, and what the handlers let through keeps the types
\* the store relies on.
THEOREM ServerTypeHolds == ServerSpec => []ServerTypeOK
<1>1. ServerInv => ServerTypeOK
  <2>1. ASSUME ServerInv, NEW c \in Threads
        PROVE  \/ calls[c] = Idle
               \/ calls[c].pc = "store" /\ calls[c].q \in Requests /\ calls[c].t \in Nat
               \/ calls[c] \in [pc : {"count"}, n : Counters, amount : Nat]
    <3>1. calls[c] \in CallStates
      BY <2>1 DEF ServerInv, ServerTyped
    <3>2. CASE calls[c] \in [pc : {"store"}, q : Passed, t : Nat]
      BY <3>2 DEF Passed
    <3>3. CASE calls[c] \in Outcomes
      BY <3>3, KeysCounted DEF Outcomes, Counters
    <3> QED
      BY <3>1, <3>2, <3>3 DEF CallStates
  <2> QED
    BY <2>1 DEF ServerInv, ServerTyped, ServerTypeOK, GcStates, StatsStates, Inv, TypeOK
<1> QED
  BY <1>1, ServerSpecInv, PTL

\* The counters keep the books of the store, for any number of threads and in
\* any interleaving: nothing is counted twice or forgotten.
THEOREM CountersBalanceHolds == ServerSpec => []CountersBalance
<1>1. ServerInv => CountersBalance
  BY DEF ServerInv
<1> QED
  BY <1>1, ServerSpecInv, PTL

\* A complete snapshot never tells of more outcomes of pushes than there are
\* pushes, in whatever order its loads happen.
THEOREM SnapshotBoundedHolds == ServerSpec => []SnapshotBounded
<1>1. ServerInv => SnapshotBounded
  <2> SUFFICES ASSUME ServerInv, stats.pc = "answer"
               PROVE  stats.got["push_stored"] + stats.got["duplicates"] <= metrics["push_total"]
    BY DEF SnapshotBounded
  <2>1. stats \in [pc : {"load", "answer"}, todo : SUBSET Groups, got : [Counters -> Nat]]
    BY DEF ServerInv, ServerTyped, StatsStates, Idle
  <2>2. /\ stats.got["push_stored"] \in Nat /\ stats.got["duplicates"] \in Nat
        /\ stats.got["push_stored"] <= metrics["push_stored"]
        /\ stats.got["duplicates"] <= metrics["duplicates"]
    BY <2>1 DEF ServerInv, SnapshotIsBehind, Counters
  <2>3. metrics["push_stored"] + metrics["duplicates"] + Pushes <= metrics["push_total"]
    BY DEF ServerInv, PushesAreCounted, Pushes
  <2>4. ServerTyped
    BY DEF ServerInv
  <2> QED
    BY <2>2, <2>3, <2>4, CountersAreNat, PushesType
<1> QED
  BY <1>1, ServerSpecInv, PTL
=============================================================================
