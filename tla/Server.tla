------------------------------- MODULE Server -------------------------------
(***************************************************************************)
(* The HTTP handlers (server.rs:238-467) and the collector (ttl.rs:22-36)  *)
(* at work on the in-memory store, and the counters they keep              *)
(* (metrics.rs).                                                           *)
(*                                                                         *)
(* A handler checks the rate limit, counts the request, validates it and   *)
(* reads the clock; waits for the store; and counts the outcome.  Handlers *)
(* run on several threads, and every counter is an atomic of its own, so   *)
(* /stats sees them in between.  Which requests the rate limiter refuses   *)
(* is the business of RateLimiter; here it may refuse any.                 *)
(***************************************************************************)
EXTENDS MemStore

CONSTANTS
  Threads,       \* bound: requests in progress at a time
  MaxRequests    \* bound: requests in all

ASSUME RequestsAssumption == IsFiniteSet(Threads) /\ MaxRequests \in Nat

VARIABLES
  calls,      \* calls[c]: the request thread c works on
  gc,         \* the collector's turn of its loop
  metrics,    \* RelayMetrics
  stats,      \* the snapshot that /stats is taking
  lapsed      \* history: how many messages pulls have dropped as expired

serverVars == <<vars, calls, gc, metrics, stats, lapsed>>

Counters == {"push_total", "push_stored", "duplicates", "pull_total",
             "ack_total", "ack_deleted", "rate_limited", "gc_removed"}

Idle == [pc |-> "idle"]
Zeros == [n \in Counters |-> 0]

ServerInit ==
  /\ Init
  /\ calls = [c \in Threads |-> Idle]
  /\ gc = Idle
  /\ metrics = Zeros
  /\ stats = Idle
  /\ lapsed = 0

Add(n, amount) == metrics' = [metrics EXCEPT ![n] = @ + amount]

-----------------------------------------------------------------------------
(***************************************************************************)
(* A request up to its call of the store.  well says whether its fields    *)
(* are in order: a recipient, a kind, a chunk_index below chunk_count,     *)
(* Base64.                                                                 *)
(***************************************************************************)

Requests ==
  [op : {"push"}, well : BOOLEAN, to : Recipients, key : Keys, bytes : 0..(MaxMessageBytes + 1)]
    \cup [op : {"pull"}, well : BOOLEAN, to : Recipients, cursor : Cursors,
          max : {None} \cup 0..(PullBatchMax + 1)]
    \cup [op : {"ack"}, well : BOOLEAN, to : Recipients, keys : SUBSET Keys]

\* A mistake to check against: the payload is not measured.
AcceptsAnySize(q) == q.well /\ (q.op = "pull" => q.max # 0)

Accepts(q) ==
  /\ q.well
  /\ q.op = "push" => q.bytes <= MaxMessageBytes
  /\ q.op = "pull" => q.max # 0

\* max.unwrap_or(pull_batch_max).min(pull_batch_max)
Clamped(max) == IF max = None \/ max > PullBatchMax THEN PullBatchMax ELSE max

\* A request that was let through, as its handler passes it to the store.
Prepared(q) == IF q.op = "pull" THEN [q EXCEPT !.max = Clamped(@)] ELSE q
Waiting(q) == IF Accepts(q) THEN [pc |-> "store", q |-> Prepared(q), t |-> now] ELSE Idle

Total(op) == CASE op = "push" -> "push_total" [] op = "pull" -> "pull_total" [] op = "ack" -> "ack_total"

Served == metrics["push_total"] + metrics["pull_total"] + metrics["ack_total"] + metrics["rate_limited"]

Limit(c) ==
  /\ calls[c] = Idle /\ Served < MaxRequests
  /\ Add("rate_limited", 1)
  /\ UNCHANGED <<vars, calls, gc, stats, lapsed>>

\* A mistake to check against: a push is counted with its outcome.
AdmitUncounted(c, q) ==
  /\ calls[c] = Idle /\ Served < MaxRequests
  /\ calls' = [calls EXCEPT ![c] = Waiting(q)]
  /\ UNCHANGED <<vars, gc, metrics, stats, lapsed>>

Admit(c, q) ==
  /\ calls[c] = Idle /\ Served < MaxRequests
  /\ Add(Total(q.op), 1)
  /\ calls' = [calls EXCEPT ![c] = Waiting(q)]
  /\ UNCHANGED <<vars, gc, stats, lapsed>>

-----------------------------------------------------------------------------
(***************************************************************************)
(* The call of the store, which is one step from the moment the lock is    *)
(* granted, and the counting of its outcome, which is another.             *)
(***************************************************************************)

\* What is left to count after a call has returned r: nothing after a pull or an
\* error.
Outcome(r) ==
  CASE r.op = "push" -> [pc |-> "count", n |-> IF r.stored THEN "push_stored" ELSE "duplicates", amount |-> 1]
    [] r.op = "ack" -> [pc |-> "count", n |-> "ack_deleted", amount |-> r.deleted]
    [] OTHER -> Idle

Store(c) ==
  LET q == calls[c].q IN
  /\ calls[c].pc = "store"
  /\ CASE q.op = "push" -> Push(q.to, q.key, q.bytes, calls[c].t)
       [] q.op = "pull" -> Pull(q.to, q.cursor, q.max, calls[c].t)
       [] q.op = "ack" -> Ack(q.to, q.keys, Cardinality(q.keys))
  /\ calls' = [calls EXCEPT ![c] = Outcome(reply')]
  /\ lapsed' = lapsed + (IF q.op = "pull" THEN Cardinality(queue[q.to] \ queue'[q.to]) ELSE 0)
  /\ UNCHANGED <<gc, metrics, stats>>

\* A mistake to check against: a duplicate counts as stored, too.
CountStored(c) ==
  /\ calls[c].pc = "count"
  /\ metrics' = [metrics EXCEPT ![calls[c].n] = @ + calls[c].amount,
                                ![IF calls[c].n = "duplicates" THEN "push_stored" ELSE "duplicates"] = @ + 1]
  /\ calls' = [calls EXCEPT ![c] = Idle]
  /\ UNCHANGED <<vars, gc, stats, lapsed>>

Count(c) ==
  /\ calls[c].pc = "count"
  /\ Add(calls[c].n, calls[c].amount)
  /\ calls' = [calls EXCEPT ![c] = Idle]
  /\ UNCHANGED <<vars, gc, stats, lapsed>>

\* The client goes away while its request waits for the lock; once the lock is
\* granted, the handler goes on to its end without another wait.
Abandon(c) ==
  /\ calls[c].pc = "store"
  /\ calls' = [calls EXCEPT ![c] = Idle]
  /\ UNCHANGED <<vars, gc, metrics, stats, lapsed>>

-----------------------------------------------------------------------------
(***************************************************************************)
(* run_gc, with its reading of the clock.                                  *)
(***************************************************************************)

GcTick ==
  /\ gc = Idle
  /\ gc' = [pc |-> "store", t |-> now]
  /\ UNCHANGED <<vars, calls, metrics, stats, lapsed>>

GcPurge ==
  /\ gc.pc = "store"
  /\ Purge(gc.t)
  /\ gc' = [pc |-> "count", removed |-> reply'.removed]
  /\ UNCHANGED <<calls, metrics, stats, lapsed>>

GcCount ==
  /\ gc.pc = "count"
  /\ Add("gc_removed", gc.removed)
  /\ gc' = Idle
  /\ UNCHANGED <<vars, calls, stats, lapsed>>

-----------------------------------------------------------------------------
(***************************************************************************)
(* /stats: relaxed loads, which may happen in any order.  The counters     *)
(* that no property relates to others are loaded together.                 *)
(***************************************************************************)

Groups ==
  {{"push_total"}, {"push_stored"}, {"duplicates"},
   Counters \ {"push_total", "push_stored", "duplicates"}}

Snapshot ==
  /\ stats = Idle
  /\ stats' = [pc |-> "load", todo |-> Groups, got |-> Zeros]
  /\ UNCHANGED <<vars, calls, gc, metrics, lapsed>>

Load(g) ==
  /\ stats.pc = "load" /\ g \in stats.todo
  /\ stats' = [pc |-> IF stats.todo = {g} THEN "answer" ELSE "load",
               todo |-> stats.todo \ {g},
               got |-> [n \in Counters |-> IF n \in g THEN metrics[n] ELSE stats.got[n]]]
  /\ UNCHANGED <<vars, calls, gc, metrics, lapsed>>

Answer ==
  /\ stats.pc = "answer"
  /\ stats' = Idle
  /\ UNCHANGED <<vars, calls, gc, metrics, lapsed>>

-----------------------------------------------------------------------------

Time == Tick /\ UNCHANGED <<calls, gc, metrics, stats, lapsed>>

Handler(c) == Limit(c) \/ (\E q \in Requests : Admit(c, q)) \/ Store(c) \/ Count(c) \/ Abandon(c)

ServerNext ==
  \/ Time
  \/ \E c \in Threads : Handler(c)
  \/ GcTick \/ GcPurge \/ GcCount
  \/ Snapshot \/ (\E g \in Groups : Load(g)) \/ Answer

ServerSpec == ServerInit /\ [][ServerNext]_serverVars

-----------------------------------------------------------------------------
(***************************************************************************)
(* Properties.                                                             *)
(***************************************************************************)

\* Every variable has its type; what the handlers let through keeps the types
\* the store relies on, above all payloads within max_message_bytes.
ServerTypeOK ==
  /\ StoreTypeOK /\ now \in Nat
  /\ \A c \in Threads :
       \/ calls[c] = Idle
       \/ calls[c].pc = "store" /\ calls[c].q \in Requests /\ calls[c].t \in Nat
       \/ calls[c] \in [pc : {"count"}, n : Counters, amount : Nat]
  /\ gc = Idle \/ gc \in [pc : {"store"}, t : Nat] \/ gc \in [pc : {"count"}, removed : Nat]
  /\ metrics \in [Counters -> Nat]
  /\ stats = Idle \/ stats \in [pc : {"load", "answer"}, todo : SUBSET Groups, got : [Counters -> Nat]]
  /\ lapsed \in Nat

\* How much of counter n threads have still to add.
Owing(n) ==
  Cardinality({u \in Threads \X (1..Cardinality(Keys)) :
    calls[u[1]].pc = "count" /\ calls[u[1]].n = n /\ u[2] <= calls[u[1]].amount})

\* The counters keep the books of the store: what was stored is queued, or was
\* acknowledged, collected, or dropped by a pull, counting what each thread has
\* done to the store and not yet counted.  Nothing is counted twice or forgotten,
\* whoever goes away and however the threads interleave (server.rs:250-265,
\* server.rs:347-351, ttl.rs:27-34).  What a pull drops (store_mem.rs:139) is in
\* no counter, so that push_stored - ack_deleted - gc_removed may stay above the
\* number of queued messages.
CountersBalance ==
  metrics["push_stored"] + Owing("push_stored") =
    Cardinality(UNION {{r} \X queue[r] : r \in Recipients})
      + metrics["ack_deleted"] + Owing("ack_deleted")
      + metrics["gc_removed"] + (IF gc.pc = "count" THEN gc.removed ELSE 0)
      + lapsed

\* A snapshot may contradict itself, for its loads are spread over time: it may
\* show a push as stored and not yet as received.  But it never tells of more
\* outcomes than there are requests when it is complete, in whatever order the
\* loads happen: a request is counted before its outcome is (server.rs:244,
\* metrics.rs:30-41).
SnapshotBounded ==
  stats.pc = "answer" =>
    stats.got["push_stored"] + stats.got["duplicates"] <= metrics["push_total"]
=============================================================================
