------------------------------ MODULE MemStore ------------------------------
(***************************************************************************)
(* The in-memory backend (src/src/store_mem.rs).  Every operation holds    *)
(* one tokio Mutex from its first line to its last, so each is one step.   *)
(*                                                                         *)
(* What is not under the mutex is the clock: the handlers (server.rs:305,  *)
(* server.rs:444) and the collector (ttl.rs:25) read it before they wait   *)
(* for the lock.  An operation therefore takes a reading t that may be any *)
(* earlier time, and messages may enter a queue out of deadline order.     *)
(***************************************************************************)
EXTENDS RelayStore

VARIABLES
  known,        \* the recipients that have a RecipientState
  queue,        \* queue[r]: the BTreeMap from arrival_seq to message
  idx,          \* idx[r][k]: the arrival_seq the dedup index holds for k, or None
  seq,          \* seq[r]: the next arrival_seq
  quotaCount,   \* quotaCount[r], quotaBytes[r]: the cached totals of queue[r]
  quotaBytes,
  now,          \* the clock
  reply         \* what the last operation returned; a pull or purge, at what reading

store == <<known, queue, idx, seq, quotaCount, quotaBytes>>
vars == <<store, now, reply>>

Init ==
  /\ known = {}
  /\ queue = [r \in Recipients |-> {}]
  /\ idx = [r \in Recipients |-> [k \in Keys |-> None]]
  /\ seq = [r \in Recipients |-> 0]
  /\ quotaCount = [r \in Recipients |-> 0]
  /\ quotaBytes = [r \in Recipients |-> 0]
  /\ now = 0
  /\ reply = [op |-> "none"]

Tick ==
  /\ now < MaxTime
  /\ now' = now + 1
  /\ UNCHANGED <<store, reply>>

-----------------------------------------------------------------------------
(***************************************************************************)
(* push: a duplicate, a refusal, or a stored message.                      *)
(***************************************************************************)

PushReply(r, isNew) ==
  [op |-> "push", stored |-> isNew, duplicate |-> ~isNew,
   len |-> quotaCount'[r], bytes |-> quotaBytes'[r]]

PushDuplicate(r, k) ==
  /\ idx[r][k] # None
  /\ UNCHANGED <<queue, idx, seq, quotaCount, quotaBytes>>
  /\ reply' = PushReply(r, FALSE)

\* A mistake to check against: the totals are compared before the message counts.
FitsQuotaTooLate(r, b) ==
  /\ quotaCount[r] <= MaxMessages
  /\ quotaBytes[r] <= MaxQueueBytes

FitsQuota(r, b) ==
  /\ quotaCount[r] + 1 <= MaxMessages
  /\ quotaBytes[r] + b <= MaxQueueBytes

PushRefused(r, k, b) ==
  /\ idx[r][k] = None
  /\ ~FitsQuota(r, b)
  /\ reply' = [op |-> "quota_exceeded"]
  /\ UNCHANGED <<queue, idx, seq, quotaCount, quotaBytes>>

\* The bounds of the model: seq[r] stays within MaxSeq, and every deadline is
\* reached before the clock stops.
PushStored(r, k, b, t) ==
  /\ idx[r][k] = None
  /\ FitsQuota(r, b)
  /\ seq[r] < MaxSeq /\ t + TTL <= MaxTime
  /\ queue' = [queue EXCEPT ![r] = {m \in @ : m.seq # seq[r]} \cup {NewMessage(k, b, t, seq[r])}]
  /\ idx' = [idx EXCEPT ![r][k] = seq[r]]
  /\ seq' = [seq EXCEPT ![r] = @ + 1]
  /\ quotaCount' = [quotaCount EXCEPT ![r] = @ + 1]
  /\ quotaBytes' = [quotaBytes EXCEPT ![r] = @ + b]
  /\ reply' = PushReply(r, TRUE)

Push(r, k, b, t) ==
  /\ known' = known \cup {r}
  /\ PushDuplicate(r, k) \/ PushRefused(r, k, b) \/ PushStored(r, k, b, t)
  /\ UNCHANGED now

-----------------------------------------------------------------------------
(***************************************************************************)
(* pull: a page of unexpired messages.  It also drops the expired messages *)
(* it walks over on the way.                                               *)
(***************************************************************************)

\* The expired messages the walk meets before the unexpired message that makes
\* the page overflow.
Lapsed(S, cursor, limit, t) ==
  {m \in Beyond(S, cursor) :
     Expired(m, t) /\ Cardinality(Before(Live(S, cursor, t), m)) <= limit}

\* A mistake to check against: the expired messages leave their index entries.
DropNothing(f, S) == f

\* Taking messages out of a queue drops their index entries and adjusts the
\* totals of their recipient.
DropIndex(f, S) == [k \in Keys |-> IF \E m \in S : m.key = k THEN None ELSE f[k]]

PullUnknown(r, t) ==
  /\ r \notin known
  /\ reply' = [op |-> "pull", items |-> {}, next |-> None, remaining |-> 0, at |-> t]
  /\ UNCHANGED store

PullForeign(r, cursor) ==
  /\ r \in known
  /\ Foreign(r, cursor)
  /\ reply' = [op |-> "invalid_cursor"]
  /\ UNCHANGED store

\* A mistake to check against: the clean-up adjusts the count and not the bytes.
PullPageKeepsBytes(r, cursor, limit, t) ==
  LET lapsed == Lapsed(queue[r], cursor, limit, t) IN
  /\ r \in known /\ ~Foreign(r, cursor)
  /\ queue' = [queue EXCEPT ![r] = @ \ lapsed]
  /\ idx' = [idx EXCEPT ![r] = DropIndex(@, lapsed)]
  /\ quotaCount' = [quotaCount EXCEPT ![r] = SatSub(@, Cardinality(lapsed))]
  /\ UNCHANGED <<known, seq, quotaBytes, reply>>

PullPage(r, cursor, limit, t) ==
  LET page == Page(queue[r], cursor, limit, t)
      lapsed == Lapsed(queue[r], cursor, limit, t)
  IN
  /\ r \in known
  /\ ~Foreign(r, cursor)
  /\ queue' = [queue EXCEPT ![r] = @ \ lapsed]
  /\ idx' = [idx EXCEPT ![r] = DropIndex(@, lapsed)]
  /\ quotaCount' = [quotaCount EXCEPT ![r] = SatSub(@, Cardinality(lapsed))]
  /\ quotaBytes' = [quotaBytes EXCEPT ![r] = SatSub(@, Bytes(lapsed))]
  /\ reply' = [op |-> "pull", items |-> page,
               next |-> IF More(queue[r], cursor, limit, t) THEN LastSeq(page) ELSE None,
               remaining |-> SatSub(quotaCount'[r], Cardinality(page)), at |-> t]
  /\ UNCHANGED <<known, seq>>

Pull(r, cursor, limit, t) ==
  /\ PullUnknown(r, t) \/ PullForeign(r, cursor) \/ PullPage(r, cursor, limit, t)
  /\ UNCHANGED now

-----------------------------------------------------------------------------
(***************************************************************************)
(* ack: K are the distinct entries of the request, len its length.         *)
(***************************************************************************)

AckUnknown(r, len) ==
  /\ r \notin known
  /\ reply' = [op |-> "ack", deleted |-> 0, missing |-> len, remaining |-> 0]
  /\ UNCHANGED store

\* A mistake to check against: every entry of the request is deducted, found or not.
AckDeductsEntries(r, K) ==
  LET hit == {k \in K : idx[r][k] # None}
      gone == {m \in queue[r] : m.key \in hit}
  IN
  /\ r \in known
  /\ idx' = [idx EXCEPT ![r] = [k \in Keys |-> IF k \in hit THEN None ELSE @[k]]]
  /\ queue' = [queue EXCEPT ![r] = @ \ gone]
  /\ quotaCount' = [quotaCount EXCEPT ![r] = @ - Cardinality(K)]
  /\ quotaBytes' = [quotaBytes EXCEPT ![r] = SatSub(@, Bytes(gone))]
  /\ UNCHANGED <<known, seq, reply>>

AckKnown(r, K) ==
  LET hit == {k \in K : idx[r][k] # None}
      gone == {m \in queue[r] : \E k \in hit : idx[r][k] = m.seq}
  IN
  /\ r \in known
  /\ idx' = [idx EXCEPT ![r] = [k \in Keys |-> IF k \in hit THEN None ELSE @[k]]]
  /\ queue' = [queue EXCEPT ![r] = @ \ gone]
  /\ quotaCount' = [quotaCount EXCEPT ![r] = SatSub(@, Cardinality(gone))]
  /\ quotaBytes' = [quotaBytes EXCEPT ![r] = SatSub(@, Bytes(gone))]
  /\ reply' = [op |-> "ack", deleted |-> Cardinality(gone),
               missing |-> Cardinality(K \ hit), remaining |-> quotaCount'[r]]
  /\ UNCHANGED <<known, seq>>

Ack(r, K, len) ==
  /\ AckUnknown(r, len) \/ AckKnown(r, K)
  /\ UNCHANGED now

-----------------------------------------------------------------------------
(***************************************************************************)
(* purge_expired: recipient after recipient in name order, it takes the    *)
(* leading expired messages of each queue, until GcBatch are removed.      *)
(***************************************************************************)

\* The leading expired messages of r's queue: the walk stops at the first
\* message that has not expired.
Leading(r, t) == {m \in queue[r] : \A n \in Before(queue[r], m) \cup {m} : Expired(n, t)}

Candidates(t) == UNION {{r} \X Leading(r, t) : r \in Recipients}

\* Candidate d is collected before candidate c.
Earlier(d, c) == d[1] < c[1] \/ (d[1] = c[1] /\ d[2].seq < c[2].seq)

\* A mistake to check against: the batch is full one message too early.
CollectedShort(t) ==
  LET waiting == Candidates(t)
  IN  {c \in waiting : Cardinality({d \in waiting : Earlier(d, c)}) + 1 < GcBatch}

Collected(t) ==
  LET waiting == Candidates(t)
  IN  {c \in waiting : Cardinality({d \in waiting : Earlier(d, c)}) < GcBatch}

Purge(t) ==
  LET collected == Collected(t)
      gone == [r \in Recipients |-> {m \in queue[r] : <<r, m>> \in collected}]
  IN
  /\ queue' = [r \in Recipients |-> queue[r] \ gone[r]]
  /\ idx' = [r \in Recipients |-> DropIndex(idx[r], gone[r])]
  /\ quotaCount' = [r \in Recipients |-> SatSub(quotaCount[r], Cardinality(gone[r]))]
  /\ quotaBytes' = [r \in Recipients |-> SatSub(quotaBytes[r], Bytes(gone[r]))]
  /\ reply' = [op |-> "purge", removed |-> Cardinality(collected), at |-> t]
  /\ UNCHANGED <<known, seq, now>>

-----------------------------------------------------------------------------

Next ==
  \/ Tick
  \/ \E r \in Recipients, k \in Keys, b \in 0..MaxMessageBytes, t \in 0..now : Push(r, k, b, t)
  \/ \E r \in Recipients, c \in Cursors, l \in 1..PullBatchMax, t \in 0..now : Pull(r, c, l, t)
  \/ \E r \in Recipients, K \in SUBSET Keys, x \in 0..MaxRepeats : Ack(r, K, Cardinality(K) + x)
  \/ \E t \in 0..now : Purge(t)

Spec == Init /\ [][Next]_vars

\* Time passes, and the collector runs again and again with a fresh reading of
\* the clock: its ticker never stops while the relay is up (ttl.rs:22-40), and a
\* tokio Mutex is granted in the order of the waiters.
FairSpec == Spec /\ WF_vars(Tick) /\ WF_vars(Purge(now))

-----------------------------------------------------------------------------
(***************************************************************************)
(* Properties.                                                             *)
(***************************************************************************)

Replies ==
  [op : {"none", "quota_exceeded", "invalid_cursor"}]
    \cup [op : {"push"}, stored : BOOLEAN, duplicate : BOOLEAN, len : Nat, bytes : Nat]
    \cup [op : {"pull"}, items : SUBSET Message, next : Nat \cup {None}, remaining : Nat, at : Nat]
    \cup [op : {"ack"}, deleted : Nat, missing : Nat, remaining : Nat]
    \cup [op : {"purge"}, removed : Nat, at : Nat]

StoreTypeOK ==
  /\ known \in SUBSET Recipients
  /\ queue \in [Recipients -> SUBSET Message]
  /\ idx \in [Recipients -> [Keys -> Nat \cup {None}]]
  /\ seq \in [Recipients -> Nat]
  /\ quotaCount \in [Recipients -> Nat]
  /\ quotaBytes \in [Recipients -> Nat]

\* Every variable has its type.
TypeOK ==
  /\ StoreTypeOK
  /\ now \in Nat
  /\ reply \in Replies

\* The dedup index and the queue describe the same messages: push, ack, the
\* clean-up inside pull and the collector each update both, and every entry of
\* one has its counterpart in the other.  A stale entry would turn a fresh
\* message into a "duplicate" (store_mem.rs:44); a missing one would let a
\* retry be queued twice and make the message impossible to acknowledge.
IndexMatchesQueue ==
  \A r \in Recipients :
    /\ \A m \in queue[r] : idx[r][m.key] = m.seq
    /\ \A k \in Keys : idx[r][k] # None => \E m \in queue[r] : m.key = k /\ m.seq = idx[r][k]

\* The cached totals are what the queue really holds, whichever of the four
\* paths took messages out of it.  A drift would refuse pushes to a queue with
\* room left, or let a queue outgrow its quota (store_mem.rs:52-59).
QuotaMatchesQueue ==
  \A r \in Recipients :
    /\ quotaCount[r] = Cardinality(queue[r])
    /\ quotaBytes[r] = Bytes(queue[r])

\* No queue outgrows the limits of its recipient, counted on the messages and
\* not on the cached totals.
QueueWithinLimits ==
  \A r \in Recipients :
    /\ Cardinality(queue[r]) <= MaxMessages
    /\ Bytes(queue[r]) <= MaxQueueBytes

\* MemStore implements Mailbox: what every call returns, and every change of a
\* queue, is what the messages alone dictate; the index, the totals and the set
\* of known recipients are caches that no caller can tell from the real thing.
Promise == INSTANCE Mailbox WITH box <- queue, next <- seq
ImplementsMailbox == Promise!Spec

\* No message stays forever: whatever is queued is acknowledged or collected,
\* although the collector stops at the first message that has not expired
\* (store_mem.rs:213) and removes at most GcBatch messages per run.  MaxSeq makes
\* the pushes end at some point: while they outrun the batches of the collector,
\* the queues of the last recipients in name order may have to wait.
NothingStaysForever ==
  \A r \in Recipients, s \in 0..MaxSeq :
    (\E m \in queue[r] : m.seq = s) ~> (\A m \in queue[r] : m.seq # s)
=============================================================================
