------------------------------ MODULE SledStore ------------------------------
(***************************************************************************)
(* The durable backend (src/src/store_sled.rs), the default one.           *)
(*                                                                         *)
(* Requests run concurrently.  The changes of a push or an ack are one     *)
(* transaction over the trees, but the call answers only after it has      *)
(* flushed the database; purge_expired uses no transaction at all: each    *)
(* tree operation of it is a step of its own, and requests and crashes     *)
(* come in between.                                                        *)
(*                                                                         *)
(* sled itself is external.  As the code relies on it: a transaction over  *)
(* several trees is atomic, also with respect to crashes, and to single    *)
(* operations on the trees; all trees share one log, which is written in   *)
(* order, in the background at any time, and up to its end by flush_async  *)
(* of any tree.  An iterator copies a leaf of the tree, a stretch of        *)
(* entries as long as it happens to be, hands out the copies one by one,   *)
(* whatever has become of the entries since, and then copies the next leaf *)
(* that has an entry.                                                      *)
(***************************************************************************)
EXTENDS RelayStore

CONSTANTS
  Callers,       \* bound: the push and ack requests in progress at a time
  Pullers,       \* bound: the pull requests in progress at a time
  MaxCrashes     \* bound: crashes of the process

ASSUME CrashesAssumption == MaxCrashes \in Nat

\* The collector's cache holds None or a quota.
ASSUME NoQuotaAssumption == None \notin [count : Nat, bytes : Nat]

VARIABLES
  messages,      \* messages[r]: the messages under the prefix msg:r:
  index,         \* index[r][k]: the arrival_seq under idx:r:k, or None
  quota,         \* quota[r]: the QuotaValue under quota:r
  seq,           \* seq[r]: the counter under seq:r
  calls,         \* calls[c]: what a call has committed and not yet answered
  pulls,         \* pulls[p]: where a pull is, and its local variables
  gc,            \* where purge_expired is, and its local variables
  now,           \* the clock
  disk,          \* the trees as the log on disk would restore them
  crashes,       \* how often the process has crashed
  \* History, which no action reads to decide anything:
  accepted,      \* the <<r, arrival_seq>> of messages a push has confirmed
  acked,         \* those an ack has confirmed to have deleted
  deleted,       \* those deleted since they were stored
  quotaRaced,    \* recipients whose quota a race has made wrong
  indexRaced     \* recipients whose index a race has made wrong

trees == <<messages, index, quota, seq>>
history == <<accepted, acked, deleted, quotaRaced, indexRaced>>
vars == <<trees, calls, pulls, gc, now, disk, crashes, history>>

Idle == [op |-> "none", ids |-> {}]
GcIdle == [pc |-> "idle"]
PullIdle == [pc |-> "idle"]

Init ==
  /\ messages = [r \in Recipients |-> {}]
  /\ index = [r \in Recipients |-> [k \in Keys |-> None]]
  /\ quota = [r \in Recipients |-> [count |-> 0, bytes |-> 0]]
  /\ seq = [r \in Recipients |-> 0]
  /\ calls = [c \in Callers |-> Idle]
  /\ pulls = [p \in Pullers |-> PullIdle]
  /\ gc = GcIdle
  /\ now = 0
  /\ disk = [messages |-> messages, index |-> index, quota |-> quota, seq |-> seq,
             quotaRaced |-> {}, indexRaced |-> {}]
  /\ crashes = 0
  /\ accepted = {} /\ acked = {} /\ deleted = {}
  /\ quotaRaced = {} /\ indexRaced = {}

Tick ==
  /\ now < MaxTime
  /\ now' = now + 1
  /\ UNCHANGED <<trees, calls, pulls, gc, disk, crashes, history>>

\* A mistake to check against: the subtraction wraps around.
MinusUnchecked(q, S) == [count |-> q.count - Cardinality(S), bytes |-> q.bytes - Bytes(S)]

Minus(q, S) == [count |-> SatSub(q.count, Cardinality(S)), bytes |-> SatSub(q.bytes, Bytes(S))]

Ids(r, S) == {<<r, m.seq>> : m \in S}

-----------------------------------------------------------------------------
(***************************************************************************)
(* push and ack: the transaction.                                          *)
(***************************************************************************)

\* The collector has read r's quota and will write it back.
Cached(r) == gc.pc # "idle" /\ gc.cache[r] # None

PushDuplicate(c, r, k) ==
  /\ index[r][k] # None
  /\ calls' = [calls EXCEPT ![c] = [op |-> "push", ids |-> {<<r, index[r][k]>>}]]
  /\ UNCHANGED <<trees, history>>

FitsQuota(r, b) ==
  /\ quota[r].count + 1 <= MaxMessages
  /\ quota[r].bytes + b <= MaxQueueBytes

\* The bounds of the model: seq[r] stays within MaxSeq, and every deadline is
\* reached before the clock stops.
PushStored(c, r, k, b, t) ==
  LET m == NewMessage(k, b, t, seq[r]) IN
  /\ index[r][k] = None
  /\ FitsQuota(r, b)
  /\ seq[r] < MaxSeq /\ t + TTL <= MaxTime
  /\ messages' = [messages EXCEPT ![r] = @ \cup {m}]
  /\ index' = [index EXCEPT ![r][k] = seq[r]]
  /\ quota' = [quota EXCEPT ![r] = [count |-> @.count + 1, bytes |-> @.bytes + b]]
  /\ seq' = [seq EXCEPT ![r] = @ + 1]
  /\ calls' = [calls EXCEPT ![c] = [op |-> "push", ids |-> {<<r, seq[r]>>}]]
  /\ deleted' = deleted \ {<<r, seq[r]>>}
  /\ quotaRaced' = quotaRaced \cup (IF Cached(r) THEN {r} ELSE {})
  /\ UNCHANGED <<accepted, acked, indexRaced>>

\* A push over quota aborts its transaction and answers at once: nothing changes.
Push(c, r, k, b, t) ==
  /\ calls[c] = Idle
  /\ PushDuplicate(c, r, k) \/ PushStored(c, r, k, b, t)
  /\ UNCHANGED <<pulls, gc, now, disk, crashes>>

\* An index entry without its message is dropped and counted as missing.
Ack(c, r, K) ==
  LET hit == {k \in K : index[r][k] # None}
      gone == {m \in messages[r] : m.key \in hit /\ index[r][m.key] = m.seq}
  IN
  /\ calls[c] = Idle
  /\ messages' = [messages EXCEPT ![r] = @ \ gone]
  /\ index' = [index EXCEPT ![r] = [k \in Keys |-> IF k \in hit THEN None ELSE @[k]]]
  /\ quota' = [quota EXCEPT ![r] = Minus(@, gone)]
  /\ calls' = [calls EXCEPT ![c] = [op |-> "ack", ids |-> Ids(r, gone)]]
  /\ deleted' = deleted \cup Ids(r, gone)
  /\ quotaRaced' = quotaRaced \cup (IF Cached(r) /\ gone # {} THEN {r} ELSE {})
  /\ UNCHANGED <<seq, accepted, acked, indexRaced, pulls, gc, now, disk, crashes>>

-----------------------------------------------------------------------------
(***************************************************************************)
(* pull: a scan of the entries under msg:r:, from the first one on.  A     *)
(* cursor of another recipient is refused before anything is read.         *)
(***************************************************************************)

\* leaf is what the iterator has copied and not handed out yet, edge the last
\* arrival_seq that its copies go up to.  must is history: the messages the page
\* may have to contain.
PullStart(p, r, cursor, limit, t) ==
  /\ pulls[p] = PullIdle
  /\ ~Foreign(r, cursor)
  /\ pulls' = [pulls EXCEPT ![p] =
       [pc |-> "scan", to |-> r, limit |-> limit, t |-> t,
        start |-> IF cursor = None THEN None ELSE cursor.seq, edge |-> None, leaf |-> {},
        items |-> {}, next |-> None, must |-> Live(messages[r], cursor, t)]]
  /\ UNCHANGED <<trees, calls, gc, now, disk, crashes, history>>

Unread(p) ==
  {m \in messages[pulls[p].to] : pulls[p].edge = None \/ m.seq > pulls[p].edge}

\* The iterator copies the next leaf, which ends at arrival_seq `edge`.
PullRead(p, edge) ==
  LET leaf == {m \in Unread(p) : m.seq <= edge} IN
  /\ pulls[p].pc = "scan" /\ pulls[p].leaf = {}
  /\ leaf # {}
  /\ pulls' = [pulls EXCEPT ![p].leaf = leaf, ![p].edge = edge]
  /\ UNCHANGED <<trees, calls, gc, now, disk, crashes, history>>

\* The copy that the iterator hands out next.
FirstOf(S) == CHOOSE m \in S : Before(S, m) = {}

\* What the loop passes over: what the cursor has passed, and what has expired.
PassedOver(page, m) == (page.start # None /\ m.seq <= page.start) \/ Expired(m, page.t)

\* A mistake to check against: next_cursor is the first message left out.
PullNextSkips(p) ==
  LET page == pulls[p]
      m == FirstOf(page.leaf)
      rest == page.leaf \ {m}
  IN
  /\ page.pc = "scan" /\ page.leaf # {}
  /\ pulls' = [pulls EXCEPT ![p] =
       IF PassedOver(page, m) THEN [page EXCEPT !.leaf = rest]
       ELSE IF Cardinality(page.items) < page.limit
         THEN [page EXCEPT !.leaf = rest, !.items = @ \cup {m}]
         ELSE [page EXCEPT !.pc = "done", !.leaf = {}, !.next = m.seq]]
  /\ UNCHANGED <<trees, calls, gc, now, disk, crashes, history>>

\* A mistake to check against: the scan ends at the first expired message.
PullNextStopsEarly(p) ==
  LET page == pulls[p]
      m == FirstOf(page.leaf)
      rest == page.leaf \ {m}
  IN
  /\ page.pc = "scan" /\ page.leaf # {}
  /\ pulls' = [pulls EXCEPT ![p] =
       IF Expired(m, page.t) THEN [page EXCEPT !.pc = "done", !.leaf = {}]
       ELSE IF PassedOver(page, m) THEN [page EXCEPT !.leaf = rest]
       ELSE IF Cardinality(page.items) < page.limit
         THEN [page EXCEPT !.leaf = rest, !.items = @ \cup {m}]
         ELSE [page EXCEPT !.pc = "done", !.leaf = {}, !.next = LastSeq(page.items)]]
  /\ UNCHANGED <<trees, calls, gc, now, disk, crashes, history>>

\* One turn of the loop: a message goes onto the page or, when the page is full,
\* ends the scan.
PullNext(p) ==
  LET page == pulls[p]
      m == FirstOf(page.leaf)
      rest == page.leaf \ {m}
  IN
  /\ page.pc = "scan"
  /\ page.leaf # {}
  /\ pulls' = [pulls EXCEPT ![p] =
       IF PassedOver(page, m) THEN [page EXCEPT !.leaf = rest]
       ELSE IF Cardinality(page.items) < page.limit
         THEN [page EXCEPT !.leaf = rest, !.items = @ \cup {m}]
         ELSE [page EXCEPT !.pc = "done", !.leaf = {}, !.next = LastSeq(page.items)]]
  /\ UNCHANGED <<trees, calls, gc, now, disk, crashes, history>>

PullLoopEnds(p) ==
  /\ pulls[p].pc = "scan"
  /\ pulls[p].leaf = {} /\ Unread(p) = {}
  /\ pulls' = [pulls EXCEPT ![p].pc = "done"]
  /\ UNCHANGED <<trees, calls, gc, now, disk, crashes, history>>

PullAnswer(p) ==
  /\ pulls[p].pc = "done"
  /\ pulls' = [pulls EXCEPT ![p] = PullIdle]
  /\ UNCHANGED <<trees, calls, gc, now, disk, crashes, history>>

-----------------------------------------------------------------------------
(***************************************************************************)
(* Durability: the log, the flush at the end of a call, and a crash.       *)
(***************************************************************************)

\* The recipients whose quota or index a crash or a failure at this point
\* leaves behind half updated by the collector.
HalfCounted == {r \in Recipients : Cached(r) \/ (gc.pc \in {"unindex", "uncount"} /\ gc.at[1] = r)}
HalfIndexed == {r \in Recipients : gc.pc = "unindex" /\ gc.at[1] = r}

\* A mistake to check against: the counters are not made durable with the rest.
SnapshotWithoutSeq ==
  [messages |-> messages, index |-> index, quota |-> quota, seq |-> disk.seq,
   quotaRaced |-> quotaRaced \cup HalfCounted, indexRaced |-> indexRaced \cup HalfIndexed]

Snapshot ==
  [messages |-> messages, index |-> index, quota |-> quota, seq |-> seq,
   quotaRaced |-> quotaRaced \cup HalfCounted, indexRaced |-> indexRaced \cup HalfIndexed]

\* sled writes its log in the background.
Persist ==
  /\ disk' = Snapshot
  /\ UNCHANGED <<trees, calls, pulls, gc, now, crashes, history>>

\* A mistake to check against: the answer does not wait for the flushes.
AnswerUnflushed(c) ==
  /\ calls[c] # Idle
  /\ calls' = [calls EXCEPT ![c] = Idle]
  /\ accepted' = accepted \cup (IF calls[c].op = "push" THEN calls[c].ids ELSE {})
  /\ acked' = acked \cup (IF calls[c].op = "ack" THEN calls[c].ids ELSE {})
  /\ UNCHANGED <<trees, pulls, gc, now, disk, crashes, deleted, quotaRaced, indexRaced>>

\* The flushes of a committed call, and its answer.
Answer(c) ==
  /\ calls[c] # Idle
  /\ disk' = Snapshot
  /\ calls' = [calls EXCEPT ![c] = Idle]
  /\ accepted' = accepted \cup (IF calls[c].op = "push" THEN calls[c].ids ELSE {})
  /\ acked' = acked \cup (IF calls[c].op = "ack" THEN calls[c].ids ELSE {})
  /\ UNCHANGED <<trees, pulls, gc, now, crashes, deleted, quotaRaced, indexRaced>>

\* A flush fails, or the client goes away and its request is dropped: what the
\* call has committed stays, the client never hears of it.
Drop(c) ==
  /\ calls[c] # Idle
  /\ calls' = [calls EXCEPT ![c] = Idle]
  /\ UNCHANGED <<trees, pulls, gc, now, disk, crashes, history>>

\* The process dies and SledStore::new opens the database again.
Crash ==
  /\ crashes < MaxCrashes
  /\ crashes' = crashes + 1
  /\ messages' = disk.messages
  /\ index' = disk.index
  /\ quota' = disk.quota
  /\ seq' = disk.seq
  /\ calls' = [c \in Callers |-> Idle]
  /\ pulls' = [p \in Pullers |-> PullIdle]
  /\ gc' = GcIdle
  /\ deleted' = deleted \ UNION {Ids(r, disk.messages[r]) : r \in Recipients}
  /\ quotaRaced' = disk.quotaRaced
  /\ indexRaced' = disk.indexRaced
  /\ UNCHANGED <<now, disk, accepted, acked>>

-----------------------------------------------------------------------------
(***************************************************************************)
(* purge_expired.  gc.leaf and gc.edge are the iterator's, as in a pull;   *)
(* gc.at and gc.msg are the key and the value in hand; gc.cache is the     *)
(* HashMap of quotas read and decremented but not yet written.             *)
(***************************************************************************)

GcStart(t) ==
  /\ gc = GcIdle
  /\ gc' = [pc |-> "next", t |-> t, removed |-> 0, edge |-> None, leaf |-> {},
            at |-> None, msg |-> None, cache |-> [r \in Recipients |-> None]]
  /\ UNCHANGED <<trees, calls, pulls, now, disk, crashes, history>>

\* The order of message_key: by recipient, then by arrival_seq.
Precedes(a, b) == a[1] < b[1] \/ (a[1] = b[1] /\ a[2] < b[2])
Ahead == {e \in UNION {{r} \X messages[r] : r \in Recipients} :
            gc.edge = None \/ Precedes(gc.edge, <<e[1], e[2].seq>>)}

\* The iterator copies the next leaf, which ends at the key `edge`.
GcRead(edge) ==
  LET leaf == {e \in Ahead : ~Precedes(edge, <<e[1], e[2].seq>>)} IN
  /\ gc.pc = "next" /\ gc.removed < GcBatch
  /\ gc.leaf = {} /\ leaf # {}
  /\ gc' = [gc EXCEPT !.leaf = leaf, !.edge = edge]
  /\ UNCHANGED <<trees, calls, pulls, now, disk, crashes, history>>

First(E) == CHOOSE e \in E : \A f \in E : f = e \/ Precedes(<<e[1], e[2].seq>>, <<f[1], f[2].seq>>)

\* One turn of the loop up to the test of the deadline.
GcNext ==
  LET e == First(gc.leaf) IN
  /\ gc.pc = "next" /\ gc.removed < GcBatch
  /\ gc.leaf # {}
  /\ gc' = IF Expired(e[2], gc.t)
             THEN [gc EXCEPT !.pc = "fetched", !.leaf = @ \ {e},
                             !.at = <<e[1], e[2].seq>>, !.msg = e[2]]
             ELSE [gc EXCEPT !.leaf = @ \ {e}]
  /\ UNCHANGED <<trees, calls, pulls, now, disk, crashes, history>>

\* A message that an ack has removed since the iterator copied it is in hand all
\* the same: nothing is removed, and it will be deducted a second time.
GcRemoveMessage ==
  LET r == gc.at[1] IN
  /\ gc.pc = "fetched"
  /\ messages' = [messages EXCEPT ![r] = @ \ {gc.msg}]
  /\ gc' = [gc EXCEPT !.pc = "unindex"]
  /\ deleted' = deleted \cup {gc.at}
  /\ quotaRaced' = quotaRaced \cup (IF gc.msg \notin messages[r] THEN {r} ELSE {})
  /\ UNCHANGED <<index, quota, seq, calls, pulls, now, disk, crashes, accepted, acked, indexRaced>>

\* A mistake to check against: the index entry of a collected message stays.
GcKeepIndex ==
  /\ gc.pc = "unindex"
  /\ gc' = [gc EXCEPT !.pc = "uncount"]
  /\ UNCHANGED <<trees, calls, pulls, now, disk, crashes, history>>

\* index.remove does not look at the arrival_seq it removes.
GcRemoveIndex ==
  LET r == gc.at[1] IN
  /\ gc.pc = "unindex"
  /\ index' = [index EXCEPT ![r][gc.msg.key] = None]
  /\ gc' = [gc EXCEPT !.pc = "uncount"]
  /\ indexRaced' = indexRaced \cup
       (IF index[r][gc.msg.key] \notin {None, gc.msg.seq} THEN {r} ELSE {})
  /\ UNCHANGED <<messages, quota, seq, calls, pulls, now, disk, crashes, accepted, acked, deleted, quotaRaced>>

\* A mistake to check against: every message starts from the quota in the tree.
GcCountAfresh ==
  LET r == gc.at[1] IN
  /\ gc.pc = "uncount"
  /\ gc' = [gc EXCEPT !.pc = "next", !.removed = @ + 1, !.at = None, !.msg = None,
                        !.cache[r] = Minus(quota[r], {gc.msg})]
  /\ UNCHANGED <<trees, calls, pulls, now, disk, crashes, history>>

\* The quota is read the first time the recipient comes up.
GcCount ==
  LET r == gc.at[1]
      q == IF gc.cache[r] = None THEN quota[r] ELSE gc.cache[r]
  IN
  /\ gc.pc = "uncount"
  /\ gc' = [gc EXCEPT !.pc = "next", !.removed = @ + 1, !.at = None, !.msg = None,
                        !.cache[r] = Minus(q, {gc.msg})]
  /\ UNCHANGED <<trees, calls, pulls, now, disk, crashes, history>>

GcLoopEnds ==
  /\ gc.pc = "next"
  /\ gc.removed >= GcBatch \/ (gc.leaf = {} /\ Ahead = {})
  /\ gc' = [gc EXCEPT !.pc = "write", !.leaf = {}]
  /\ UNCHANGED <<trees, calls, pulls, now, disk, crashes, history>>

GcWriteQuota(r) ==
  /\ gc.pc = "write" /\ Cached(r)
  /\ quota' = [quota EXCEPT ![r] = gc.cache[r]]
  /\ gc' = [gc EXCEPT !.cache[r] = None]
  /\ UNCHANGED <<messages, index, seq, calls, pulls, now, disk, crashes, history>>

GcFlush ==
  /\ gc.pc = "write" /\ \A r \in Recipients : ~Cached(r)
  /\ disk' = Snapshot
  /\ gc' = GcIdle
  /\ UNCHANGED <<trees, calls, pulls, now, crashes, history>>

\* An error of sled ends the purge on the spot; run_gc ignores it.
GcFails ==
  /\ gc.pc # "idle"
  /\ gc' = GcIdle
  /\ quotaRaced' = quotaRaced \cup HalfCounted
  /\ indexRaced' = indexRaced \cup HalfIndexed
  /\ UNCHANGED <<trees, calls, pulls, now, disk, crashes, accepted, acked, deleted>>

-----------------------------------------------------------------------------

Request ==
  \E c \in Callers, r \in Recipients :
    \/ \E k \in Keys, b \in 0..MaxMessageBytes, t \in 0..now : Push(c, r, k, b, t)
    \/ \E K \in SUBSET Keys : Ack(c, r, K)

\* Where leaves may end: anywhere among the keys there can be.
Edges == 0..(MaxSeq - 1)

Puller ==
  \E p \in Pullers :
    \/ \E r \in Recipients, c \in Cursors, l \in 1..PullBatchMax, t \in 0..now :
         PullStart(p, r, c, l, t)
    \/ \E edge \in Edges : PullRead(p, edge)
    \/ PullNext(p) \/ PullLoopEnds(p) \/ PullAnswer(p)

GcStep ==
  \/ \E edge \in Recipients \X Edges : GcRead(edge)
  \/ GcNext \/ GcRemoveMessage \/ GcRemoveIndex \/ GcCount \/ GcLoopEnds
  \/ \E r \in Recipients : GcWriteQuota(r)
  \/ GcFlush

Collector == (\E t \in 0..now : GcStart(t)) \/ GcStep

Next ==
  \/ Tick
  \/ Request
  \/ \E c \in Callers : Answer(c) \/ Drop(c)
  \/ Puller
  \/ Collector
  \/ GcFails
  \/ Persist
  \/ Crash

Spec == Init /\ [][Next]_vars

\* Runs in which sled reports no error and the process does not die.
SteadyNext ==
  \/ Tick
  \/ Request
  \/ \E c \in Callers : Answer(c) \/ Drop(c)
  \/ Puller
  \/ Collector
  \/ Persist

SteadySpec == Init /\ [][SteadyNext]_vars

-----------------------------------------------------------------------------
(***************************************************************************)
(* Properties.                                                             *)
(***************************************************************************)

Quotas == [count : Nat, bytes : Nat]
Arrivals == Recipients \X Nat

Purges ==
  [pc : {"idle"}]
    \cup [pc : {"next", "fetched", "unindex", "uncount", "write"}, t : Nat, removed : Nat,
          edge : Arrivals \cup {None}, leaf : SUBSET (Recipients \X Message),
          at : Arrivals \cup {None}, msg : Message \cup {None},
          cache : [Recipients -> Quotas \cup {None}]]

Pages ==
  [pc : {"idle"}]
    \cup [pc : {"scan", "done"}, to : Recipients, limit : Nat, t : Nat,
          start : Nat \cup {None}, edge : Nat \cup {None}, leaf : SUBSET Message,
          items : SUBSET Message, next : Nat \cup {None},
          must : SUBSET Message]

\* Every variable has its type.
TypeOK ==
  /\ messages \in [Recipients -> SUBSET Message]
  /\ index \in [Recipients -> [Keys -> Nat \cup {None}]]
  /\ quota \in [Recipients -> Quotas]
  /\ seq \in [Recipients -> Nat]
  /\ calls \in [Callers -> [op : {"none", "push", "ack"}, ids : SUBSET Arrivals]]
  /\ pulls \in [Pullers -> Pages]
  /\ gc \in Purges
  /\ now \in Nat
  /\ disk \in [messages : [Recipients -> SUBSET Message],
               index : [Recipients -> [Keys -> Nat \cup {None}]],
               quota : [Recipients -> Quotas], seq : [Recipients -> Nat],
               quotaRaced : SUBSET Recipients, indexRaced : SUBSET Recipients]
  /\ crashes \in Nat
  /\ accepted \in SUBSET Arrivals
  /\ acked \in SUBSET Arrivals
  /\ deleted \in SUBSET Arrivals
  /\ quotaRaced \in SUBSET Recipients
  /\ indexRaced \in SUBSET Recipients

\* No two messages of a recipient share an arrival_seq, and none is at or above
\* the counter, whatever part of the log a crash lost: the pull cursor and the
\* message keys rely on it.
SeqFresh ==
  \A r \in Recipients :
    /\ \A m \in messages[r] : m.seq < seq[r]
    /\ \A m, n \in messages[r] : m.seq = n.seq => m = n

\* A push is answered only when its message is on disk: what any client was told
\* is stored (or was stored before, for a duplicate) is still there after a
\* crash, unless an ack or the collector deleted it (store_sled.rs:124-130).
AcceptedSurvives ==
  \A a \in accepted \ deleted :
    /\ \E m \in messages[a[1]] : m.seq = a[2]
    /\ \E m \in disk.messages[a[1]] : m.seq = a[2]

\* An acknowledged message never comes back, not even after a crash right after
\* the answer: the deletion was on disk first (store_sled.rs:235-240).
AckedStaysGone ==
  \A a \in acked :
    /\ \A m \in messages[a[1]] : m.seq # a[2]
    /\ \A m \in disk.messages[a[1]] : m.seq # a[2]

\* The quota of a recipient, counting what the collector has decremented in its
\* cache and not yet written, is what its messages add up to, counting the one
\* the collector has removed and not yet decremented.  The exceptions are a push
\* or an ack between the read of the quota at store_sled.rs:266 and its write at
\* store_sled.rs:276, a message that an ack has removed and deducted before the
\* collector removes it at store_sled.rs:261, having it from its iterator, and a
\* purge cut off before that write.
QuotaExactUnlessRaced ==
  \A r \in Recipients \ quotaRaced :
    LET counted == IF Cached(r) THEN gc.cache[r] ELSE quota[r]
        owing == IF gc.pc \in {"unindex", "uncount"} /\ gc.at[1] = r THEN {gc.msg} ELSE {}
    IN  /\ counted.count = Cardinality(messages[r] \cup owing)
        /\ counted.bytes = Bytes(messages[r] \cup owing)

\* Each message has its entry in the dedup index, and each entry its message, but
\* for the one the collector is in the middle of removing.  The exceptions are
\* an ack and a second push of the same key between the read of a message and
\* the removal of its index entry at store_sled.rs:262, and a purge cut off
\* between store_sled.rs:261 and store_sled.rs:262.
IndexExactUnlessRaced ==
  \A r \in Recipients \ indexRaced :
    LET leaving == IF gc.pc = "unindex" /\ gc.at[1] = r THEN {gc.msg} ELSE {} IN
    /\ \A m \in messages[r] : index[r][m.key] = m.seq
    /\ \A k \in Keys : index[r][k] # None =>
         \E m \in messages[r] \cup leaving : m.key = k /\ m.seq = index[r][k]

\* A page has no gaps although the scan reads a tree that requests and the
\* collector change under it: a message that was there all the time, unexpired
\* and beyond the cursor, is on the page, or the page is full and its next_cursor
\* has not passed it.  And a next_cursor is never handed out with an empty page.
PageHasNoGaps ==
  \A p \in Pullers : pulls[p].pc = "done" =>
    LET page == pulls[p] IN
    /\ \A m \in page.must \cap messages[page.to] :
         m \in page.items \/ (page.next # None /\ m.seq > page.next)
    /\ page.next # None => Cardinality(page.items) = page.limit

\* README.md:68: "Push/ack updates are atomic and keep quotas consistent. GC runs
\* on gc_interval_seconds and removes expired items while updating quotas."  While
\* no purge is running, the quota of a recipient is what its messages add up to.
QuotaConsistentAtRest ==
  gc = GcIdle =>
    \A r \in Recipients :
      quota[r] = [count |-> Cardinality(messages[r]), bytes |-> Bytes(messages[r])]

\* README.md:59 and README.md:10: pushes are idempotent.  A message is not queued
\* twice, and a client does not get it twice in one pull.
NoKeyQueuedTwice ==
  \A r \in Recipients : \A m, n \in messages[r] : m.key = n.key => m = n

\* docs/design.md:10: purging "removes expired envelopes and also clears the id
\* index used for ack lookups".  While no purge is running, every entry of the
\* index has its message: a push is called a duplicate (store_sled.rs:59) only
\* of a message that is queued.
EntriesHaveMessages ==
  gc = GcIdle =>
    \A r \in Recipients, k \in Keys :
      index[r][k] # None => \E m \in messages[r] : m.key = k /\ m.seq = index[r][k]
=============================================================================
