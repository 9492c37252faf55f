# A verification development of enigma-relay

enigma-relay is an offline store-and-forward relay: clients `push` encrypted
messages for a recipient over HTTP, the recipient `pull`s them page by page and
`ack`nowledges them, and a collector removes what has expired. This directory
holds TLA+ models of its core, the TLC configurations that check them on small
instances, and proofs that TLAPS checks for every instance. Source references
are relative to the crate's `src/` (`store_sled.rs:262`) or to the repository's
root (`README.md:68`).

## 1. Inventory

| Part | Source | State | Operations | Interacts with |
| --- | --- | --- | --- | --- |
| Storage interface | `store.rs` | none | the trait `RelayStore`, its data types, the cursor text | implemented by both stores |
| In-memory store | `store_mem.rs` | per recipient: queue, dedup index, totals, next arrival number; one async mutex | `push`, `pull`, `ack`, `purge_expired` | called by the handlers and the collector |
| Sled store (default) | `store_sled.rs` | four sled trees: messages, index, quota, seq | the same four | the same; sled's log and background flush |
| Keys and cursors | `store_sled.rs:315-388`, `store.rs:80-102` | none | text forms of keys and of the pull cursor | both stores, clients |
| HTTP handlers | `server.rs:238-467` | none of their own | `/push`, `/pull`, `/ack`, `/health`, `/stats`; validation, limits, clock readings | rate limiter, store, metrics |
| Rate limiter | `server.rs:42-104`, `380-409` | a bucket and a ban for each address and endpoint | `allow`, twice for each request | handlers |
| Collector task | `ttl.rs` | a ticker | `purge_expired(now, 1024)` at each tick | store, metrics, shutdown signal |
| Start and shutdown | `server.rs:106-236` | the one-shot shutdown channel, three tasks | `start_with_store`, the joined task | server, collector |
| Metrics | `metrics.rs` | eight atomic counters | increments, `snapshot` | handlers, collector, `/stats` |
| Configuration | `config.rs` | none | `load`, `validate` | everything |
| Errors, wire model, TLS set-up | `error.rs`, `model.rs`, `server.rs:469-539` | none | conversions | handlers |

What is hard in this code, and where:

* **The sled store is concurrent and the collector in it is not transactional.**
  `push` and `ack` commit one transaction over all trees; `purge_expired` reads,
  removes and writes tree by tree, and everything else may happen in between.
* **Durability is a separate step.** A transaction is visible before it is on
  disk; the answer waits for the flushes, and a crash or a vanishing client may
  come in between. Other calls may already have seen the transaction.
* **Clock readings are stale.** The handlers and the collector read the clock,
  then wait for the store. Messages are therefore not in deadline order.
* **Four code paths take messages out of a queue** (ack, the clean-up inside
  `pull`, the collector, and in sled an ack of a dangling index entry); each has
  to keep the index and two totals in step.
* **Paging with an exclusive cursor** over a queue that changes.
* **Token buckets with bans**, two for each request, each charged separately.
* **Shutdown** while the collector is in the middle of a purge.

What makes each part correct: for a store, that the dedup index and the totals
describe the queue, that no queue outgrows its limits, that an answer given is
an answer kept, that a page has no gaps and that expired messages leave; for
the rate limiter, that no bucket grants more often than burst plus rate times
time, and that bans are served and end; for start and shutdown, that the joined task ends and no task is
left behind; for keys and cursors, that different things have different keys
and that decoding inverts encoding. `PROJECT.json` lists the hazards one by
one, each at its line, with the property that covers it.

## 2. Modules

| Module | What it is |
| --- | --- |
| `RelayStore` | the vocabulary of both stores: messages, pages, limits, constants and their assumptions |
| `Mailbox` | the abstract specification: what a store promises, stated over the messages alone |
| `MemStore` | the in-memory store; implements `Mailbox` |
| `SledStore` | the sled store: transactions, flushes, scans, collector, log and crashes |
| `Delivery` | clients that read a queue of `SledStore` page by page, lose answers and outlive a crash |
| `RateLimiter` | the token buckets and bans of the HTTP server |
| `Server` | the handlers and the collector at work on `MemStore`, the counters and `/stats` |
| `Lifecycle` | configuration check, start, the collector's loop, shutdown and the joined task |
| `Codec` | the texts of keys and cursors, byte by byte |
| `KeySpace` | the sled store over trees of such texts: what makes a prefix scan a queue |
| `MCMemStore`, `MCSledStore`, `MCDelivery`, `MCRateLimiter`, `MCServer`, `MCLifecycle`, `MCKeySpace` | symmetry, views and sets of inputs for TLC; sizes are in the `.cfg` files |
| `RelayStore_proofs` | lemmas about sets of messages, their number and their bytes |
| `MemStore_proofs` | the inductive invariant of `MemStore`, the theorems, and the refinement of `Mailbox` |
| `Lifecycle_proofs` | the inductive invariant of `Lifecycle` and the theorems |
| `RateLimiter_proofs` | the inductive invariant of `RateLimiter` and the theorems |
| `SledStore_proofs` | the inductive invariants of `SledStore`, one for each promise, and the theorems |
| `Delivery_proofs` | what the clients' readings add to them |
| `Server_proofs` | the inductive invariant of `Server`, on top of that of `MemStore` |
| `KeySpace_proofs` | lemmas about digits, texts and keys, and the theorems: keys never collide, and scans are exact |

**Abstractions.** A recipient is a number, in the order of the names; a key
stands for the pair (message_id, chunk_index); a payload is its length. The
ciphertext, the metadata and `arrival_ms` (which is the deadline less the TTL)
do not influence any store operation. Messages are in the order of arrival, as
`README.md:60`, `README.md:67` and the code have it; `docs/design.md:4-5` speaks of an
order by `created_at_ms`, a field that the code does not have. `Bytes(S)` counts the payload bytes of a
set of messages as the size of a set of pairs rather than by recursion, which
lets TLAPS reason about totals.

**`MemStore`.** `known`, `queue`, `idx`, `seq`, `quotaCount` and `quotaBytes`
are the fields of `HashMap<String, RecipientState>`. The mutex is held from the
first line of every operation to the last, so `Push`, `Pull`, `Ack` and `Purge`
are one step each; the branches of the code (`PushDuplicate`, `PushRefused`,
`PushStored`, `PullUnknown`, `PullForeign`, `PullPage`, `AckUnknown`,
`AckKnown`) are disjuncts. `reply` is what the call returned. Each operation
takes a clock reading `t` that may be any time up to `now`: it was taken before
the wait for the lock (`server.rs:305`, `server.rs:444`, `ttl.rs:25`).

**`SledStore`.** `messages`, `index`, `quota` and `seq` are the trees; `calls`
are pushes and acks that have committed and not yet answered; `pulls` are scans
in progress; `gc` is the program counter of `purge_expired` with its local
variables (`gc.at` and `gc.msg` the key and the value in hand, `gc.cache` the
HashMap of quotas). The iterators of both loops have a `leaf`, the entries they
have copied from the tree and not handed out yet, and an `edge`, the key up to
which their copies go. The steps are

* `Push`, `Ack`: the transaction. `Answer`: its flushes and the answer. `Drop`:
  a flush fails or the client goes away. A refused push aborts its transaction
  and changes nothing, so it is a stuttering step;
* `PullStart`; `PullRead` (the iterator copies the next leaf) and `PullNext` (it
  hands out one of its copies); `PullLoopEnds`, `PullAnswer`. A cursor that is refused changes nothing;
* `GcStart`; `GcRead` as in a pull; then for each copy `GcNext` (lines 251-260) and,
  if it has expired, `GcRemoveMessage`
  (261), `GcRemoveIndex` (262), `GcCount` (263-271); `GcLoopEnds`; `GcWriteQuota`
  for each recipient (273-277); `GcFlush` (278-281). `GcFails` is any `?` on the
  way;
* `Persist`: sled's background flush. `Crash`: the process dies and the trees
  are what `disk` holds.

sled is external and modelled by what the code relies on: a transaction over
several trees is atomic towards single operations and towards crashes, all
trees share one log that is written in order, `flush_async` of any tree writes
all of it, and an iterator copies a leaf of the tree at a time. A leaf ends
anywhere: `PullRead` and `GcRead` take any `edge`, the bound `Edges` being all the
numbers there are. An entry that is removed after its leaf was copied is handed
out all the same, and one that is added to that leaf is passed over, so that
the collector may have in hand what an ack has removed long before
(`store_sled.rs:251`). Leaves as short as one entry are the live tree, as long as
the whole tree a snapshot of it; the properties hold for these and all between.

With one log for all trees, `disk` is always a complete earlier state of all trees, and the three or four
flushes at the end of a call are one step (a crash between two of them is a
crash after `Persist`). `accepted`, `acked`, `deleted`, `quotaRaced` and
`indexRaced` are history: no guard reads them.

**`RateLimiter`.** `buckets` is the HashMap of `Bucket`s, `requests` the threads
that are in `enforce_rate`: the buckets a request has still to ask and, once
`ReadClock` has run, its reading of `Instant::now()`. `Allow` is one call of
`allow` from the lock on, with that reading, and its disjuncts are the ways out
of it: `RefuseBanned`, `Grant`, `Ban`. Any number of steps of other threads, and
of the clock, may come between the reading (line 77) and the lock (line 78).
Tokens are counted in parts, `Second` of them to a token, and time in ticks,
`Second` of them to a second, so that the f64 arithmetic of the code is exact
integer arithmetic here; rounding is abstracted from. `banEnd` and `watch` are
history: `watch` follows one bucket from any one call on, and since that may be
any bucket and any call, what holds of it holds of all. The limiter with
`enabled = false` has no state and is left out.

**`Delivery`** extends `SledStore` with clients. A client keeps the
`next_cursor` of its last page (`reader`), asks with it (`Ask`), and asks again
with the same cursor when the answer does not come (`PageLost`, and `Crash`,
which also ends the scan). `must` is history: what has been in the queue since
the client began. Nothing in the sled store waits for a lock, so calls start
with the clock reading of the moment; time goes on while a scan or a purge runs.

**`Server`** extends `MemStore`. A handler passes the rate limit (`Limit` or
`Admit`), is counted and validated, reads the clock and waits for the store
(`Waiting`), has the store to itself (`Store`), and adds its outcome to the
counters (`Count`). Each of these is a step, on several threads; the collector
does the same in `GcTick`, `GcPurge`, `GcCount`. `Abandon` is the drop of a
handler whose client went away: it can happen only while the handler waits, for
after the lock there is no other await in the in-memory store. `Snapshot`, `Load`
and `Answer` are `/stats`: relaxed loads, in any order. The calls of the store
are the actions of `MemStore`, whose replies say what is left to count. Which
requests the rate limiter refuses is left to `RateLimiter`.

**`Lifecycle`**. The calls of `start` follow one another on the same sled
directory, each with a configuration of its own: `Open`, then `Reject` or
`SpawnGc`, then `BuildFails` or `BuildServer`, in the order of the code, which
opens the database before it validates and spawns the collector before it has a
server. `gc` is the place of `run_gc` in its loop; `due` says that its ticker has
a tick ready; `select!` is the choice between `GcPurge` and `GcStop`. `joined` is
what the joining task awaits. `StoreHeld` stands for sled's lock on its
directory, which lasts as long as anybody in the process holds the database:
that is a call of `start` on its way, the collector, and the server.

**`Codec` and `KeySpace`**. A text is a sequence of bytes; numbers have `Width`
digits to `Base` instead of 20 digits to 10 (`BoundsAssumption` has every arrival
number fit, as every `u64` does); a tag is the text of message id and
chunk index, which has a fixed length. `KeySpace` is the sled store with nothing
but its keys: `Push` and `Ack` write the trees `messages` and `index` under the
keys of `Codec`, `Pull` is the scan over the prefix in the order of the keys with
the numbers read back out of them. `queue` is what the trees stand for.
`SledStore` takes for granted that each recipient has a queue of its own in the
order of arrival; `KeySpace` shows for which names that is so.

A request asks both buckets whatever the first one says (lines 387-400), so a
client that keeps retrying one endpoint during its ban uses up its global bucket
and is then banned from the other endpoints too. The documents say nothing
about it; the model does the same.

## 3. Runs

| Run | Configuration | Properties | Outcome |
| --- | --- | --- | --- |
| `mem_refines` | `MemStoreRefines.cfg` | `ImplementsMailbox` | holds |
| `mem_store` | `MemStoreLiveness.cfg` | `TypeOK`, `IndexMatchesQueue`, `QuotaMatchesQueue`, `QueueWithinLimits`, `NothingStaysForever` | hold |
| `sled_safety` | `SledStoreSafety.cfg` | `TypeOK`, `SeqFresh`, `AcceptedSurvives`, `AckedStaysGone`, `QuotaExactUnlessRaced`, `IndexExactUnlessRaced` | hold |
| `delivery` | `Delivery.cfg` | `PageHasNoGaps`, `ReadingIsComplete`, `NothingArrivesBehind` | hold |
| `sled_quota` | `SledStoreQuota.cfg` | `QuotaConsistentAtRest` | **violated** |
| `sled_idempotence` | `SledStoreIdempotence.cfg` | `NoKeyQueuedTwice` | **violated** |
| `sled_half_purge` | `SledStoreIndex.cfg` | `EntriesHaveMessages` | **violated** |
| `rate_limiter` | `RateLimiter.cfg` | `TypeOK`, `AdmissionBound`, `BanIsServed`, `BanEndsWithToken` | hold |
| `lifecycle` | `Lifecycle.cfg` | `TypeOK`, `NothingLeftBehind`, `CollectedWhileUp`, `LockedOnlyByLeftovers`, `WindsDown` | hold |
| `server` | `Server.cfg` | `ServerTypeOK`, `CountersBalance`, `SnapshotBounded` | hold |
| `keyspace` | `KeySpace.cfg` | `TreesHoldQueue`, `PullIsExact` | hold |
| `keyspace_names` | `KeySpaceNames.cfg` | `PullsOwnOnly` | **violated** |

* **`mem_refines`**: `MemStore` implements `Mailbox`. In `Mailbox` a push is a
  duplicate when the message *is in the box*, totals *are* what the box holds, a
  message disappears only when its key is acknowledged or its deadline has
  passed, and every reply is computed from that. What a pull owes (`Owed`, with the
  test of the deadline), that a page is the oldest of it (`OldestOf`) and that the
  cursor stands for the last message of the page (`EndsAt`) is said there in words
  of its own, not with the operators of the stores, so the refinement also checks
  the boundary of the deadline (`store_mem.rs:127`) and the arithmetic of pages.
  Replies of pull and purge carry the clock reading they were computed with.
  `Mailbox` leaves two things open on which no document decides: a push is a
  duplicate of an expired message that is still in the box, and a foreign cursor may
  be accepted when there are no messages. Two recipients and `GcBatch = 1` make the
  purge choose between queues; pages have up to two messages. `VIEW StoreView`
  leaves out `reply`, which no later step reads; TLC checks the refinement on every
  step, also on one into a state it has seen.
* **`mem_store`**: whatever the sequence of operations, the dedup index and the
  totals describe the queue, no queue outgrows its limits, and, with one message
  for each purge, every message leaves some day. One recipient, three keys and
  payloads of 0 and 1 byte in a queue of two messages and one byte, so that
  both limits refuse pushes; three arrivals, so that a queue drains and fills
  again; deadlines before, at and after the clock. The fairness is weak fairness
  of the clock and of the purge with a fresh clock reading: the ticker of
  `ttl.rs:22` never ends while the relay is up, and tokio's mutex serves its
  waiters in order. No fairness is assumed of any client. Pushes are bounded by
  `MaxSeq`: if the first recipients in name order expire more than 1024 messages
  for each interval for ever, later recipients wait for ever; the run has one
  recipient and does not show how recipients share a batch. A single purge may leave
  an expired message behind although its batch has room: it stops at the first
  message that has not expired (`store_mem.rs:213`), and deadlines, computed before
  the wait for the lock and from a clock that may be set back, are not in the order
  of the queue. A later purge takes it, which is what `NothingStaysForever` says. The
  four invariants are proved for every instance (section 4).
* **`sled_safety`**: a request at a time next to the collector, the log and one
  crash, interleaved at every step. A push that was confirmed (also as a
  duplicate) is in the trees and on disk unless deleted since; a confirmed
  deletion is final; arrival numbers are unique across the crash. The quota and
  the index are exact, counting what the collector is in the middle of, with the
  exceptions written down in `quotaRaced` and `indexRaced`, each where it happens:
  a push or an ack commits between the collector's read and write of a quota; the
  collector removes, and deducts, a copy whose message an ack has removed before;
  it removes the index entry of a later message with the same key; a purge is cut
  off half-way. The runs `sled_quota`, `sled_idempotence` and `sled_half_purge` show what they
  lead to. One caller is enough for the races: `Drop` ends a call right
  after its commit, so commits of several calls follow each other with no answer
  in between. Two arrivals suffice for an ack and a second push of a key
  between two steps of the collector.
* **`delivery`**: a client reads a queue to its end while requests, the
  collector, the log and one crash are interleaved with every step of its scans.
  A page has no gaps: a message that was there from the start of the scan to its
  end, unexpired and beyond the cursor, is on it or not yet passed by
  `next_cursor`. Over all its pages, lost answers and the crash, the client sees
  every message that was there all the time. And nothing arrives behind its
  cursor, *provided the push the cursor stands for was confirmed*. That condition
  is needed: a pull shows messages that are not on disk yet (`store_sled.rs:159`),
  a crash takes them and the counter back, and the numbers are given out again
  behind the cursor of a client that has seen them; without the condition TLC
  finds this. Such a client sees the new messages when it reads from the
  beginning, which is what `cursor: None` after the last page does. Two keys and
  two arrivals with one message to a page are two pages and a changing tree
  between them. All payloads are of one byte and the limits are never reached
  (quotas are the business of `sled_safety`), so `VIEW DeliveryView` leaves the
  quotas out, and with them what neither a step nor a property of this run reads:
  the other histories, the disk when there will be no more crashes, and, of what a
  client or its scan is owed, the messages that are gone or have expired.
* **`sled_quota`** (finding): without any failure a quota is wrong for good
  after a push lands between the collector's read (line 266) and write (line
  276). `README.md:68` promises consistent quotas. An ack of a message that the
  collector has a copy of and comes to later does the same: it is deducted twice.
* **`sled_idempotence`** (finding): without any failure a key is queued twice.
  The collector fetches a message; an ack deletes it; the same key is pushed
  again; the collector removes the index entry, which now belongs to the new
  message; the next push of the key is stored beside it. `README.md:10` and
  `README.md:59` promise idempotent pushes.
* **`sled_half_purge`** (finding): a purge that ends between lines 261 and 262, by an
  error of sled or a crash, leaves an index entry without a message. The collector,
  which walks the messages, never comes back to it, and pushes of that key are called
  duplicates until somebody acknowledges it. `docs/design.md:10` says that purging
  also clears the index.
* **`rate_limiter`**: two threads serve one address and one endpoint, with rates
  of two and one tokens a second, a burst of two and a ban of one second; two
  ticks to a second make half tokens, and five ticks let a bucket run empty, ban,
  outlast the ban and grant again. From any call on, a bucket grants no more than
  burst plus rate times time *plus rate times the time late readings have taken it
  back*. The last term is needed: a thread that read the clock early and got the
  lock late sets `last` back (line 95), and the next call is credited with the
  same time again. Without it TLC finds the bound broken; with readings in the
  order of the lock it is zero. A late reading is harmless to bans: it can
  neither lift nor shorten nor renew one, and after a ban of at least a second
  the bucket has a token. Two threads suffice for readings out of order, and
  buckets share nothing, so more addresses would add nothing.
* **`lifecycle`**: two calls of `start`, thirteen configurations, one request at
  a time. `NothingLeftBehind`: when `handle` resolves, no purge is cut off, no
  task and no request is left, and the result is an error exactly when the server
  failed, however long before. `CollectedWhileUp`: `validate` keeps the one value
  out at which the collector would panic unnoticed. `LockedOnlyByLeftovers`:
  awaiting `handle` is enough to open the same directory again; after a *failed*
  `start` there is nothing to wait for, and the next call may find the collector
  of the failed one still holding the store. `WindsDown`: once the signal is sent
  or its sender dropped, everything ends. Fairness: weak for what the runtime
  polls (a task that can go on), for a purge that has begun and for the graceful
  stop, which has a time limit; strong for `GcStop`, because `select!` picks at
  random among ready branches: with purges that take longer than the interval
  the other branch is ready each time, and the stop is enabled again and again,
  not continuously. No fairness of the owner, of requests or of failures.
  Deadlock is not checked, for all is over in the end.
* **`server`**: two threads and three requests, among them oversized and invalid
  ones, next to the collector and `/stats`. `CountersBalance`: what was counted
  as stored is in the queue or was counted as acknowledged or collected, or was
  dropped by a pull, which no counter tells (`store_mem.rs:139`); the amounts
  that threads have still to add are part of the balance, so that an ack counted
  before its push, or a client that goes away, does no lasting harm.
  `SnapshotBounded`: a snapshot may show a push as stored and not yet as received,
  but by the time it is complete there were as many requests as it has outcomes.
  One recipient and a queue of one message: recipients share no counter, and a
  quota that refuses is an outcome of its own. `VIEW ServerView` leaves out
  `reply`, which no later step and no property reads.
* **`keyspace`**: names that look like numbers, of which one is the beginning of
  another, and one with the separator in it; numbers of two digits, so that order
  and padding matter. `TreesHoldQueue` holds for *all* names: keys have a tail of fixed
  length, so they never collide, and an ack finds what the push stored.
  `PullIsExact` holds for the names whose prefix no other key has: no separator in
  it, and no other name that starts with it and a separator. Nothing is left to do
  once all pushes are used up, so deadlock is not checked.
* **`keyspace_names`** (finding): push takes a name with the separator in it. With a
  message for `b:1` in the store, a pull of `b` returns it, since `msg:b:` is the
  beginning of its key too (`store_sled.rs:159`); `docs/storage.md:11` says that a
  scan stops where the prefix no longer matches the user. Two more things are wrong
  with such names, which `Pull` of `KeySpace` has as well and no run states as
  properties: a cursor of `b:1` decodes to the recipient `b` and a number that does
  not parse, so the second page is refused (`store.rs:91`, in both stores), and a pull
  of `c:d` fails as soon as a message is stored for it, because `d` is read as its
  arrival number (`store_sled.rs:366`).

**Bounds.** `MaxSeq` bounds the pushes stored for one recipient and `MaxTime`
the clock; both are guards of `PushStored`, which also refuses to give a message a
deadline beyond `MaxTime`, so that every message can expire. `MaxRepeats` is the
number of repeated entries in one ack request, `Callers` and `Pullers` are the
requests in progress, `MaxCrashes` the crashes, `Threads` and `MaxRequests` the
handlers at work and their requests, `MaxStarts` the calls of `start`. Counters saturate in the code at
2^64, which no run comes near.

## 4. Proofs

`MemStore_proofs` proves, for every set of recipients and keys and all limits
that `RelayConfig::validate` accepts,

* `TypeCorrect`: `Spec => []TypeOK`;
* `IndexCorrect`: `Spec => []IndexMatchesQueue`;
* `QuotaCorrect`: `Spec => []QuotaMatchesQueue`;
* `LimitsCorrect`: `Spec => []QueueWithinLimits`.

The assumptions are the named ones of `RelayStore`: recipients are a finite set
of numbers, keys are a finite set, limits are positive (the TTL may be 0).

The inductive invariant `Inv` adds three facts to the properties: queues are
finite, arrival numbers are below the counter and used once (`SeqFresh`), and
the *cached* totals are within the limits. `SeqFresh` is what makes the index
inductive: without it an insertion could overwrite a queued message, and an ack,
which finds the message by its number, could remove another key's message.
`QueueWithinLimits` follows from the totals being exact and within the limits.
The argument has one lemma for all removals (`RemovalKeepsStore`): messages
leave with their index entries, and the totals are reduced by their number and
bytes; the clean-up in pull, ack and purge are shown to be instances of it, and
`PushStoredKeepsStore` is the only other step that touches a queue.
`RelayStore_proofs` supplies the arithmetic of `Cardinality` and `Bytes`.

`RateLimiter_proofs` proves, for any sets of addresses, endpoints and threads, any
positive rates and burst, and any number of ban seconds,

* `TypeCorrect`: `Spec => []TypeOK`;
* `AdmissionBounded`: `Spec => []AdmissionBound`;
* `BansServed`: `Spec => []BanIsServed`;
* `BansEndWithToken`: `Spec => []BanEndsWithToken`.

Its invariant adds two facts. `Account` balances the books of the watched bucket:
what it has granted and what it still holds never exceed its burst and its rate
times `Credited`, the time it has been credited with, which is `last` plus what
late readings took away; the bound follows because `last` is never ahead of the
clock. `BanFromLast` says that a ban starts when its bucket was last used, so that
the whole ban counts for the refill. One lemma (`RefillKeepsAccount`) covers
granted and banning calls alike.

`Lifecycle_proofs` proves, for any set of configurations, any number of calls of
`start` and any number of requests,

* `TypeCorrect`: `Spec => []TypeOK`;
* `HandleCorrect`: `Spec => []NothingLeftBehind`;
* `CollectorCorrect`: `Spec => []CollectedWhileUp`;
* `LockCorrect`: `Spec => LockedOnlyByLeftovers`.

The only assumption on configurations is that the interval is a number. The
invariant says of each call by itself what its tasks can be at each stage
(`Sound`), above all that a spawned collector has a valid configuration and ends
only after the signal, and that what the joining task has waited for does not
come back; and of the calls together that they follow one another (`InOrder`).
A step belongs to one call and leaves the others alone (`StepIsLocal`), so that
each step needs a proof for its own call only.

`MemStore_proofs` also proves

* `Implements`: `Spec => ImplementsMailbox`.

Each action is shown to be the action of `Mailbox` with the same reply, under the
mapping in which a box holds what the queue holds. The abstract pull, ack and purge
are stated over sets of messages alone, so the lemmas relate the index and the
totals, exact by `Inv`, to those sets. `PageIsOwed` does so for pages: the first
`limit` messages by the number of messages before them are the oldest ones, and all
or exactly `limit` of them (`FirstAreOldest`), and the last one of them is where the
cursor stands. `UnknownIsEmpty` is the one fact `Inv` lacks:
the code answers for a recipient it does not know as for an empty queue.

`SledStore_proofs` proves, for any numbers of callers, scans and crashes,

* `SledStoreTypeOK`: `Spec => []TypeOK`;
* `SeqFreshHolds`: `Spec => []SeqFresh`;
* `AcceptedSurvivesHolds` and `AckedStaysGoneHolds`;
* `QuotaExactHolds`: `Spec => []QuotaExactUnlessRaced`;
* `IndexExactHolds`: `Spec => []IndexExactUnlessRaced`;
* `PageHasNoGapsHolds`: `Spec => []PageHasNoGaps`.

A crash makes the disk the state, so whatever is to hold of the trees has to be
known of `disk` beforehand: each invariant has a half for the trees and a half for
the disk, and `Persist` turns the first into the second. The invariants are

* `Core`: types, finite queues, arrival numbers unique in the trees and on disk with
  `disk.seq` not ahead of `seq`, and for the collector `HeldMessage` and `HeldCopies`:
  no queued message is mistaken for the one in hand or for a copy of the iterator,
  that is, one with the same number is the same message. Whether it is still queued
  is left open, for an ack may have removed it. `ScansInHand` says the same of the
  copies of a pull. The others rest on `Core`.
* `Durable`: what was confirmed is below `disk.seq`, so that no later message takes
  its number; what the index and the calls in progress name was stored, or has been
  deleted since. Without the part about the index a duplicate could be confirmed for
  a message that a crash takes back.
* `QuotaInv` and `IndexInv`: the exactness of the trees and of the disk, each for the
  recipients no race is recorded for.
* `PageInv`: a scan that is under way has each message it must deliver on its page or
  in its leaf or ahead of it; a page that is done has it on it or beyond `next`. A message
  that arrives later has a number that no message of `must` has.

`NoQuotaAssumption` says that `None` is no quota. It keeps apart an entry of the
collector's `HashMap` from a missing one, as `Option` does in the code.

`Delivery_proofs` proves

* `DeliveryUsesStore`: `DeliverySpec => Spec`, so that the theorems about the store
  hold with the clients at work;
* `ReadingIsCompleteHolds`: `DeliverySpec => []ReadingIsComplete`;
* `NothingArrivesBehindHolds`: `DeliverySpec => []NothingArrivesBehind`.

`ReadersInv` carries the debt to a client from page to page: what it is owed has
expired or is ahead of its cursor, and a request on its way is bound to look at all
of that (`OwedIsAskedFor`), which is where `PageInv` takes over. `CursorsBounded`
says that every `next_cursor` is one a client can come back with. That nothing
arrives behind a confirmed cursor is `Durable`: the number in the cursor is below
`disk.seq`, so a crash cannot give out a smaller one.

`Server_proofs` proves, for any finite set of threads and any requests,

* `ServerUsesStore`: `ServerSpec => Spec`, so that the theorems about the in-memory
  store hold of the server;
* `ServerTypeHolds`: `ServerSpec => []ServerTypeOK`;
* `CountersBalanceHolds`: `ServerSpec => []CountersBalance`;
* `SnapshotBoundedHolds`: `ServerSpec => []SnapshotBounded`.

`ReadingsArePast` makes a call of a handler one that `MemStore` allows.
`PushesAreCounted` is why a snapshot is bounded: every push that is still inside has
been counted as received and has at most one outcome to come, and each load is behind
the counters (`SnapshotIsBehind`). What a store call does to the number of messages is
taken from the refinement of `Mailbox`, where a reply and the box say it directly. The
threads are a finite set (`RequestsAssumption`), because the balance adds up what they
have still to count.

`KeySpace_proofs` proves, for any names, any tags of one length, any `Base` and `Width`,

* `TreesCorrect`: `Spec => []TreesHoldQueue`;
* `PullsCorrect`: `Spec => []PullIsExact`.

Keys end in a tail of fixed length, so two equal keys have equal names and equal
tags (`MessageKeysDiffer`, `IndexKeysDiffer`), with separators in the names or
without. This does not use their numbers: `Inv` says that a tag is queued once for a
recipient, which the lookup in the index ensures.

`PullsCorrect` says of `Pull`, with all its parsing and sorting, that it returns the
first messages of the queue. The argument goes from the digits up:

* *Numbers.* `PadParses`: the digits of a number read back as the number.
  `PadOrder`: of two numbers the smaller one has the smaller text. Both go digit by
  digit, along the functions `Cut` (the quotients that the digits are taken from) and
  the one in `Number`. That such a function is what its recursion says is an
  induction. The library's induction theorems cannot be used, so `Upwards` takes it
  from `WFMin` instead: a set of numbers that is not empty has a least element.
* *Keys.* `KeySeparators` finds the first three separators of the key of a name that
  has none; hence `KeyParses` and `CursorDecodes`. `PrefixFinds`: a key is under the
  prefix of an unambiguous name only if it is a key of that name.
* *Scans.* `KeysOrdered`, from `PadOrder`: the keys of one name are in the order of
  the numbers, whatever the tags. So an entry has as many entries before it as its
  message has messages (`EntriesRanked`), which is how the scan and what is owed are
  both stated, and `ScanIsOwed` follows.

It needs one more fact about states, `Numbered`: the numbers of a recipient's
messages are different and below its counter. `OptionsAssumption` keeps `None` and
`Invalid` apart from numbers, texts and decoded cursors, as `Option` and `Result`
do; `BoundsAssumption` says that `Width` digits are enough for the numbers that are
given out, without which `PullIsExact` is false.

Every safety invariant and action property of a passing run is now a theorem. Only
model-checked is liveness (`NothingStaysForever`, `WindsDown`), which is out of the
prover's reach. The four properties of the sled store and of its keys that runs show
violated have no theorem, of course. The proofs take any `MaxTime`, `MaxCrashes`, `MaxRequests` and `MaxStarts`,
and any `MaxSeq` (in `KeySpace` any that `Width` digits can write): these bound the
instances of TLC and not the results.

## 5. Plan

1. *Done:* the stores, which carry the relay's promises.
2. *Done:* `RateLimiter`, with the proof of its admission bound.
3. *Done:* `Lifecycle`, `Delivery`, `Codec` with `KeySpace`, `Server`.
4. *Done:* proofs of all safety invariants, and of the refinement of `Mailbox`.
5. *Done:* the induction over digits, and with it the proof of `PullIsExact`.

## 6. Not modelled

* `error.rs`: a fixed table from error kinds to status codes and JSON bodies,
  without state; the modules keep the kinds apart that a caller can tell apart.
* `model.rs`, `lib.rs`: wire structs and re-exports. What of a request decides
  anything is in `Requests` of `Server`.
* `RelayConfig::load` and the defaults: TOML parsing and constants. The `cfg!`
  branches for features that are compiled out: the crate is taken with all its
  features.
* `build_rustls_config`: reads certificates once, at start; its failure is one of
  those of `BuildFails`.
* The numbers in the sled store's answers (`queue_len`, `queue_bytes`,
  `remaining`, `remaining_estimate`): copies of the quota, which is modelled.
* HTTP, compression, the runtime and sled: external, modelled where the code
  relies on them.
* Overflow: arrival numbers, totals and counters would have to reach 2^64; the
  deadline saturates (`server.rs:445-446`). `ban_seconds` and time are unbounded in
  the model, so a ban too long for `Instant` is not in it. A producer that outruns
  the collector for ever, and an unbounded number of addresses in the rate limiter,
  are out of reach of a finite instance.
