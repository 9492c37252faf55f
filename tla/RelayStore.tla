----------------------------- MODULE RelayStore -----------------------------
(***************************************************************************)
(* The vocabulary that both storage backends of the relay share: the       *)
(* RelayStore trait and its data types (src/src/store.rs), the limits of   *)
(* RelayLimits (src/src/config.rs), and the helpers the backends are built *)
(* from.                                                                   *)
(*                                                                         *)
(* Data is abstracted to what the backends look at.  A recipient is a      *)
(* number, ordered as the recipient names are; a key stands for the pair   *)
(* (message_id, chunk_index); a payload is its length in bytes.            *)
(***************************************************************************)
EXTENDS Naturals, FiniteSets

CONSTANTS
  Recipients,        \* the recipients that clients name, in name order
  Keys,              \* the pairs (message_id, chunk_index)
  None,              \* Option::None
  MaxMessageBytes,   \* limits.max_message_bytes
  MaxMessages,       \* limits.max_messages_per_user
  MaxQueueBytes,     \* limits.max_queue_bytes_per_user
  PullBatchMax,      \* limits.pull_batch_max
  TTL,               \* limits.message_ttl_seconds, in clock ticks
  GcBatch,           \* the most messages one purge removes
  MaxRepeats,        \* bound: repeated entries in one ack request
  MaxSeq,            \* bound: pushes stored for one recipient
  MaxTime            \* bound: the clock stops here and no message outlives it

ASSUME NoneAssumption == None \notin Nat

ASSUME RecipientsAssumption == Recipients \subseteq Nat /\ IsFiniteSet(Recipients)

ASSUME KeysAssumption == IsFiniteSet(Keys)

\* What RelayConfig::validate guarantees; it lets message_ttl_seconds be 0.
ASSUME LimitsAssumption ==
  /\ MaxMessageBytes \in Nat \ {0}
  /\ MaxMessages \in Nat \ {0}
  /\ MaxQueueBytes \in Nat \ {0}
  /\ PullBatchMax \in Nat \ {0}
  /\ TTL \in Nat
  /\ GcBatch \in Nat \ {0}

ASSUME BoundsAssumption == MaxRepeats \in Nat /\ MaxSeq \in Nat /\ MaxTime \in Nat

-----------------------------------------------------------------------------

\* A QueueMessage.  arrival_ms is deadline - TTL and carries nothing more.
Message == [key : Keys, bytes : 0..MaxMessageBytes, deadline : Nat, seq : Nat]

\* The message build_inbound_message makes of a request whose handler read the
\* clock as t, once the store has given it an arrival_seq.
NewMessage(k, b, t, s) == [key |-> k, bytes |-> b, deadline |-> t + TTL, seq |-> s]

\* A mistake to check against: a message is kept for the moment of its deadline.
ExpiredLate(m, t) == m.deadline < t

\* deadline_ms <= now_ms: the message is neither delivered nor kept.
Expired(m, t) == m.deadline <= t

\* The payload bytes of a set of messages, counted one by one: an element for
\* every byte of every message.
PayloadUnits(S) == {u \in S \X (1..MaxMessageBytes) : u[2] <= u[1].bytes}
Bytes(S) == Cardinality(PayloadUnits(S))

\* u64::saturating_sub
SatSub(a, b) == IF a > b THEN a - b ELSE 0

\* The messages of S that arrived before m.
Before(S, m) == {n \in S : n.seq < m.seq}

\* The messages a cursor has not passed yet.
Beyond(S, cursor) ==
  IF cursor = None THEN S ELSE {m \in S : m.seq > cursor.seq}

\* The first `limit` unexpired messages beyond the cursor, and whether some
\* unexpired message is left after them.
Live(S, cursor, t) == {m \in Beyond(S, cursor) : ~Expired(m, t)}
Page(S, cursor, limit, t) ==
  LET live == Live(S, cursor, t)
  IN  {m \in live : Cardinality(Before(live, m)) < limit}
More(S, cursor, limit, t) == Cardinality(Live(S, cursor, t)) > limit

\* The arrival_seq of the last message of a page, None for an empty page.
LastSeq(page) ==
  IF page = {} THEN None
  ELSE (CHOOSE m \in page : \A n \in page : n.seq <= m.seq).seq

\* A cursor a client may send: none, or one that some pull handed out.
Cursors == {None} \cup [to : Recipients, seq : 0..MaxSeq]

\* A cursor the store rejects: it does not decode, or it names another recipient.
Foreign(r, cursor) == cursor # None /\ cursor.to # r
=============================================================================
