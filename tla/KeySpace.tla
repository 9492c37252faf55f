------------------------------ MODULE KeySpace ------------------------------
(***************************************************************************)
(* The sled store with its keys written out: the trees hold texts, and a   *)
(* scan finds the messages of a recipient by a prefix of their keys.  The  *)
(* module SledStore takes it that every recipient has a queue of its own,  *)
(* in the order of arrival; here is what makes it so, and for which names. *)
(*                                                                         *)
(* Time, quotas, crashes and concurrency are SledStore's business and left *)
(* out.  queue is what the trees stand for; no operation reads it.         *)
(***************************************************************************)
EXTENDS Codec, SequencesExt

CONSTANTS
  Names,     \* the recipients, as texts
  Tags,      \* the texts "{message_id}:{chunk_index}"
  MaxSeq,    \* bound: pushes stored for one recipient
  PullMax    \* limits.pull_batch_max

ASSUME TextsAssumption ==
  /\ \A r \in Names : r \in Seq(Nat) /\ r # <<>>
  /\ \A t, u \in Tags : t \in Seq(Nat) /\ Len(t) = Len(u)

\* An arrival number has Width digits at most, as a u64 has 20.
ASSUME BoundsAssumption ==
  /\ MaxSeq \in Nat \ {0} /\ \A s \in 0..(MaxSeq - 1) : Cut(s)[Width] = 0
  /\ PullMax \in Nat \ {0}

VARIABLES
  messages,  \* the tree of messages: key and value
  index,     \* the tree of the dedup index: key and arrival_seq
  seq,       \* seq[r]: the counter under seq:r
  queue      \* history: the messages stored and not deleted

vars == <<messages, index, seq, queue>>

Init ==
  /\ messages = {}
  /\ index = {}
  /\ seq = [r \in Names |-> 0]
  /\ queue = {}

With(tree, key, value) == {e \in tree : e.key # key} \cup {[key |-> key, value |-> value]}
Without(tree, key) == {e \in tree : e.key # key}
Has(tree, key) == \E e \in tree : e.key = key
Get(tree, key) == (CHOOSE e \in tree : e.key = key).value

Push(r, tag) ==
  LET m == [to |-> r, seq |-> seq[r], tag |-> tag] IN
  /\ seq[r] < MaxSeq
  /\ ~Has(index, IndexKey(r, tag))
  /\ messages' = With(messages, MessageKey(r, seq[r], tag), m)
  /\ index' = With(index, IndexKey(r, tag), seq[r])
  /\ seq' = [seq EXCEPT ![r] = @ + 1]
  /\ queue' = queue \cup {m}

Ack(r, tag) ==
  /\ Has(index, IndexKey(r, tag))
  /\ messages' = Without(messages, MessageKey(r, Get(index, IndexKey(r, tag)), tag))
  /\ index' = Without(index, IndexKey(r, tag))
  /\ queue' = {m \in queue : m.to # r \/ m.tag # tag}
  /\ UNCHANGED seq

Next == \E r \in Names, tag \in Tags : Push(r, tag) \/ Ack(r, tag)

Spec == Init /\ [][Next]_vars

-----------------------------------------------------------------------------
(***************************************************************************)
(* pull changes nothing; it is what it returns.                            *)
(***************************************************************************)

Failure(code) == [error |-> code, items |-> <<>>, next |-> None]

AtMost(limit, n) == IF n > limit THEN limit ELSE n

\* The scan from arrival number `start` on: it walks the entries under the
\* prefix in the order of their keys and stops at the first beyond the limit; it
\* fails at a key it cannot parse, unless it has stopped before.
Scan(r, start, limit) ==
  LET under == {e \in messages : StartsWith(e.key, MessagePrefix(r))}
      live == {e \in under : LET s == ParseSeq(e.key)
                             IN  s \notin {None, Invalid} /\ (start = None \/ s > start)}
      ahead(e) == Cardinality({f \in live : Less(f.key, e.key)})
      items == [i \in 1..AtMost(limit, Cardinality(live)) |->
                  (CHOOSE e \in live : ahead(e) = i - 1).value]
  IN
  IF \E e \in under : ParseSeq(e.key) = Invalid /\ ahead(e) <= limit THEN Failure("internal_error")
  ELSE [error |-> None, items |-> items,
        next |-> IF Cardinality(live) > limit THEN EncodeCursor(r, Last(items).seq) ELSE None]

Pull(r, cursor, limit) ==
  LET start == IF cursor = None THEN None ELSE DecodeCursor(cursor) IN
  IF start = None THEN Scan(r, None, limit)
  ELSE IF start = Invalid THEN Failure("invalid_input")
  ELSE IF start.to # r THEN Failure("invalid_input")
  ELSE Scan(r, start.seq, limit)

-----------------------------------------------------------------------------
(***************************************************************************)
(* Properties.                                                             *)
(***************************************************************************)

\* What a pull of r owes its caller: the first messages of r's own queue beyond
\* arrival number `start`, in the order of arrival.
Owed(r, start, limit) ==
  LET rest == {m \in queue : m.to = r /\ (start = None \/ m.seq > start)}
      before(m) == Cardinality({n \in rest : n.seq < m.seq})
      items == [i \in 1..AtMost(limit, Cardinality(rest)) |->
                  CHOOSE m \in rest : before(m) = i - 1]
  IN  [error |-> None, items |-> items,
       next |-> IF Cardinality(rest) > limit THEN EncodeCursor(r, Last(items).seq) ELSE None]

\* A name whose keys nobody else's can be taken for: it has no separator in it,
\* and no other recipient's name starts with it and a separator.
Unambiguous(r) ==
  /\ Separators(r) = {}
  /\ \A n \in Names : ~StartsWith(n, r \o <<Sep>>)

\* Messages and index entries never collide, with any names: no insertion
\* overwrites what belongs to another recipient or another message, and an ack
\* finds by its rebuilt keys exactly what the push stored (store_sled.rs:201-206).
TreesHoldQueue ==
  /\ {e.value : e \in messages} = queue
  /\ Cardinality(messages) = Cardinality(queue)
  /\ {<<e.key, e.value>> : e \in index} = {<<IndexKey(m.to, m.tag), m.seq>> : m \in queue}
  /\ Cardinality(index) = Cardinality(queue)

\* For an unambiguous name the texts are as good as a queue: the prefix finds
\* all of its messages and no others, the keys are in the order of arrival, and
\* a cursor that a pull of this name handed out resumes where that page ended.
PullIsExact ==
  \A r \in Names, limit \in 1..PullMax : Unambiguous(r) =>
    /\ Pull(r, None, limit) = Owed(r, None, limit)
    /\ \A s \in 0..(MaxSeq - 1) : Pull(r, EncodeCursor(r, s), limit) = Owed(r, s, limit)

\* docs/storage.md:11: a pull "stops when the prefix no longer matches the
\* requested user", so that a page holds messages of this user and of nobody else
\* (store_sled.rs:159).
PullsOwnOnly ==
  \A r \in Names, limit \in 1..PullMax :
    LET page == Pull(r, None, limit)
    IN  \A i \in DOMAIN page.items : page.items[i].to = r
=============================================================================
