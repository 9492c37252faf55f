--------------------------- MODULE Delivery_proofs ---------------------------
(***************************************************************************)
(* Proofs about clients that read a queue of the sled store page by page:  *)
(* whatever happens to the queue, the answers and the relay meanwhile,     *)
(* they miss nothing that was there all the time.                          *)
(***************************************************************************)
EXTENDS Delivery, SledStore_proofs

Readers ==
  [pc : {"reading", "done"}, to : Recipients, cursor : 0..MaxSeq \cup {None}, owed : SUBSET Message]

\* What a client that reads is owed has expired, or is ahead of its cursor.
OwedIsAhead(p) ==
  /\ reader[p].owed \subseteq messages[reader[p].to]
  /\ \A m \in reader[p].owed :
       Expired(m, now) \/ reader[p].cursor = None \/ m.seq > reader[p].cursor

\* The request of a client that waits for a page is bound to look at all of it.
OwedIsAskedFor(p) ==
  /\ reader[p].pc = "reading" /\ pulls[p].to = reader[p].to
  /\ \A m \in reader[p].owed : Expired(m, now) \/ m \in pulls[p].must

\* The inductive invariant of the clients, on top of what is known of the store.
\* ReadingIsComplete is its last conjunct; the others carry it from the first
\* page to the last, over lost answers and crashes.
ReadersInv ==
  /\ reader \in [Pullers -> {Away} \cup Readers]
  /\ \A p \in Pullers :
       /\ reader[p].pc = "reading" => OwedIsAhead(p)
       /\ pulls[p].pc # "idle" => OwedIsAskedFor(p)
       /\ reader[p].pc = "done" => \A m \in reader[p].owed : Expired(m, now)

DeliveryInv == Core /\ Durable /\ PageInv /\ CursorsBounded /\ ReadersInv

LEMMA ReaderType ==
  ASSUME ReadersInv, NEW p \in Pullers
  PROVE  /\ reader[p] = Away \/ reader[p] \in Readers
         /\ reader[p].pc \in {"reading", "done"} => reader[p] \in Readers
         /\ reader[p] # Away => reader[p] \in Readers
BY DEF ReadersInv, Away

\* An expired message stays expired.
LEMMA ExpiredStays ==
  ASSUME NEW m \in Message, NEW t \in Nat, NEW u \in Nat, t <= u, Expired(m, t)
  PROVE  Expired(m, u)
BY DEF Message, Expired

-----------------------------------------------------------------------------

\* Every step of the relay and its clients is a step of the store, or leaves it
\* alone.
LEMMA DeliveryUsesStoreStep ==
  ASSUME DeliveryInv, [DeliveryNext]_deliveryVars
  PROVE  [Next]_vars
<1>1. now \in Nat /\ now \in 0..now
  BY DEF DeliveryInv, Core, TypeOK
<1>2. CASE Relay
  <2>1. 1 \in 0..MaxMessageBytes
    BY LimitsAssumption
  <2>2. CASE \E c \in Callers, r \in Recipients :
               \/ \E k \in Keys : Push(c, r, k, 1, now)
               \/ \E K \in SUBSET Keys : Ack(c, r, K)
    BY <1>1, <2>1, <2>2 DEF Next, Request
  <2>3. CASE \E p \in Pullers :
               (\E edge \in Edges : PullRead(p, edge)) \/ PullNext(p) \/ PullLoopEnds(p)
    BY <2>3 DEF Next, Puller
  <2>4. CASE GcStart(now) \/ GcStep
    BY <1>1, <2>4 DEF Next, Collector
  <2> QED
    BY <1>2, <2>2, <2>3, <2>4 DEF Relay, Next
<1>3. ASSUME NEW p \in Pullers, NEW limit \in 1..PullBatchMax, Ask(p, limit)
      PROVE  Next
  <2>1. reader[p] \in Readers
    BY <1>3, ReaderType DEF Ask, DeliveryInv
  <2>2. PICK r, c : r = reader[p].to /\ c = CursorOf(p)
    OBVIOUS
  <2>3. r \in Recipients /\ c \in Cursors
    BY <2>1, <2>2 DEF Readers, CursorOf, Cursors
  <2>4. PullStart(p, r, c, limit, now)
    BY <1>3, <2>2 DEF Ask
  <2> QED
    BY <1>1, <2>3, <2>4 DEF Next, Puller
<1>4. ASSUME NEW p \in Pullers, PageArrives(p) \/ PageLost(p)
      PROVE  Next
  BY <1>4 DEF PageArrives, PageLost, Next, Puller
<1>5. ASSUME NEW p \in Pullers, (\E r \in Recipients : Begin(p, r)) \/ Leave(p)
      PROVE  UNCHANGED vars
  BY <1>5 DEF Begin, Leave
<1> QED
  BY <1>2, <1>3, <1>4, <1>5 DEF DeliveryNext, Client, deliveryVars

LEMMA StoreStaysSound ==
  ASSUME DeliveryInv, [DeliveryNext]_deliveryVars
  PROVE  Core' /\ Durable' /\ PageInv' /\ CursorsBounded'
BY DeliveryUsesStoreStep, CoreStep, DurableStep, PageStep, CursorsStep DEF DeliveryInv

\* What a step of the relay does to the pulls in progress.
LEMMA RelayPulls ==
  ASSUME Core, Relay
  PROVE  /\ now <= now' /\ now' \in Nat
         /\ \A p \in Pullers : pulls'[p].pc # "idle" =>
              pulls[p].pc # "idle" /\ pulls'[p].to = pulls[p].to /\ pulls'[p].must = pulls[p].must
<1>1. now \in Nat
  BY DEF Core, TypeOK
<1>2. CASE Crash
  BY <1>1, <1>2 DEF Crash, PullIdle
<1>3. CASE UNCHANGED pulls /\ now' \in {now, now + 1}
  BY <1>1, <1>3
<1>4. ASSUME NEW p \in Pullers,
             PullLoopEnds(p) \/ PullNext(p) \/ \E edge \in Edges : PullRead(p, edge)
      PROVE  /\ now' = now
             /\ \A q \in Pullers : pulls'[q].pc # "idle" =>
                  pulls[q].pc # "idle" /\ pulls'[q].to = pulls[q].to /\ pulls'[q].must = pulls[q].must
  <2>1. pulls[p] \in PullRecords /\ pulls[p].pc = "scan" /\ now' = now
    BY <1>4, ReadingType DEF PullLoopEnds, PullNext, PullRead, Core
  <2>2. \A q \in Pullers \ {p} : pulls'[q] = pulls[q]
    BY <1>4 DEF PullLoopEnds, PullNext, PullRead, Core, TypeOK
  <2>3. pulls'[p].to = pulls[p].to /\ pulls'[p].must = pulls[p].must
    <3>1. CASE PullLoopEnds(p) \/ \E edge \in Edges : PullRead(p, edge)
      BY <2>1, <3>1 DEF PullLoopEnds, PullRead, Core, TypeOK, PullRecords
    <3>2. CASE PullNext(p)
      <4>1. PICK page, m, rest :
              page = pulls[p] /\ m = FirstOf(page.leaf) /\ rest = page.leaf \ {m}
        OBVIOUS
      <4>2. PICK new : new =
              IF PassedOver(page, m) THEN [page EXCEPT !.leaf = rest]
              ELSE IF Cardinality(page.items) < page.limit
                THEN [page EXCEPT !.leaf = rest, !.items = page.items \cup {m}]
                ELSE [page EXCEPT !.pc = "done", !.leaf = {}, !.next = LastSeq(page.items)]
        OBVIOUS
      <4>3. new.to = page.to /\ new.must = page.must
        BY <2>1, <4>1, <4>2 DEF PullRecords
      <4>4. pulls'[p] = new
        BY <3>2, <4>1, <4>2 DEF PullNext, Core, TypeOK
      <4> QED
        BY <4>1, <4>3, <4>4
    <3> QED
      BY <1>4, <3>1, <3>2
  <2> QED
    BY <2>1, <2>2, <2>3
<1>5. CASE \E p \in Pullers :
             PullLoopEnds(p) \/ PullNext(p) \/ \E edge \in Edges : PullRead(p, edge)
  BY <1>1, <1>4, <1>5
<1>6. CASE \E c \in Callers, r \in Recipients :
             \/ \E k \in Keys : Push(c, r, k, 1, now)
             \/ \E K \in SUBSET Keys : Ack(c, r, K)
  <2>1. PICK c \in Callers, r \in Recipients :
             \/ \E k \in Keys : Push(c, r, k, 1, now)
             \/ \E K \in SUBSET Keys : Ack(c, r, K)
    BY <1>6
  <2>2. ASSUME NEW k \in Keys, Push(c, r, k, 1, now)
        PROVE  now' = now /\ pulls' = pulls
    BY <2>2 DEF Push
  <2>3. ASSUME NEW K \in SUBSET Keys, Ack(c, r, K)
        PROVE  now' = now /\ pulls' = pulls
    BY <2>3 DEF Ack
  <2> QED
    BY <1>3, <2>1, <2>2, <2>3
<1>7. CASE \/ Tick \/ GcStart(now) \/ GcStep \/ GcFails \/ Persist
           \/ \E c \in Callers : Answer(c) \/ Drop(c)
  BY <1>3, <1>7 DEF Tick, GcStart, GcFails, Persist, Answer, Drop, GcStep, GcRead, GcNext,
                    GcRemoveMessage, GcRemoveIndex, GcCount, GcLoopEnds, GcFlush, GcWriteQuota
<1> QED
  BY <1>2, <1>5, <1>6, <1>7 DEF Relay

-----------------------------------------------------------------------------

\* The relay can only take away what a client is owed.
LEMMA RelayKeepsReaders ==
  ASSUME DeliveryInv, Relay
  PROVE  ReadersInv'
<1>1. /\ now \in Nat /\ now' \in Nat /\ now <= now'
      /\ \A p \in Pullers : pulls'[p].pc # "idle" =>
           pulls[p].pc # "idle" /\ pulls'[p].to = pulls[p].to /\ pulls'[p].must = pulls[p].must
  BY RelayPulls DEF DeliveryInv, Core, TypeOK
<1>2. reader' = [p \in Pullers |->
        IF reader[p] = Away THEN Away
        ELSE [reader[p] EXCEPT !.owed = reader[p].owed \cap messages'[reader[p].to]]]
  BY DEF Relay, Watched
<1>3. ASSUME NEW p \in Pullers
      PROVE  /\ reader'[p] \in {Away} \cup Readers
             /\ reader'[p].pc = "reading" => OwedIsAhead(p)'
             /\ pulls'[p].pc # "idle" => OwedIsAskedFor(p)'
             /\ reader'[p].pc = "done" => \A m \in reader'[p].owed : Expired(m, now')
  <2>1. /\ reader[p].pc = "reading" => OwedIsAhead(p)
        /\ pulls[p].pc # "idle" => OwedIsAskedFor(p)
        /\ reader[p].pc = "done" => \A m \in reader[p].owed : Expired(m, now)
    BY DEF DeliveryInv, ReadersInv
  <2>2. CASE reader[p] = Away
    <3>1. reader'[p] = Away /\ Away.pc = "away"
      BY <1>2, <2>2 DEF Away
    <3>2. pulls[p].pc = "idle"
      BY <2>1, <2>2, <3>1 DEF OwedIsAskedFor
    <3> QED
      BY <1>1, <3>1, <3>2
  <2>3. CASE reader[p] # Away
    <3>1. reader[p] \in Readers
      BY <2>3, ReaderType DEF DeliveryInv
    <3>2. /\ reader'[p] = [reader[p] EXCEPT !.owed = reader[p].owed \cap messages'[reader[p].to]]
          /\ reader'[p].pc = reader[p].pc /\ reader'[p].to = reader[p].to
          /\ reader'[p].cursor = reader[p].cursor
          /\ reader'[p].owed = reader[p].owed \cap messages'[reader[p].to]
      BY <1>2, <2>3, <3>1 DEF Readers
    <3>3. reader'[p] \in Readers
      BY <3>1, <3>2 DEF Readers
    <3>4. \A m \in reader'[p].owed :
            m \in reader[p].owed /\ (Expired(m, now) => Expired(m, now'))
      <4>1. \A m \in reader[p].owed : m \in Message
        BY <3>1 DEF Readers
      <4> QED
        BY <1>1, <3>2, <4>1, ExpiredStays
    <3>5. reader'[p].pc = "reading" => OwedIsAhead(p)'
      BY <2>1, <3>2, <3>4 DEF OwedIsAhead
    <3>6. pulls'[p].pc # "idle" => OwedIsAskedFor(p)'
      BY <1>1, <2>1, <3>2, <3>4 DEF OwedIsAskedFor
    <3>7. reader'[p].pc = "done" => \A m \in reader'[p].owed : Expired(m, now')
      BY <2>1, <3>2, <3>4
    <3> QED
      BY <3>3, <3>5, <3>6, <3>7
  <2> QED
    BY <2>2, <2>3
<1>4. reader' \in [Pullers -> {Away} \cup Readers]
  <2>1. DOMAIN reader' = Pullers /\ reader' = [p \in Pullers |-> reader'[p]]
    BY <1>2
  <2> QED
    BY <1>3, <2>1
<1> QED
  BY <1>3, <1>4 DEF ReadersInv

\* A step of one client disturbs no other.
LEMMA OneReaderMoves ==
  ASSUME DeliveryInv, NEW p \in Pullers, UNCHANGED <<messages, now>>,
         \A q \in Pullers \ {p} : reader'[q] = reader[q] /\ pulls'[q] = pulls[q],
         reader' \in [Pullers -> {Away} \cup Readers],
         reader'[p].pc = "reading" => OwedIsAhead(p)',
         pulls'[p].pc # "idle" => OwedIsAskedFor(p)',
         reader'[p].pc = "done" => \A m \in reader'[p].owed : Expired(m, now')
  PROVE  ReadersInv'
<1>1. ASSUME NEW q \in Pullers \ {p}
      PROVE  /\ reader'[q].pc = "reading" => OwedIsAhead(q)'
             /\ pulls'[q].pc # "idle" => OwedIsAskedFor(q)'
             /\ reader'[q].pc = "done" => \A m \in reader'[q].owed : Expired(m, now')
  BY DEF DeliveryInv, ReadersInv, OwedIsAhead, OwedIsAskedFor
<1> QED
  BY <1>1 DEF ReadersInv

LEMMA BeginKeeps ==
  ASSUME DeliveryInv, NEW p \in Pullers, NEW r \in Recipients, Begin(p, r)
  PROVE  ReadersInv'
<1>1. PICK new : new = [pc |-> "reading", to |-> r, cursor |-> None, owed |-> messages[r]]
  OBVIOUS
<1>2. /\ reader' = [reader EXCEPT ![p] = new] /\ pulls[p].pc = "idle"
      /\ UNCHANGED <<messages, now, pulls>>
  BY <1>1 DEF Begin, Reading, PullIdle, vars, trees
<1>3. new \in Readers
  BY <1>1 DEF Readers, DeliveryInv, Core, TypeOK
<1>4. /\ reader' \in [Pullers -> {Away} \cup Readers] /\ reader'[p] = new
      /\ \A q \in Pullers \ {p} : reader'[q] = reader[q]
  BY <1>2, <1>3 DEF DeliveryInv, ReadersInv
<1>5. OwedIsAhead(p)'
  BY <1>1, <1>2, <1>4 DEF OwedIsAhead
<1>6. new.pc = "reading"
  BY <1>1
<1> QED
  BY <1>2, <1>4, <1>5, <1>6, OneReaderMoves

LEMMA AskKeeps ==
  ASSUME DeliveryInv, NEW p \in Pullers, NEW limit \in 1..PullBatchMax, Ask(p, limit)
  PROVE  ReadersInv'
<1>1. PICK r, c : r = reader[p].to /\ c = CursorOf(p)
  OBVIOUS
<1>2. reader[p] \in Readers /\ reader[p].pc = "reading" /\ OwedIsAhead(p)
  BY ReaderType DEF Ask, DeliveryInv, ReadersInv
<1>3. PICK new : new = [pc |-> "scan", to |-> r, limit |-> limit, t |-> now,
                        start |-> IF c = None THEN None ELSE c.seq, edge |-> None, leaf |-> {},
                        items |-> {}, next |-> None, must |-> Live(messages[r], c, now)]
  OBVIOUS
<1>4. pulls' = [pulls EXCEPT ![p] = new] /\ UNCHANGED <<messages, now, reader>>
  BY <1>1, <1>3 DEF Ask, PullStart, trees
<1>5. pulls'[p] = new /\ \A q \in Pullers \ {p} : pulls'[q] = pulls[q]
  BY <1>4 DEF DeliveryInv, Core, TypeOK
<1>6. new.pc = "scan" /\ new.to = r /\ new.must = Live(messages[r], c, now)
  BY <1>3
<1>7. \A m \in reader[p].owed : Expired(m, now) \/ m \in new.must
  <2> SUFFICES ASSUME NEW m \in reader[p].owed, ~Expired(m, now)
               PROVE  m \in Live(messages[r], c, now)
    BY <1>6
  <2>1. m \in messages[r] /\ (reader[p].cursor = None \/ m.seq > reader[p].cursor)
    BY <1>1, <1>2 DEF OwedIsAhead
  <2>2. CASE reader[p].cursor = None
    BY <1>1, <2>1, <2>2 DEF CursorOf, Live, Beyond
  <2>3. CASE reader[p].cursor # None
    <3>1. c = [to |-> r, seq |-> reader[p].cursor]
      BY <1>1, <2>3 DEF CursorOf
    <3>2. c.seq = reader[p].cursor
      BY <3>1
    <3> QED
      BY <2>1, <2>3, <3>2 DEF Live, Beyond
  <2> QED
    BY <2>2, <2>3
<1>8. OwedIsAskedFor(p)'
  BY <1>1, <1>2, <1>4, <1>5, <1>6, <1>7 DEF OwedIsAskedFor
<1>9. OwedIsAhead(p)'
  BY <1>2, <1>4 DEF OwedIsAhead
<1>10. reader' \in [Pullers -> {Away} \cup Readers]
  BY <1>4 DEF DeliveryInv, ReadersInv
<1> QED
  BY <1>2, <1>4, <1>5, <1>8, <1>9, <1>10, OneReaderMoves

\* The page that arrives has all that is owed up to its next_cursor, which the
\* client goes on from; a page without one has all of it.
LEMMA ArrivalKeeps ==
  ASSUME DeliveryInv, NEW p \in Pullers, PageArrives(p)
  PROVE  ReadersInv'
<1>1. PICK page, old : page = pulls[p] /\ old = reader[p]
  OBVIOUS
<1>2. page \in PullRecords /\ page.pc = "done" /\ page.next \in 0..MaxSeq \cup {None}
  <2>1. page \in PullRecords /\ page.pc = "done"
    BY <1>1, ReadingType DEF PageArrives, PullAnswer, DeliveryInv, Core
  <2>2. page.next # None => page.next <= MaxSeq
    BY <1>1, <2>1 DEF DeliveryInv, CursorsBounded
  <2> QED
    BY <2>1, <2>2, BoundsAssumption DEF PullRecords
<1>3. /\ old \in Readers /\ old.pc = "reading" /\ page.to = old.to
      /\ OwedIsAhead(p)
      /\ \A m \in old.owed : Expired(m, now) \/ m \in page.must
  BY <1>1, <1>2, ReaderType DEF DeliveryInv, ReadersInv, OwedIsAskedFor
<1>4. \A m \in page.must \cap messages[page.to] :
        m \in page.items \/ (page.next # None /\ m.seq > page.next)
  BY <1>1, <1>2 DEF DeliveryInv, PageInv, PageOf, Complete
<1>5. PICK new : new = [old EXCEPT !.owed = old.owed \ page.items, !.cursor = page.next,
                                   !.pc = IF page.next = None THEN "done" ELSE "reading"]
  OBVIOUS
<1>6. /\ new \in Readers /\ new.owed = old.owed \ page.items /\ new.cursor = page.next
      /\ new.to = old.to /\ new.pc = IF page.next = None THEN "done" ELSE "reading"
  BY <1>2, <1>3, <1>5 DEF Readers
<1>7. /\ reader' = [reader EXCEPT ![p] = new] /\ pulls' = [pulls EXCEPT ![p] = PullIdle]
      /\ UNCHANGED <<messages, now>>
  BY <1>1, <1>5 DEF PageArrives, PullAnswer, trees
<1>8. /\ reader' \in [Pullers -> {Away} \cup Readers] /\ reader'[p] = new
      /\ \A q \in Pullers \ {p} : reader'[q] = reader[q] /\ pulls'[q] = pulls[q]
      /\ pulls'[p].pc = "idle"
  BY <1>6, <1>7 DEF DeliveryInv, ReadersInv, Core, TypeOK, PullIdle
<1>9. \A m \in new.owed :
        /\ m \in messages[new.to]
        /\ Expired(m, now) \/ (page.next # None /\ m.seq > page.next)
  BY <1>1, <1>3, <1>4, <1>6 DEF OwedIsAhead
<1>10. reader'[p].pc = "reading" => OwedIsAhead(p)'
  BY <1>6, <1>7, <1>8, <1>9 DEF OwedIsAhead
<1>11. reader'[p].pc = "done" => \A m \in reader'[p].owed : Expired(m, now')
  BY <1>6, <1>7, <1>8, <1>9
<1> QED
  BY <1>7, <1>8, <1>10, <1>11, OneReaderMoves

LEMMA LossKeeps ==
  ASSUME DeliveryInv, NEW p \in Pullers, PageLost(p)
  PROVE  ReadersInv'
<1>1. /\ pulls' = [pulls EXCEPT ![p] = PullIdle] /\ UNCHANGED <<messages, now, reader>>
      /\ pulls[p].pc = "done"
  BY DEF PageLost, PullAnswer, trees
<1>2. /\ reader[p].pc = "reading" /\ OwedIsAhead(p) /\ reader \in [Pullers -> {Away} \cup Readers]
  BY <1>1 DEF DeliveryInv, ReadersInv, OwedIsAskedFor
<1>3. OwedIsAhead(p)'
  BY <1>1, <1>2 DEF OwedIsAhead
<1>4. pulls'[p].pc = "idle" /\ \A q \in Pullers \ {p} : pulls'[q] = pulls[q]
  BY <1>1 DEF DeliveryInv, Core, TypeOK, PullIdle
<1> QED
  BY <1>1, <1>2, <1>3, <1>4, OneReaderMoves

LEMMA LeaveKeeps ==
  ASSUME DeliveryInv, NEW p \in Pullers, Leave(p)
  PROVE  ReadersInv'
<1>1. /\ reader' = [reader EXCEPT ![p] = Away] /\ UNCHANGED <<messages, now, pulls>>
      /\ reader[p].pc = "done"
  BY DEF Leave, vars, trees
<1>2. pulls[p].pc = "idle" /\ reader \in [Pullers -> {Away} \cup Readers]
  BY <1>1 DEF DeliveryInv, ReadersInv, OwedIsAskedFor
<1>3. /\ reader'[p] = Away /\ Away.pc = "away" /\ reader' \in [Pullers -> {Away} \cup Readers]
      /\ \A q \in Pullers \ {p} : reader'[q] = reader[q]
  BY <1>1, <1>2 DEF Away
<1> QED
  BY <1>1, <1>2, <1>3, OneReaderMoves

-----------------------------------------------------------------------------

LEMMA ReadersStep ==
  ASSUME DeliveryInv, [DeliveryNext]_deliveryVars
  PROVE  ReadersInv'
<1>1. CASE Client
  BY <1>1, BeginKeeps, AskKeeps, ArrivalKeeps, LossKeeps, LeaveKeeps DEF Client
<1>2. CASE UNCHANGED deliveryVars
  BY <1>2 DEF deliveryVars, vars, trees, DeliveryInv, ReadersInv, OwedIsAhead, OwedIsAskedFor
<1> QED
  BY <1>1, <1>2, RelayKeepsReaders DEF DeliveryNext

LEMMA DeliveryInitInv == DeliveryInit => DeliveryInv
<1> SUFFICES ASSUME DeliveryInit
             PROVE  DeliveryInv
  OBVIOUS
<1>1. Core /\ Durable
  BY CoreInit, DurableInit DEF DeliveryInit
<1>2. PageInv /\ CursorsBounded
  BY BoundsAssumption DEF DeliveryInit, Init, PageInv, PageOf, CursorsBounded, PullIdle
<1>3. ReadersInv
  BY DEF DeliveryInit, Init, ReadersInv, Away, PullIdle
<1> QED
  BY <1>1, <1>2, <1>3 DEF DeliveryInv

\* What holds of the store and of its clients in every state: the inductive
\* invariant from which the results below follow.
THEOREM DeliverySpecInv == DeliverySpec => []DeliveryInv
<1>1. DeliveryInv /\ [DeliveryNext]_deliveryVars => DeliveryInv'
  BY StoreStaysSound, ReadersStep DEF DeliveryInv
<1> QED
  BY <1>1, DeliveryInitInv, PTL DEF DeliverySpec

\* Clients use the store as its specification says it is used, with cursors it
\* has handed out: what is proved of SledStore holds of the store they read.
THEOREM DeliveryUsesStore == DeliverySpec => Spec
<1>1. DeliveryInit => Init
  BY DEF DeliveryInit
<1>2. DeliveryInv /\ [DeliveryNext]_deliveryVars => [Next]_vars
  BY DeliveryUsesStoreStep
<1> QED
  BY <1>1, <1>2, DeliverySpecInv, PTL DEF DeliverySpec, Spec

\* A client that has read to the end has seen every message that was there all
\* the time and has not expired, over any number of pages, lost answers, races
\* and crashes.
THEOREM ReadingIsCompleteHolds == DeliverySpec => []ReadingIsComplete
<1>1. DeliveryInv => ReadingIsComplete
  BY DEF DeliveryInv, ReadersInv, ReadingIsComplete
<1> QED
  BY <1>1, DeliverySpecInv, PTL

\* Nothing arrives behind a cursor that stands for a confirmed message: the
\* counter that a crash restores is beyond it already.
THEOREM NothingArrivesBehindHolds == DeliverySpec => []NothingArrivesBehind
<1>1. ASSUME DeliveryInv, NEW p \in Pullers, reader[p].pc = "reading",
             <<reader[p].to, reader[p].cursor>> \in accepted
      PROVE  seq[reader[p].to] > reader[p].cursor
  <2>1. PICK r, s : r = reader[p].to /\ s = reader[p].cursor
    OBVIOUS
  <2>2. <<r, s>> \in accepted /\ <<r, s>> \in Recipients \X Nat
    BY <1>1, <2>1 DEF DeliveryInv, Core, TypeOK, Arrivals
  <2>3. s < disk.seq[r]
    BY <1>1, <2>2 DEF DeliveryInv, Durable, ConfirmedIsCounted
  <2>4. disk.seq[r] <= seq[r] /\ disk.seq[r] \in Nat /\ seq[r] \in Nat /\ s \in Nat
    BY <1>1, <2>2 DEF DeliveryInv, Core, DiskFresh, TypeOK
  <2> QED
    BY <2>1, <2>3, <2>4
<1>2. DeliveryInv => NothingArrivesBehind
  BY <1>1 DEF NothingArrivesBehind
<1> QED
  BY <1>2, DeliverySpecInv, PTL
=============================================================================
