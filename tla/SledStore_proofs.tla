-------------------------- MODULE SledStore_proofs --------------------------
(***************************************************************************)
(* Proofs about the durable backend: for any recipients, keys, limits and  *)
(* callers, any interleaving of requests, the collector and the log, and   *)
(* any number of crashes.                                                  *)
(***************************************************************************)
EXTENDS SledStore, RelayStore_proofs

\* A queue has a number of messages, and a first one.
QueuesFinite ==
  \A r \in Recipients : IsFiniteSet(messages[r]) /\ IsFiniteSet(disk.messages[r])

\* What a scan has in hand: its page, and copies of different messages.
InHand(page) ==
  /\ IsFiniteSet(page.items) /\ IsFiniteSet(page.leaf)
  /\ \A m, n \in page.leaf : m.seq = n.seq => m = n

ScansInHand == \A p \in Pullers : pulls[p].pc = "scan" => InHand(pulls[p])

\* SeqFresh of the trees on disk, which the live ones are never behind.
DiskFresh ==
  \A r \in Recipients :
    /\ disk.seq[r] <= seq[r]
    /\ \A m \in disk.messages[r] : m.seq < disk.seq[r]
    /\ \A m, n \in disk.messages[r] : m.seq = n.seq => m = n

\* Nothing in the queue is mistaken for the message the collector holds.
HeldMessage ==
  gc.pc \in {"fetched", "unindex", "uncount"} =>
    /\ gc.at \in Arrivals /\ gc.msg \in Message /\ gc.at[2] = gc.msg.seq
    /\ gc.msg.seq < seq[gc.at[1]]
    /\ \A m \in messages[gc.at[1]] :
         m.seq = gc.msg.seq => gc.pc = "fetched" /\ m = gc.msg

\* The messages of r that the collector's iterator has copied.
Copies(r) == {m \in Message : <<r, m>> \in gc.leaf}

\* Nor is it mistaken for one of the copies, which differ among themselves.
HeldCopies ==
  gc.pc # "idle" => \A r \in Recipients :
    /\ IsFiniteSet(Copies(r))
    /\ \A m \in Copies(r) :
         /\ m.seq < seq[r]
         /\ \A n \in messages[r] \cup Copies(r) : n.seq = m.seq => n = m

\* The invariant the others rest on.  SeqFresh is not inductive alone: a crash
\* needs it of the disk, and keeps it because the counters are written with the
\* messages they numbered.
Core ==
  /\ TypeOK
  /\ QueuesFinite
  /\ ScansInHand
  /\ SeqFresh
  /\ DiskFresh
  /\ HeldMessage
  /\ HeldCopies

\* The message <<r, arrival_seq>> is in the trees, or was and has been deleted.
Known(a) ==
  /\ a[2] < seq[a[1]]
  /\ a \in deleted \/ \E m \in messages[a[1]] : m.seq = a[2]

KnownOnDisk(a) ==
  /\ a[2] < disk.seq[a[1]]
  /\ a \in deleted \/ \E m \in disk.messages[a[1]] : m.seq = a[2]

\* An arrival_seq that was confirmed is below the counter a crash restores, so
\* that no later message takes it.
ConfirmedIsCounted == \A a \in accepted \cup acked : a[2] < disk.seq[a[1]]

\* What a duplicate push answers with was stored.
IndexIsKnown ==
  \A a \in Arrivals, k \in Keys :
    /\ index[a[1]][k] = a[2] => Known(a)
    /\ disk.index[a[1]][k] = a[2] => KnownOnDisk(a)

\* What a call has committed and will confirm.
CallsAreKnown ==
  \A c \in Callers : \A a \in calls[c].ids :
    /\ a[2] < seq[a[1]]
    /\ calls[c].op = "push" => Known(a)
    /\ calls[c].op = "ack" => \A m \in messages[a[1]] : m.seq # a[2]

\* The inductive invariant of durability, on top of Core.
Durable ==
  /\ AcceptedSurvives
  /\ AckedStaysGone
  /\ ConfirmedIsCounted
  /\ IndexIsKnown
  /\ CallsAreKnown

\* What QuotaExactUnlessRaced compares, each under a name.
Counted(r) == IF Cached(r) THEN gc.cache[r] ELSE quota[r]
Owing(r) == IF gc.pc \in {"unindex", "uncount"} /\ gc.at[1] = r THEN {gc.msg} ELSE {}
Measures(q, S) == q.count = Cardinality(S) /\ q.bytes = Bytes(S)
CountExact == \A r \in Recipients \ quotaRaced : Measures(Counted(r), messages[r] \cup Owing(r))

\* The quota a crash restores.
DiskQuotaExact ==
  \A r \in Recipients \ disk.quotaRaced : Measures(disk.quota[r], disk.messages[r])

QuotaInv == CountExact /\ DiskQuotaExact

\* What IndexExactUnlessRaced compares, each under a name.
Leaving(r) == IF gc.pc = "unindex" /\ gc.at[1] = r THEN {gc.msg} ELSE {}
Paired(ix, S, L) ==
  /\ \A m \in S : ix[m.key] = m.seq
  /\ \A k \in Keys : ix[k] # None => \E m \in S \cup L : m.key = k /\ m.seq = ix[k]
EntriesExact == \A r \in Recipients \ indexRaced : Paired(index[r], messages[r], Leaving(r))

\* The index a crash restores.
DiskIndexExact ==
  \A r \in Recipients \ disk.indexRaced : Paired(disk.index[r], disk.messages[r], {})

IndexInv == EntriesExact /\ DiskIndexExact

\* A scan under way over the messages M has every message it may have to deliver
\* on its page, in its leaf or still ahead, and its page before its leaf.
Scanning(page, M) ==
  /\ Cardinality(page.items) <= page.limit
  /\ page.limit > 0 /\ page.next = None
  /\ \A m \in page.items \cup page.leaf : page.edge # None /\ m.seq <= page.edge
  /\ \A m \in page.items, n \in page.leaf : m.seq < n.seq
  /\ \A m \in page.must : ~Expired(m, page.t) /\ (page.start = None \/ m.seq > page.start)
  /\ \A m \in page.must \cap M :
       m \in page.items \cup page.leaf \/ page.edge = None \/ m.seq > page.edge

\* What PageHasNoGaps says of one page.
Complete(page, M) ==
  /\ \A m \in page.must \cap M : m \in page.items \/ (page.next # None /\ m.seq > page.next)
  /\ page.next # None => Cardinality(page.items) = page.limit

\* A message that takes the arrival_seq s or a later one is not one that a scan
\* begun before has to deliver.
PageOf(page, M, s) ==
  /\ page.pc = "scan" => Scanning(page, M)
  /\ page.pc = "done" => Complete(page, M)
  /\ page.pc # "idle" => \A m \in page.must : m.seq < s

PageInv == \A p \in Pullers : PageOf(pulls[p], messages[pulls[p].to], seq[pulls[p].to])

-----------------------------------------------------------------------------

\* The records of a purge that runs and of a pull in progress.
Running ==
  [pc : {"next", "fetched", "unindex", "uncount", "write"}, t : Nat, removed : Nat,
   edge : Arrivals \cup {None}, leaf : SUBSET (Recipients \X Message),
   at : Arrivals \cup {None}, msg : Message \cup {None},
   cache : [Recipients -> Quotas \cup {None}]]

PullRecords ==
  [pc : {"scan", "done"}, to : Recipients, limit : Nat, t : Nat,
   start : Nat \cup {None}, edge : Nat \cup {None}, leaf : SUBSET Message,
   items : SUBSET Message, next : Nat \cup {None}, must : SUBSET Message]

LEMMA RunningType ==
  ASSUME TypeOK
  PROVE  gc.pc # "idle" => gc \in Running
BY DEF TypeOK, Purges, Running

LEMMA ReadingType ==
  ASSUME TypeOK, NEW p \in Pullers
  PROVE  pulls[p].pc # "idle" => pulls[p] \in PullRecords
BY DEF TypeOK, Pages, PullRecords

\* Deducting messages from a quota leaves a quota.
LEMMA MinusType ==
  ASSUME NEW q \in Quotas, NEW S \in SUBSET Message, IsFiniteSet(S)
  PROVE  Minus(q, S) \in Quotas
<1>1. Cardinality(S) \in Nat /\ Bytes(S) \in Nat
  BY FS_CardinalityType, BytesType
<1>2. q.count \in Nat /\ q.bytes \in Nat
  BY DEF Quotas
<1> QED
  BY <1>1, <1>2, SatSubType DEF Minus, Quotas

\* The log takes the trees as they are.
LEMMA SnapshotFields ==
  ASSUME TypeOK
  PROVE  /\ Snapshot \in [messages : [Recipients -> SUBSET Message],
                          index : [Recipients -> [Keys -> Nat \cup {None}]],
                          quota : [Recipients -> Quotas], seq : [Recipients -> Nat],
                          quotaRaced : SUBSET Recipients, indexRaced : SUBSET Recipients]
         /\ Snapshot.messages = messages /\ Snapshot.index = index
         /\ Snapshot.quota = quota /\ Snapshot.seq = seq
         /\ Snapshot.quotaRaced = quotaRaced \cup HalfCounted
         /\ Snapshot.indexRaced = indexRaced \cup HalfIndexed
<1>1. HalfCounted \in SUBSET Recipients /\ HalfIndexed \in SUBSET Recipients
  BY DEF HalfCounted, HalfIndexed
<1> QED
  BY <1>1 DEF TypeOK, Snapshot

\* What a scan hands out next is one of its copies, and the first of them.
LEMMA FirstCopied ==
  ASSUME Core, NEW p \in Pullers, pulls[p].pc = "scan", pulls[p].leaf # {},
         NEW m, m = FirstOf(pulls[p].leaf)
  PROVE  /\ m \in pulls[p].leaf /\ m \in Message
         /\ \A n \in pulls[p].leaf \ {m} : m.seq < n.seq
<1>1. pulls[p] \in PullRecords /\ InHand(pulls[p])
  BY ReadingType DEF Core, ScansInHand
<1>2. pulls[p].leaf \in SUBSET Message /\ IsFiniteSet(pulls[p].leaf)
  BY <1>1 DEF PullRecords, InHand
<1>3. \E n \in pulls[p].leaf : Before(pulls[p].leaf, n) = {}
  BY <1>2, FirstExists
<1>4. m \in pulls[p].leaf /\ Before(pulls[p].leaf, m) = {}
  BY <1>3 DEF FirstOf
<1>5. ASSUME NEW n \in pulls[p].leaf, n # m
      PROVE  m.seq < n.seq
  <2>1. m.seq \in Nat /\ n.seq \in Nat
    BY <1>2, <1>4 DEF Message
  <2>2. ~(n.seq < m.seq) /\ n.seq # m.seq
    BY <1>1, <1>4, <1>5 DEF Before, InHand
  <2> QED
    BY <2>1, <2>2
<1> QED
  BY <1>2, <1>4, <1>5

\* So is what the collector's iterator hands out next: the first message of the
\* first recipient it has copies of.
LEMMA FirstHeld ==
  ASSUME Core, gc.pc # "idle", gc.leaf # {}
  PROVE  First(gc.leaf) \in gc.leaf
<1> DEFINE R == {r \in Recipients : Copies(r) # {}}
<1>1. \A e \in gc.leaf :
        e[1] \in Recipients /\ e[2] \in Copies(e[1]) /\ e = <<e[1], e[2]>>
  <2>1. gc.leaf \in SUBSET (Recipients \X Message)
    BY RunningType DEF Core, Running
  <2> QED
    BY <2>1 DEF Copies
<1>2. R # {} /\ R \subseteq Recipients /\ IsFiniteSet(R) /\ R \subseteq Nat
  <2>1. R \in SUBSET Recipients
    OBVIOUS
  <2>2. \A e \in gc.leaf : e[1] \in R
    BY <1>1
  <2> HIDE DEF R
  <2> QED
    BY <2>1, <2>2, FS_Subset, RecipientsAssumption
<1>3. PICK r \in R : \A q \in R : r <= q
  <2> HIDE DEF R
  <2> QED
    BY <1>2, LeastExists
<1>4. Copies(r) \in SUBSET Message /\ IsFiniteSet(Copies(r)) /\ Copies(r) # {}
  <2>1. IsFiniteSet(Copies(r))
    BY DEF Core, HeldCopies
  <2> QED
    BY <2>1 DEF Copies
<1>5. PICK m \in Copies(r) : Before(Copies(r), m) = {}
  BY <1>4, FirstExists
<1>6. <<r, m>> \in gc.leaf
  BY DEF Copies
<1>7. ASSUME NEW f \in gc.leaf
      PROVE  f = <<r, m>> \/ Precedes(<<r, m.seq>>, <<f[1], f[2].seq>>)
  <2>1. f[1] \in R /\ r <= f[1] /\ r \in Nat /\ f[1] \in Nat
    BY <1>1, <1>2, <1>3
  <2>2. CASE f[1] = r
    <3>1. f[2] \in Copies(r)
      BY <1>1, <2>2
    <3>2. f[2].seq \in Nat /\ m.seq \in Nat
      BY <1>4, <3>1 DEF Message
    <3>3. ~(f[2].seq < m.seq)
      BY <1>5, <3>1 DEF Before
    <3>4. f[2].seq = m.seq => f[2] = m
      BY <3>1 DEF Core, HeldCopies
    <3> QED
      BY <1>1, <2>2, <3>2, <3>3, <3>4 DEF Precedes
  <2>3. CASE f[1] # r
    BY <2>1, <2>3 DEF Precedes
  <2> QED
    BY <2>2, <2>3
<1>8. \E e \in gc.leaf : \A f \in gc.leaf : f = e \/ Precedes(<<e[1], e[2].seq>>, <<f[1], f[2].seq>>)
  BY <1>6, <1>7
<1> QED
  BY <1>8 DEF First

-----------------------------------------------------------------------------
(***************************************************************************)
(* Core is an invariant.                                                   *)
(***************************************************************************)

\* Steps of the pulls and of the clock leave the trees, the disk and the
\* collector alone.
LEMMA CoreApart ==
  ASSUME Core, UNCHANGED <<messages, seq, disk, gc>>, TypeOK',
         ScansInHand'
  PROVE  Core'
BY DEF Core, QueuesFinite, SeqFresh, DiskFresh, HeldMessage, HeldCopies, Copies

\* Steps that write the log and leave the messages alone.
LEMMA CoreWritten ==
  ASSUME Core, UNCHANGED <<messages, seq, pulls>>, disk' = Snapshot,
         TypeOK', gc' \in {gc, GcIdle}
  PROVE  Core'
<1>1. disk'.messages = messages /\ disk'.seq = seq
  BY SnapshotFields DEF Core
<1>2. QueuesFinite' /\ SeqFresh' /\ ScansInHand'
  BY <1>1 DEF Core, QueuesFinite, SeqFresh, ScansInHand
<1>3. DiskFresh'
  <2>1. \A r \in Recipients : seq[r] \in Nat
    BY DEF Core, TypeOK
  <2> QED
    BY <1>1, <2>1 DEF Core, DiskFresh, SeqFresh
<1>4. HeldMessage' /\ HeldCopies'
  BY DEF Core, HeldMessage, HeldCopies, Copies, GcIdle
<1> QED
  BY <1>2, <1>3, <1>4 DEF Core

LEMMA CoreInit ==
  ASSUME Init
  PROVE  Core
<1>1. TypeOK
  BY BoundsAssumption DEF Init, TypeOK, Idle, GcIdle, PullIdle, Quotas, Pages, Purges
<1>2. QueuesFinite /\ ScansInHand
  BY FS_EmptySet DEF Init, QueuesFinite, ScansInHand, PullIdle
<1>3. SeqFresh /\ DiskFresh /\ HeldMessage /\ HeldCopies
  BY DEF Init, SeqFresh, DiskFresh, HeldMessage, HeldCopies, GcIdle
<1> QED
  BY <1>1, <1>2, <1>3 DEF Core

LEMMA CorePush ==
  ASSUME Core,
         NEW c \in Callers, NEW r \in Recipients, NEW k \in Keys,
         NEW b \in 0..MaxMessageBytes, NEW t \in 0..now, Push(c, r, k, b, t)
  PROVE  Core'
<1> USE DEF Core
<1>1. CASE PushDuplicate(c, r, k)
  <2>1. <<r, index[r][k]>> \in Arrivals
    BY <1>1 DEF PushDuplicate, TypeOK, Arrivals
  <2>2. calls' \in [Callers -> [op : {"none", "push", "ack"}, ids : SUBSET Arrivals]]
    BY <1>1, <2>1 DEF PushDuplicate, TypeOK
  <2>3. TypeOK'
    BY <1>1, <2>2 DEF Push, PushDuplicate, TypeOK, trees, history
  <2> QED
    BY <1>1, <2>3, CoreApart DEF Push, PushDuplicate, trees, ScansInHand
<1>2. CASE PushStored(c, r, k, b, t)
  <2> DEFINE m == NewMessage(k, b, t, seq[r])
  <2>1. m \in Message /\ m.seq = seq[r] /\ seq[r] \in Nat /\ <<r, seq[r]>> \in Arrivals
    BY LimitsAssumption DEF NewMessage, Message, TypeOK, Arrivals
  <2>2. /\ messages' = [messages EXCEPT ![r] = @ \cup {m}]
        /\ seq' = [seq EXCEPT ![r] = @ + 1]
        /\ UNCHANGED <<pulls, gc, now, disk, crashes, accepted, acked, indexRaced>>
    BY <1>2 DEF Push, PushStored
  <2> HIDE DEF m
  <2>3. TypeOK'
    <3>1. messages' \in [Recipients -> SUBSET Message] /\ seq' \in [Recipients -> Nat]
      BY <2>1, <2>2 DEF TypeOK
    <3>2. index' \in [Recipients -> [Keys -> Nat \cup {None}]]
      BY <1>2, <2>1 DEF PushStored, TypeOK
    <3>3. quota' \in [Recipients -> Quotas]
      <4>1. [count |-> quota[r].count + 1, bytes |-> quota[r].bytes + b] \in Quotas
        BY LimitsAssumption DEF TypeOK, Quotas
      <4> QED
        BY <1>2, <4>1 DEF PushStored, TypeOK
    <3>4. calls' \in [Callers -> [op : {"none", "push", "ack"}, ids : SUBSET Arrivals]]
      BY <1>2, <2>1 DEF PushStored, TypeOK
    <3>5. deleted' \in SUBSET Arrivals /\ quotaRaced' \in SUBSET Recipients
      BY <1>2 DEF PushStored, TypeOK
    <3> QED
      BY <2>2, <3>1, <3>2, <3>3, <3>4, <3>5 DEF TypeOK
  <2>4. QueuesFinite'
    <3>1. IsFiniteSet(messages[r] \cup {m})
      BY FS_AddElement DEF QueuesFinite
    <3> QED
      BY <2>2, <3>1 DEF QueuesFinite, TypeOK
  <2>5. \A q \in Recipients : messages'[q] = IF q = r THEN messages[q] \cup {m} ELSE messages[q]
    BY <2>2 DEF TypeOK
  <2>6. \A q \in Recipients : seq'[q] = IF q = r THEN seq[q] + 1 ELSE seq[q]
    BY <2>2 DEF TypeOK
  <2>7. \A q \in Recipients : seq[q] \in Nat /\ \A n \in messages[q] : n.seq \in Nat
    BY DEF TypeOK, Message
  <2>8. SeqFresh'
    <3>1. \A n \in messages[r] : n.seq < seq[r]
      BY DEF SeqFresh
    <3>2. \A n \in messages'[r] : n.seq < seq[r] + 1
      <4>1. \A n \in messages'[r] : n \in messages[r] \/ n = m
        BY <2>5
      <4>2. ASSUME NEW n \in messages[r]
            PROVE  n.seq < seq[r] + 1
        BY <2>1, <2>7, <3>1
      <4>3. m.seq < seq[r] + 1
        BY <2>1
      <4> QED
        BY <4>1, <4>2, <4>3
    <3>3. \A n \in messages[r] : n.seq # m.seq
      BY <2>1, <2>7, <3>1
    <3>4. \A n, o \in messages'[r] : n.seq = o.seq => n = o
      BY <2>5, <3>3 DEF SeqFresh
    <3>5. \A q \in Recipients : q # r => messages'[q] = messages[q] /\ seq'[q] = seq[q]
      BY <2>5, <2>6
    <3>6. seq'[r] = seq[r] + 1
      BY <2>6
    <3> QED
      BY <3>2, <3>4, <3>5, <3>6 DEF SeqFresh
  <2>9. DiskFresh'
    BY <2>2, <2>6, <2>7 DEF DiskFresh, TypeOK
  <2>10. HeldMessage'
    BY <2>1, <2>2, <2>5, <2>6, <2>7 DEF HeldMessage, Arrivals, Message
  <2>11. HeldCopies'
    <3> SUFFICES ASSUME gc.pc # "idle", NEW q \in Recipients, NEW n \in Copies(q)
                 PROVE  /\ IsFiniteSet(Copies(q))
                        /\ n.seq < seq'[q]
                        /\ \A o \in messages'[q] \cup Copies(q) : o.seq = n.seq => o = n
      BY <2>2, FS_EmptySet DEF HeldCopies, Copies
    <3>1. /\ IsFiniteSet(Copies(q)) /\ n.seq < seq[q] /\ n.seq \in Nat
          /\ \A o \in messages[q] \cup Copies(q) : o.seq = n.seq => o = n
      BY DEF HeldCopies, Copies, Message
    <3>2. n.seq < seq'[q]
      BY <2>6, <2>7, <3>1
    <3>3. q = r => m.seq # n.seq
      BY <2>1, <3>1
    <3> QED
      BY <2>5, <3>1, <3>2, <3>3
  <2>12. ScansInHand'
    BY <2>2 DEF ScansInHand
  <2> QED
    BY <2>3, <2>4, <2>8, <2>9, <2>10, <2>11, <2>12
<1> QED
  BY <1>1, <1>2 DEF Push

LEMMA CoreAck ==
  ASSUME Core, NEW c \in Callers, NEW r \in Recipients, NEW K \in SUBSET Keys, Ack(c, r, K)
  PROVE  Core'
<1> USE DEF Core
<1> DEFINE hit == {k \in K : index[r][k] # None}
           gone == {m \in messages[r] : m.key \in hit /\ index[r][m.key] = m.seq}
<1>1. /\ messages' = [messages EXCEPT ![r] = @ \ gone]
      /\ index' = [index EXCEPT ![r] = [k \in Keys |-> IF k \in hit THEN None ELSE @[k]]]
      /\ quota' = [quota EXCEPT ![r] = Minus(@, gone)]
      /\ calls' = [calls EXCEPT ![c] = [op |-> "ack", ids |-> Ids(r, gone)]]
      /\ deleted' = deleted \cup Ids(r, gone)
      /\ quotaRaced' = quotaRaced \cup
           (IF Cached(r) /\ gone # {} THEN {r} ELSE {})
      /\ UNCHANGED <<seq, accepted, acked, indexRaced, pulls, gc, now, disk, crashes>>
  BY DEF Ack
<1>2. /\ gone \in SUBSET messages[r] /\ gone \in SUBSET Message
      /\ IsFiniteSet(gone) /\ IsFiniteSet(messages[r] \ gone)
  <2>1. gone \in SUBSET messages[r] /\ messages[r] \in SUBSET Message /\ IsFiniteSet(messages[r])
    BY DEF TypeOK, QueuesFinite
  <2> HIDE DEF gone
  <2> QED
    BY <2>1, FS_Subset
<1> HIDE DEF gone
<1>3. Ids(r, gone) \in SUBSET Arrivals
  BY <1>2 DEF Ids, Arrivals, Message
<1>4. TypeOK'
  <2>1. messages' \in [Recipients -> SUBSET Message]
    BY <1>1 DEF TypeOK
  <2>2. index' \in [Recipients -> [Keys -> Nat \cup {None}]]
    BY <1>1 DEF TypeOK
  <2>3. quota' \in [Recipients -> Quotas]
    BY <1>1, <1>2, MinusType DEF TypeOK
  <2>4. calls' \in [Callers -> [op : {"none", "push", "ack"}, ids : SUBSET Arrivals]]
    BY <1>1, <1>3 DEF TypeOK
  <2>5. deleted' \in SUBSET Arrivals /\ quotaRaced' \in SUBSET Recipients
    BY <1>1, <1>3 DEF TypeOK
  <2> QED
    BY <1>1, <2>1, <2>2, <2>3, <2>4, <2>5 DEF TypeOK
<1>5. \A q \in Recipients : messages'[q] = IF q = r THEN messages[q] \ gone ELSE messages[q]
  BY <1>1 DEF TypeOK
<1>6. QueuesFinite' /\ ScansInHand' /\ SeqFresh' /\ DiskFresh'
  BY <1>1, <1>2, <1>5 DEF QueuesFinite, ScansInHand, SeqFresh, DiskFresh
<1>7. HeldMessage' /\ HeldCopies'
  BY <1>1, <1>5 DEF HeldMessage, HeldCopies, Copies, Arrivals
<1> QED
  BY <1>4, <1>6, <1>7

\* What is on disk has been live: a crash brings back nothing that breaks Core.
LEMMA CoreCrash ==
  ASSUME Core, Crash
  PROVE  Core'
<1> USE DEF Core
<1>1. TypeOK'
  BY DEF Crash, TypeOK, Idle, GcIdle, PullIdle, Purges, Pages
<1>2. QueuesFinite' /\ ScansInHand'
  BY DEF Crash, QueuesFinite, ScansInHand, PullIdle
<1>3. SeqFresh'
  BY DEF Crash, SeqFresh, DiskFresh
<1>4. DiskFresh'
  <2>1. \A r \in Recipients : disk.seq[r] \in Nat
    BY DEF TypeOK
  <2> QED
    BY <2>1 DEF Crash, DiskFresh
<1>5. HeldMessage' /\ HeldCopies'
  BY DEF Crash, HeldMessage, HeldCopies, GcIdle
<1> QED
  BY <1>1, <1>2, <1>3, <1>4, <1>5

LEMMA CorePull ==
  ASSUME Core, NEW p \in Pullers,
         \/ \E r \in Recipients, c \in Cursors, l \in 1..PullBatchMax, t \in 0..now :
              PullStart(p, r, c, l, t)
         \/ \E edge \in Edges : PullRead(p, edge)
         \/ PullNext(p) \/ PullLoopEnds(p) \/ PullAnswer(p)
  PROVE  Core'
<1> USE DEF Core
<1>1. ASSUME NEW page \in Pages, pulls' = [pulls EXCEPT ![p] = page],
             page.pc = "scan" => InHand(page),
             UNCHANGED <<trees, calls, gc, now, disk, crashes, history>>
      PROVE  Core'
  <2>1. pulls \in [Pullers -> Pages]
    BY DEF TypeOK
  <2>2. \A q \in Pullers : pulls'[q] = IF q = p THEN page ELSE pulls[q]
    BY <1>1, <2>1
  <2>3. pulls' \in [Pullers -> Pages]
    BY <1>1, <2>1
  <2>4. TypeOK'
    BY <1>1, <2>3 DEF TypeOK, trees, history
  <2>5. ScansInHand'
    BY <1>1, <2>2 DEF ScansInHand
  <2> QED
    BY <1>1, <2>4, <2>5, CoreApart DEF trees
<1>2. ASSUME NEW r \in Recipients, NEW c \in Cursors, NEW l \in 1..PullBatchMax, NEW t \in 0..now,
             PullStart(p, r, c, l, t)
      PROVE  Core'
  <2> DEFINE start == IF c = None THEN None ELSE c.seq
             must == Live(messages[r], c, t)
             page == [pc |-> "scan", to |-> r, limit |-> l, t |-> t,
                      start |-> start, edge |-> None, leaf |-> {},
                      items |-> {}, next |-> None, must |-> must]
  <2>1. start \in Nat \cup {None}
    BY BoundsAssumption DEF Cursors
  <2>2. must \in SUBSET Message
    BY DEF Live, Beyond, TypeOK
  <2>3. l \in Nat /\ t \in Nat
    BY LimitsAssumption DEF TypeOK
  <2> HIDE DEF start, must
  <2>4. page \in Pages
    BY <2>1, <2>2, <2>3 DEF Pages
  <2>5. pulls' = [pulls EXCEPT ![p] = page]
    BY <1>2 DEF PullStart, start, must
  <2> QED
    BY <1>1, <1>2, <2>4, <2>5, FS_EmptySet DEF PullStart, InHand
<1>3. ASSUME NEW edge \in Edges, PullRead(p, edge)
      PROVE  Core'
  <2> DEFINE leaf == {m \in Unread(p) : m.seq <= edge}
             page == [pulls[p] EXCEPT !.leaf = leaf, !.edge = edge]
  <2>1. pulls[p] \in PullRecords /\ pulls[p].pc = "scan" /\ IsFiniteSet(pulls[p].items)
    BY <1>3, ReadingType DEF PullRead, ScansInHand, InHand
  <2>2. leaf \in SUBSET messages[pulls[p].to] /\ edge \in Nat
    BY BoundsAssumption DEF Unread, Edges
  <2>3. messages[pulls[p].to] \in SUBSET Message /\ IsFiniteSet(messages[pulls[p].to])
    BY <2>1 DEF PullRecords, TypeOK, QueuesFinite
  <2>4. pulls' = [pulls EXCEPT ![p] = page]
    BY <1>3 DEF PullRead
  <2> HIDE DEF leaf
  <2>5. leaf \in SUBSET Message /\ IsFiniteSet(leaf)
    BY <2>2, <2>3, FS_Subset
  <2>6. \A m, n \in leaf : m.seq = n.seq => m = n
    BY <2>1, <2>2 DEF SeqFresh, PullRecords
  <2>7. page \in PullRecords /\ InHand(page)
    BY <2>1, <2>2, <2>5, <2>6 DEF PullRecords, InHand
  <2> HIDE DEF page
  <2>8. page \in Pages
    BY <2>7 DEF PullRecords, Pages
  <2> QED
    BY <1>1, <1>3, <2>4, <2>7, <2>8 DEF PullRead
<1>4. CASE PullNext(p)
  <2> DEFINE m == FirstOf(pulls[p].leaf)
             page == pulls[p]
             rest == page.leaf \ {m}
  <2>1. page \in PullRecords /\ page.pc = "scan" /\ InHand(page)
    BY <1>4, ReadingType DEF PullNext, ScansInHand
  <2>2. m \in Message
    BY <1>4, FirstCopied DEF PullNext
  <2>3. LastSeq(page.items) \in Nat \cup {None}
    BY <2>1, LastSeqType DEF PullRecords, InHand
  <2>4. IsFiniteSet(page.items \cup {m}) /\ IsFiniteSet(rest) /\ rest \in SUBSET page.leaf
    BY <2>1, FS_AddElement, FS_Subset DEF InHand
  <2> DEFINE new == IF PassedOver(page, m) THEN [page EXCEPT !.leaf = rest]
                    ELSE IF Cardinality(page.items) < page.limit
                      THEN [page EXCEPT !.leaf = rest, !.items = @ \cup {m}]
                      ELSE [page EXCEPT !.pc = "done", !.leaf = {}, !.next = LastSeq(page.items)]
  <2>5. pulls' = [pulls EXCEPT ![p] = new]
    BY <1>4 DEF PullNext
  <2> HIDE DEF m, page, rest
  <2>6. new \in PullRecords /\ (new.pc = "scan" => InHand(new))
    BY <2>1, <2>2, <2>3, <2>4 DEF PullRecords, InHand
  <2> HIDE DEF new
  <2>7. new \in Pages
    BY <2>6 DEF PullRecords, Pages
  <2> QED
    BY <1>1, <1>4, <2>5, <2>6, <2>7 DEF PullNext
<1>5. CASE PullLoopEnds(p)
  <2>1. pulls[p] \in PullRecords
    BY <1>5, ReadingType DEF PullLoopEnds
  <2>2. [pulls[p] EXCEPT !.pc = "done"] \in Pages
    BY <2>1 DEF PullRecords, Pages
  <2>3. [pulls[p] EXCEPT !.pc = "done"].pc # "scan"
    BY <2>1 DEF PullRecords
  <2>4. pulls' = [pulls EXCEPT ![p] = [pulls[p] EXCEPT !.pc = "done"]]
    BY <1>5 DEF PullLoopEnds
  <2> QED
    BY <1>1, <1>5, <2>2, <2>3, <2>4 DEF PullLoopEnds
<1>6. CASE PullAnswer(p)
  BY <1>1, <1>6 DEF PullAnswer, PullIdle, Pages
<1> QED
  BY <1>2, <1>3, <1>4, <1>5, <1>6

LEMMA CoreLog ==
  ASSUME Core,
         \/ Persist \/ GcFlush
         \/ \E c \in Callers : Answer(c) \/ Drop(c)
  PROVE  Core'
<1> USE DEF Core
<1>1. CASE Persist
  <2>1. TypeOK'
    BY <1>1, SnapshotFields DEF Persist, TypeOK, trees, history
  <2> QED
    BY <1>1, <2>1, CoreWritten DEF Persist, trees
<1>2. CASE GcFlush
  <2>1. TypeOK'
    BY <1>2, SnapshotFields DEF GcFlush, TypeOK, trees, history, GcIdle, Purges
  <2> QED
    BY <1>2, <2>1, CoreWritten DEF GcFlush, trees
<1>3. ASSUME NEW c \in Callers, Answer(c)
      PROVE  Core'
  <2>1. calls[c].ids \in SUBSET Arrivals
    BY DEF TypeOK
  <2>2. accepted' \in SUBSET Arrivals /\ acked' \in SUBSET Arrivals
    BY <1>3, <2>1 DEF Answer, TypeOK
  <2>3. calls' \in [Callers -> [op : {"none", "push", "ack"}, ids : SUBSET Arrivals]]
    BY <1>3 DEF Answer, TypeOK, Idle
  <2>4. TypeOK'
    BY <1>3, <2>2, <2>3, SnapshotFields DEF Answer, TypeOK, trees
  <2> QED
    BY <1>3, <2>4, CoreWritten DEF Answer, trees
<1>4. ASSUME NEW c \in Callers, Drop(c)
      PROVE  Core'
  <2>1. TypeOK'
    BY <1>4 DEF Drop, TypeOK, trees, history, Idle
  <2> QED
    BY <1>4, <2>1, CoreApart DEF Drop, trees, ScansInHand
<1> QED
  BY <1>1, <1>2, <1>3, <1>4

\* Steps of the collector that write neither the messages nor the log.
LEMMA CoreQuiet ==
  ASSUME Core, UNCHANGED <<messages, seq, disk, pulls>>, TypeOK', HeldMessage',
         gc'.pc = "idle" \/ (gc.pc # "idle" /\ gc'.leaf \subseteq gc.leaf) \/ HeldCopies'
  PROVE  Core'
<1>1. HeldCopies'
  <2>1. ASSUME gc.pc # "idle", gc'.leaf \subseteq gc.leaf
        PROVE  HeldCopies'
    <3>1. \A r \in Recipients : Copies(r)' \in SUBSET Copies(r)
      BY <2>1 DEF Copies
    <3>2. \A r \in Recipients : IsFiniteSet(Copies(r)')
      BY <2>1, <3>1, FS_Subset DEF Core, HeldCopies
    <3> QED
      BY <2>1, <3>1, <3>2 DEF Core, HeldCopies
  <2> QED
    BY <2>1 DEF HeldCopies
<1> QED
  BY <1>1 DEF Core, QueuesFinite, ScansInHand, SeqFresh, DiskFresh

LEMMA CoreCollector ==
  ASSUME Core, Collector \/ GcFails
  PROVE  Core'
<1> USE DEF Core
<1>1. ASSUME NEW t \in 0..now, GcStart(t)
      PROVE  Core'
  <2>1. t \in Nat
    BY DEF TypeOK
  <2>2. gc' \in Purges /\ gc'.pc = "next"
    BY <1>1, <2>1 DEF GcStart, Purges
  <2>3. TypeOK' /\ HeldMessage'
    BY <1>1, <2>2 DEF GcStart, TypeOK, trees, history, HeldMessage
  <2>4. HeldCopies'
    <3>1. \A r \in Recipients : Copies(r)' = {}
      BY <1>1 DEF GcStart, Copies
    <3> QED
      BY <3>1, FS_EmptySet DEF HeldCopies
  <2> QED
    BY <1>1, <2>3, <2>4, CoreQuiet DEF GcStart, trees
<1>2. CASE GcNext
  <2> DEFINE e == First(gc.leaf)
  <2>1. gc.pc = "next" /\ gc \in Running /\ e \in gc.leaf
    BY <1>2, FirstHeld, RunningType DEF GcNext
  <2>2. /\ gc' = IF Expired(e[2], gc.t)
                   THEN [gc EXCEPT !.pc = "fetched", !.leaf = @ \ {e},
                                   !.at = <<e[1], e[2].seq>>, !.msg = e[2]]
                   ELSE [gc EXCEPT !.leaf = @ \ {e}]
        /\ UNCHANGED <<trees, calls, pulls, now, disk, crashes, history>>
    BY <1>2 DEF GcNext
  <2> HIDE DEF e
  <2>3. e[1] \in Recipients /\ e[2] \in Message /\ e[2] \in Copies(e[1])
    <3>1. e \in Recipients \X Message
      BY <2>1 DEF Running
    <3>2. <<e[1], e[2]>> = e
      BY <3>1
    <3> QED
      BY <2>1, <3>1, <3>2 DEF Copies
  <2>4. e[2].seq \in Nat /\ <<e[1], e[2].seq>> \in Arrivals
    BY <2>3 DEF Message, Arrivals
  <2>5. gc' \in Running /\ gc'.leaf \subseteq gc.leaf
    BY <2>1, <2>2, <2>3, <2>4 DEF Running
  <2>6. TypeOK'
    BY <2>2, <2>5 DEF TypeOK, trees, history, Running, Purges
  <2>7. HeldMessage'
    <3>1. CASE Expired(e[2], gc.t)
      <4>1. /\ gc'.pc = "fetched" /\ gc'.msg = e[2]
            /\ gc'.at = <<e[1], e[2].seq>> /\ gc'.at[1] = e[1] /\ gc'.at[2] = e[2].seq
        BY <2>1, <2>2, <3>1 DEF Running
      <4>2. messages' = messages /\ seq' = seq
        BY <2>2 DEF trees
      <4>3. e[2].seq < seq[e[1]] /\ \A m \in messages[e[1]] : m.seq = e[2].seq => m = e[2]
        BY <2>1, <2>3 DEF HeldCopies
      <4> QED
        BY <2>3, <2>4, <4>1, <4>2, <4>3 DEF HeldMessage
    <3>2. CASE ~Expired(e[2], gc.t)
      BY <2>1, <2>2, <3>2 DEF Running, HeldMessage
    <3> QED
      BY <3>1, <3>2
  <2> QED
    BY <2>1, <2>2, <2>5, <2>6, <2>7, CoreQuiet DEF trees
<1>3. CASE GcRemoveMessage
  <2>1. gc \in Running /\ gc.pc = "fetched" /\ gc.at \in Arrivals /\ gc.msg \in Message
    BY <1>3, RunningType DEF GcRemoveMessage, HeldMessage
  <2>2. gc.at[1] \in Recipients /\ gc.at[2] = gc.msg.seq /\ gc.msg.seq < seq[gc.at[1]]
    BY <2>1 DEF HeldMessage, Arrivals
  <2>3. \A q \in Recipients :
          messages'[q] = IF q = gc.at[1] THEN messages[q] \ {gc.msg} ELSE messages[q]
    BY <1>3 DEF GcRemoveMessage, TypeOK
  <2>4. gc' \in Running /\ gc'.pc = "unindex" /\ gc'.at = gc.at /\ gc'.msg = gc.msg
    BY <1>3, <2>1 DEF GcRemoveMessage, Running
  <2>5. TypeOK'
    <3>1. /\ messages' \in [Recipients -> SUBSET Message] /\ deleted' \in SUBSET Arrivals
          /\ quotaRaced' \in SUBSET Recipients
      BY <1>3, <2>1, <2>2 DEF GcRemoveMessage, TypeOK
    <3>2. gc' \in Purges
      BY <2>4 DEF Running, Purges
    <3> QED
      BY <1>3, <3>1, <3>2 DEF GcRemoveMessage, TypeOK
  <2>6. QueuesFinite'
    <3>1. \A q \in Recipients : messages'[q] \in SUBSET messages[q]
      BY <2>3
    <3>2. \A q \in Recipients : IsFiniteSet(messages'[q])
      BY <3>1, FS_Subset DEF QueuesFinite
    <3> QED
      BY <1>3, <3>2 DEF GcRemoveMessage, QueuesFinite
  <2>7. SeqFresh' /\ DiskFresh' /\ ScansInHand'
    BY <1>3, <2>3 DEF GcRemoveMessage, SeqFresh, DiskFresh, ScansInHand
  <2>8. HeldMessage'
    <3>1. \A m \in messages'[gc.at[1]] : m.seq # gc.msg.seq
      BY <2>1, <2>2, <2>3 DEF HeldMessage
    <3>2. seq' = seq
      BY <1>3 DEF GcRemoveMessage
    <3> QED
      BY <2>1, <2>2, <2>4, <3>1, <3>2 DEF HeldMessage
  <2>9. HeldCopies'
    <3>1. gc'.leaf = gc.leaf /\ seq' = seq /\ gc.pc # "idle"
      BY <1>3, <2>1 DEF GcRemoveMessage, Running
    <3> SUFFICES ASSUME NEW r \in Recipients
                 PROVE  /\ IsFiniteSet(Copies(r)')
                        /\ \A m \in Copies(r)' :
                             /\ m.seq < seq'[r]
                             /\ \A n \in messages'[r] \cup Copies(r)' : n.seq = m.seq => n = m
      BY DEF HeldCopies
    <3>2. Copies(r)' = Copies(r)
      BY <3>1 DEF Copies
    <3>3. /\ IsFiniteSet(Copies(r))
          /\ \A m \in Copies(r) :
               /\ m.seq < seq[r]
               /\ \A n \in messages[r] \cup Copies(r) : n.seq = m.seq => n = m
      BY <3>1 DEF HeldCopies
    <3>4. messages'[r] \in SUBSET messages[r]
      BY <2>3
    <3> QED
      BY <3>1, <3>2, <3>3, <3>4
  <2> QED
    BY <2>5, <2>6, <2>7, <2>8, <2>9
<1>4. CASE GcRemoveIndex
  <2>1. gc \in Running /\ gc.at[1] \in Recipients /\ gc.msg.key \in Keys
    BY <1>4, RunningType DEF GcRemoveIndex, HeldMessage, Arrivals, Message
  <2>2. /\ gc' \in Running /\ gc'.pc = "uncount" /\ gc'.leaf = gc.leaf
        /\ gc'.at = gc.at /\ gc'.msg = gc.msg
    BY <1>4, <2>1 DEF GcRemoveIndex, Running
  <2>3. index' \in [Recipients -> [Keys -> Nat \cup {None}]]
    BY <1>4, <2>1 DEF GcRemoveIndex, TypeOK
  <2>4. TypeOK'
    BY <1>4, <2>1, <2>2, <2>3 DEF GcRemoveIndex, TypeOK, Running, Purges
  <2>5. HeldMessage'
    BY <1>4, <2>2 DEF GcRemoveIndex, HeldMessage
  <2> QED
    BY <1>4, <2>2, <2>4, <2>5, CoreQuiet DEF GcRemoveIndex
<1>5. CASE GcCount
  <2> DEFINE r == gc.at[1]
             q == IF gc.cache[r] = None THEN quota[r] ELSE gc.cache[r]
  <2>1. gc \in Running /\ r \in Recipients /\ gc.msg \in Message
    BY <1>5, RunningType DEF GcCount, HeldMessage, Arrivals
  <2>2. q \in Quotas
    BY <2>1 DEF Running, TypeOK
  <2>3. Minus(q, {gc.msg}) \in Quotas
    <3>1. {gc.msg} \in SUBSET Message /\ IsFiniteSet({gc.msg})
      BY <2>1, FS_Singleton
    <3> HIDE DEF q, r
    <3> QED
      BY <2>2, <3>1, MinusType
  <2>4. gc' = [gc EXCEPT !.pc = "next", !.removed = @ + 1, !.at = None, !.msg = None,
                         !.cache[r] = Minus(q, {gc.msg})]
    BY <1>5 DEF GcCount
  <2> HIDE DEF q, r
  <2> DEFINE left == Minus(q, {gc.msg})
  <2> HIDE DEF left
  <2>5. gc' \in Running /\ gc'.pc = "next" /\ gc'.leaf = gc.leaf
    <3>1. gc.removed + 1 \in Nat
      BY <2>1 DEF Running
    <3>2. [gc.cache EXCEPT ![r] = left] \in [Recipients -> Quotas \cup {None}]
      BY <2>1, <2>3 DEF Running, left
    <3>3. gc' = [gc EXCEPT !.pc = "next", !.removed = gc.removed + 1, !.at = None,
                           !.msg = None, !.cache = [gc.cache EXCEPT ![r] = left]]
      BY <2>4 DEF left
    <3> QED
      BY <2>1, <3>1, <3>2, <3>3 DEF Running
  <2>6. TypeOK' /\ HeldMessage'
    BY <1>5, <2>5 DEF GcCount, TypeOK, trees, history, Running, Purges, HeldMessage
  <2> QED
    BY <1>5, <2>5, <2>6, CoreQuiet DEF GcCount, trees
<1>6. CASE GcLoopEnds
  <2>1. gc \in Running
    BY <1>6, RunningType DEF GcLoopEnds
  <2>2. gc' \in Running /\ gc'.pc = "write" /\ gc'.leaf \subseteq gc.leaf
    BY <1>6, <2>1 DEF GcLoopEnds, Running
  <2>3. TypeOK' /\ HeldMessage'
    BY <1>6, <2>2 DEF GcLoopEnds, TypeOK, trees, history, Running, Purges, HeldMessage
  <2> QED
    BY <1>6, <2>2, <2>3, CoreQuiet DEF GcLoopEnds, trees
<1>7. ASSUME NEW r \in Recipients, GcWriteQuota(r)
      PROVE  Core'
  <2>1. gc \in Running /\ gc.cache[r] \in Quotas
    BY <1>7, RunningType DEF GcWriteQuota, Cached, Running
  <2>2. gc' \in Running /\ gc'.pc = "write" /\ gc'.leaf = gc.leaf
    BY <1>7, <2>1 DEF GcWriteQuota, Running
  <2>3. quota' \in [Recipients -> Quotas]
    BY <1>7, <2>1 DEF GcWriteQuota, TypeOK
  <2>4. TypeOK' /\ HeldMessage'
    BY <1>7, <2>2, <2>3 DEF GcWriteQuota, TypeOK, history, Running, Purges, HeldMessage
  <2> QED
    BY <1>7, <2>2, <2>4, CoreQuiet DEF GcWriteQuota
<1>8. CASE GcFlush
  BY <1>8, CoreLog
<1>9. CASE GcFails
  <2>1. HalfCounted \in SUBSET Recipients /\ HalfIndexed \in SUBSET Recipients
    BY DEF HalfCounted, HalfIndexed
  <2>2. TypeOK' /\ HeldMessage'
    BY <1>9, <2>1 DEF GcFails, TypeOK, trees, GcIdle, Purges, HeldMessage
  <2> QED
    BY <1>9, <2>2, CoreQuiet DEF GcFails, trees, GcIdle
<1>10. ASSUME NEW edge \in Recipients \X Edges, GcRead(edge)
       PROVE  Core'
  <2>1. gc \in Running /\ gc.pc = "next"
    BY <1>10, RunningType DEF GcRead
  <2>2. /\ \A e \in Ahead : e \in Recipients \X Message /\ e[2] \in messages[e[1]]
        /\ edge \in Arrivals
    BY BoundsAssumption DEF Ahead, TypeOK, Arrivals, Edges
  <2>3. gc' \in Running /\ gc'.pc = "next" /\ gc'.leaf \subseteq Ahead
    BY <1>10, <2>1, <2>2 DEF GcRead, Running
  <2>4. TypeOK' /\ HeldMessage'
    BY <1>10, <2>3 DEF GcRead, TypeOK, trees, history, Running, Purges, HeldMessage
  <2>5. HeldCopies'
    <3>1. ASSUME NEW r \in Recipients
          PROVE  Copies(r)' \in SUBSET messages[r] /\ IsFiniteSet(Copies(r)')
      <4>1. Copies(r)' \in SUBSET messages[r]
        BY <2>2, <2>3 DEF Copies
      <4> QED
        BY <4>1, FS_Subset DEF QueuesFinite
    <3>2. messages' = messages /\ seq' = seq
      BY <1>10 DEF GcRead, trees
    <3> QED
      BY <3>1, <3>2 DEF HeldCopies, SeqFresh
  <2> QED
    BY <1>10, <2>4, <2>5, CoreQuiet DEF GcRead, trees
<1> QED
  BY <1>1, <1>2, <1>3, <1>4, <1>5, <1>6, <1>7, <1>8, <1>9, <1>10 DEF Collector, GcStep

LEMMA CoreStep ==
  ASSUME Core, [Next]_vars
  PROVE  Core'
<1>1. CASE Tick
  <2>1. TypeOK'
    BY <1>1 DEF Core, Tick, TypeOK, trees, history
  <2> QED
    BY <1>1, <2>1, CoreApart DEF Core, Tick, trees, ScansInHand
<1>2. CASE Request
  BY <1>2, CorePush, CoreAck DEF Request
<1>3. CASE \E c \in Callers : Answer(c) \/ Drop(c)
  BY <1>3, CoreLog
<1>4. CASE Puller
  BY <1>4, CorePull DEF Puller
<1>5. CASE Collector \/ GcFails
  BY <1>5, CoreCollector
<1>6. CASE Persist
  BY <1>6, CoreLog
<1>7. CASE Crash
  BY <1>7, CoreCrash
<1>8. CASE UNCHANGED vars
  <2>1. TypeOK'
    BY <1>8 DEF Core, TypeOK, vars, trees, history
  <2> QED
    BY <1>8, <2>1, CoreApart DEF Core, vars, trees, ScansInHand
<1> QED
  BY <1>1, <1>2, <1>3, <1>4, <1>5, <1>6, <1>7, <1>8 DEF Next

\* Every variable has its type.
THEOREM SledStoreTypeOK == Spec => []TypeOK
<1>1. Core => TypeOK
  BY DEF Core
<1> QED
  BY <1>1, CoreInit, CoreStep, PTL DEF Spec

\* No two messages of a recipient share an arrival_seq, and none is at or above
\* the counter, however many crashes lose however much of the log.
THEOREM SeqFreshHolds == Spec => []SeqFresh
<1>1. Core => SeqFresh
  BY DEF Core
<1> QED
  BY <1>1, CoreInit, CoreStep, PTL DEF Spec

-----------------------------------------------------------------------------
(***************************************************************************)
(* Durability.                                                             *)
(***************************************************************************)

\* Steps of the pulls, of the clock, and most of the collector's.
LEMMA DurableApart ==
  ASSUME Durable, UNCHANGED <<messages, index, seq, disk, accepted, acked, deleted>>,
         \A c \in Callers : calls'[c] \in {calls[c], Idle}
  PROVE  Durable'
<1>1. AcceptedSurvives' /\ AckedStaysGone' /\ ConfirmedIsCounted' /\ IndexIsKnown'
  BY DEF Durable, AcceptedSurvives, AckedStaysGone, ConfirmedIsCounted, IndexIsKnown,
         Known, KnownOnDisk
<1>2. CallsAreKnown'
  BY DEF Durable, CallsAreKnown, Known, Idle
<1> QED
  BY <1>1, <1>2 DEF Durable

\* Steps that bring the log up to date, P and A being what a call confirms then.
LEMMA DurableWritten ==
  ASSUME Core, Durable, UNCHANGED <<messages, index, seq, deleted>>, disk' = Snapshot,
         \A c \in Callers : calls'[c] \in {calls[c], Idle},
         NEW P \in SUBSET Arrivals, \A a \in P : Known(a),
         NEW A \in SUBSET Arrivals,
         \A a \in A : a[2] < seq[a[1]] /\ \A m \in messages[a[1]] : m.seq # a[2],
         accepted' = accepted \cup P, acked' = acked \cup A
  PROVE  Durable'
<1>1. disk'.messages = messages /\ disk'.index = index /\ disk'.seq = seq
  BY SnapshotFields DEF Core
<1>2. AcceptedSurvives'
  <2>1. \A a \in P \ deleted : \E m \in messages[a[1]] : m.seq = a[2]
    BY DEF Known
  <2>2. \A a \in accepted \ deleted : \E m \in messages[a[1]] : m.seq = a[2]
    BY DEF Durable, AcceptedSurvives
  <2> QED
    BY <1>1, <2>1, <2>2 DEF AcceptedSurvives
<1>3. AckedStaysGone'
  BY <1>1 DEF Durable, AckedStaysGone
<1>4. ConfirmedIsCounted'
  <2>1. ASSUME NEW a \in accepted \cup acked
        PROVE  a[2] < seq[a[1]]
    <3>1. a \in Arrivals
      BY DEF Core, TypeOK
    <3>2. a[1] \in Recipients /\ a[2] \in Nat
      BY <3>1 DEF Arrivals
    <3>3. a[2] < disk.seq[a[1]]
      BY DEF Durable, ConfirmedIsCounted
    <3>4. disk.seq[a[1]] <= seq[a[1]] /\ disk.seq[a[1]] \in Nat /\ seq[a[1]] \in Nat
      BY <3>2 DEF Core, DiskFresh, TypeOK
    <3> QED
      BY <3>2, <3>3, <3>4
  <2>2. \A a \in P : a[2] < seq[a[1]]
    BY DEF Known
  <2> QED
    BY <1>1, <2>1, <2>2 DEF ConfirmedIsCounted
<1>5. IndexIsKnown'
  BY <1>1 DEF Durable, IndexIsKnown, Known, KnownOnDisk
<1>6. CallsAreKnown'
  BY DEF Durable, CallsAreKnown, Known, Idle
<1> QED
  BY <1>2, <1>3, <1>4, <1>5, <1>6 DEF Durable

LEMMA DurableInit ==
  ASSUME Init
  PROVE  Durable
<1>1. \A a \in Arrivals, k \in Keys : index[a[1]][k] = None /\ disk.index[a[1]][k] = None
  BY DEF Init, Arrivals
<1>2. IndexIsKnown
  BY <1>1, NoneAssumption DEF IndexIsKnown, Arrivals
<1> QED
  BY <1>2 DEF Init, Durable, AcceptedSurvives, AckedStaysGone, ConfirmedIsCounted,
              CallsAreKnown, Idle

\* A push takes an arrival_seq that no client was ever told of.
LEMMA DurablePush ==
  ASSUME Core, Durable,
         NEW c \in Callers, NEW r \in Recipients, NEW k \in Keys,
         NEW b \in 0..MaxMessageBytes, NEW t \in 0..now, Push(c, r, k, b, t)
  PROVE  Durable'
<1>1. CASE PushDuplicate(c, r, k)
  <2>1. PICK a \in Arrivals : a = <<r, index[r][k]>>
    <3>1. index[r][k] \in Nat
      BY <1>1 DEF PushDuplicate, Core, TypeOK
    <3> QED
      BY <3>1 DEF Arrivals
  <2>2. Known(a)
    BY <2>1 DEF Durable, IndexIsKnown
  <2>3. UNCHANGED <<messages, index, seq, disk, accepted, acked, deleted>>
    BY <1>1 DEF Push, PushDuplicate, trees, history
  <2>4. \A x \in Callers : calls'[x] = IF x = c THEN [op |-> "push", ids |-> {a}] ELSE calls[x]
    BY <1>1, <2>1 DEF PushDuplicate, Core, TypeOK
  <2>5. CallsAreKnown'
    BY <2>2, <2>3, <2>4 DEF Durable, CallsAreKnown, Known
  <2> QED
    BY <2>3, <2>5 DEF Durable, AcceptedSurvives, AckedStaysGone, ConfirmedIsCounted,
                      IndexIsKnown, Known, KnownOnDisk
<1>2. CASE PushStored(c, r, k, b, t)
  <2>1. PICK new \in Arrivals : new = <<r, seq[r]>>
    BY DEF Core, TypeOK, Arrivals
  <2>2. PICK m : m = NewMessage(k, b, t, seq[r])
    OBVIOUS
  <2>3. new[1] = r /\ new[2] = seq[r] /\ m.seq = seq[r]
    BY <2>1, <2>2 DEF NewMessage
  <2>4. /\ messages' = [messages EXCEPT ![r] = @ \cup {m}]
        /\ index' = [index EXCEPT ![r][k] = seq[r]]
        /\ seq' = [seq EXCEPT ![r] = @ + 1]
        /\ calls' = [calls EXCEPT ![c] = [op |-> "push", ids |-> {new}]]
        /\ deleted' = deleted \ {new}
        /\ UNCHANGED <<disk, accepted, acked>>
    BY <1>2, <2>1, <2>2 DEF Push, PushStored
  <2>5. \A q \in Recipients :
          /\ messages'[q] = IF q = r THEN messages[q] \cup {m} ELSE messages[q]
          /\ seq'[q] = IF q = r THEN seq[q] + 1 ELSE seq[q]
          /\ seq[q] \in Nat /\ disk.seq[q] \in Nat /\ disk.seq[q] <= seq[q]
    BY <2>4 DEF Core, TypeOK, DiskFresh
  <2>6. \A a \in Arrivals : a[1] \in Recipients /\ a[2] \in Nat /\ a = <<a[1], a[2]>>
    BY DEF Arrivals
  <2>7. ASSUME NEW a \in Arrivals, a[2] < seq[a[1]]
        PROVE  a # new /\ a[2] < seq'[a[1]] /\ (a[1] = r => a[2] # m.seq)
    <3>1. a[1] \in Recipients /\ a[2] \in Nat /\ seq[a[1]] \in Nat
      BY <2>5, <2>6
    <3>2. a[1] = r => a[2] # seq[r]
      BY <2>7, <3>1
    <3>3. a # new /\ (a[1] = r => a[2] # m.seq)
      BY <2>3, <3>2
    <3>4. seq'[a[1]] = seq[a[1]] \/ seq'[a[1]] = seq[a[1]] + 1
      BY <2>5, <3>1
    <3> QED
      BY <2>7, <3>1, <3>3, <3>4
  <2>8. ASSUME NEW a \in Arrivals, a[2] < disk.seq[a[1]]
        PROVE  a[2] < seq[a[1]]
    <3>1. disk.seq[a[1]] \in Nat /\ seq[a[1]] \in Nat /\ a[2] \in Nat /\ disk.seq[a[1]] <= seq[a[1]]
      BY <2>5, <2>6
    <3> QED
      BY <2>8, <3>1
  <2>9. \A a \in accepted \cup acked : a \in Arrivals /\ a[2] < seq[a[1]]
    BY <2>8 DEF Core, TypeOK, Durable, ConfirmedIsCounted
  <2>10. AcceptedSurvives'
    <3>1. \A a \in accepted : a # new
      BY <2>7, <2>9
    <3> QED
      BY <2>4, <2>5, <2>6, <2>9, <3>1 DEF Durable, AcceptedSurvives
  <2>11. AckedStaysGone'
    <3>1. \A a \in acked : a[1] = r => m.seq # a[2]
      BY <2>7, <2>9
    <3> QED
      BY <2>4, <2>5, <2>6, <2>9, <3>1 DEF Durable, AckedStaysGone
  <2>12. ConfirmedIsCounted'
    BY <2>4 DEF Durable, ConfirmedIsCounted
  <2>13. ASSUME NEW a \in Arrivals, Known(a)
         PROVE  Known(a)'
    BY <2>4, <2>5, <2>6, <2>7, <2>13 DEF Known
  <2>14. Known(new)'
    <3>1. seq'[r] = seq[r] + 1 /\ seq[r] \in Nat /\ m \in messages'[r]
      BY <2>5
    <3>2. new[2] < seq'[new[1]]
      BY <2>3, <3>1
    <3> QED
      BY <2>3, <3>1, <3>2 DEF Known
  <2>15. ASSUME NEW a \in Arrivals, KnownOnDisk(a)
         PROVE  KnownOnDisk(a)'
    BY <2>4, <2>7, <2>8, <2>15 DEF KnownOnDisk
  <2>16. IndexIsKnown'
    <3> SUFFICES ASSUME NEW a \in Arrivals, NEW j \in Keys
                 PROVE  /\ index'[a[1]][j] = a[2] => Known(a)'
                        /\ disk'.index[a[1]][j] = a[2] => KnownOnDisk(a)'
      BY DEF IndexIsKnown
    <3>1. index'[a[1]][j] = IF a[1] = r /\ j = k THEN seq[r] ELSE index[a[1]][j]
      BY <2>4, <2>6 DEF Core, TypeOK
    <3>2. a[1] = r /\ a[2] = seq[r] => a = new
      BY <2>1, <2>6
    <3>3. index[a[1]][j] = a[2] => Known(a)
      BY DEF Durable, IndexIsKnown
    <3>4. disk'.index[a[1]][j] = a[2] => KnownOnDisk(a)
      BY <2>4 DEF Durable, IndexIsKnown
    <3> QED
      BY <2>13, <2>14, <2>15, <3>1, <3>2, <3>3, <3>4
  <2>17. CallsAreKnown'
    <3> SUFFICES ASSUME NEW x \in Callers, NEW a \in calls'[x].ids
                 PROVE  /\ a[2] < seq'[a[1]]
                        /\ calls'[x].op = "push" => Known(a)'
                        /\ calls'[x].op = "ack" => \A n \in messages'[a[1]] : n.seq # a[2]
      BY DEF CallsAreKnown
    <3>1. calls'[x] = IF x = c THEN [op |-> "push", ids |-> {new}] ELSE calls[x]
      BY <2>4 DEF Core, TypeOK
    <3>2. CASE x = c
      <4>1. a = new /\ calls'[x].op = "push"
        BY <3>1, <3>2
      <4> QED
        BY <2>14, <4>1 DEF Known
    <3>3. CASE x # c
      <4>1. a \in Arrivals /\ a \in calls[x].ids /\ calls'[x] = calls[x]
        BY <3>1, <3>3 DEF Core, TypeOK
      <4>2. /\ a[2] < seq[a[1]]
            /\ calls[x].op = "push" => Known(a)
            /\ calls[x].op = "ack" => \A n \in messages[a[1]] : n.seq # a[2]
        BY <4>1 DEF Durable, CallsAreKnown
      <4>3. a # new /\ a[2] < seq'[a[1]] /\ (a[1] = r => a[2] # m.seq)
        BY <2>7, <4>1, <4>2
      <4>4. calls[x].op = "ack" => \A n \in messages'[a[1]] : n.seq # a[2]
        BY <2>5, <2>6, <4>1, <4>2, <4>3
      <4> QED
        BY <2>13, <4>1, <4>2, <4>3, <4>4
    <3> QED
      BY <3>2, <3>3
  <2> QED
    BY <2>10, <2>11, <2>12, <2>16, <2>17 DEF Durable
<1> QED
  BY <1>1, <1>2 DEF Push

\* Deleting messages, which the history records, forgets nothing.
LEMMA DurableDelete ==
  ASSUME Core, Durable, NEW r \in Recipients, NEW gone \in SUBSET messages[r],
         \A q \in Recipients : messages'[q] = IF q = r THEN messages[q] \ gone ELSE messages[q],
         Ids(r, gone) \subseteq deleted', deleted \subseteq deleted',
         index' \in [Recipients -> [Keys -> Nat \cup {None}]],
         \A q \in Recipients, k \in Keys : index'[q][k] \in {index[q][k], None},
         UNCHANGED <<seq, disk, accepted, acked>>,
         \A c \in Callers : calls'[c] = calls[c] \/ calls'[c] = [op |-> "ack", ids |-> Ids(r, gone)]
  PROVE  Durable'
<1>1. \A q \in Recipients : messages'[q] = IF q = r THEN messages[q] \ gone ELSE messages[q]
  OBVIOUS
<1>2. \A a \in Arrivals : a[1] \in Recipients /\ a[2] \in Nat /\ a = <<a[1], a[2]>>
  BY DEF Arrivals
<1>3. accepted \in SUBSET Arrivals /\ acked \in SUBSET Arrivals
  BY DEF Core, TypeOK
<1>4. \A m \in gone : <<r, m.seq>> \in Ids(r, gone)
  BY DEF Ids
<1>5. AcceptedSurvives'
  <2> SUFFICES ASSUME NEW a \in accepted, a \notin deleted'
               PROVE  /\ \E m \in messages'[a[1]] : m.seq = a[2]
                      /\ \E m \in disk'.messages[a[1]] : m.seq = a[2]
    BY DEF AcceptedSurvives
  <2>1. PICK m \in messages[a[1]] : m.seq = a[2]
    BY DEF Durable, AcceptedSurvives
  <2>2. a[1] = r => m \notin gone
    BY <1>2, <1>3, <1>4, <2>1
  <2> QED
    BY <1>1, <1>2, <1>3, <2>1, <2>2 DEF Durable, AcceptedSurvives
<1>6. AckedStaysGone'
  <2>1. AckedStaysGone /\ acked' = acked
    BY DEF Durable
  <2>2. \A a \in Arrivals : messages'[a[1]] \subseteq messages[a[1]]
    BY <1>1, <1>2
  <2> QED
    BY <1>3, <2>1, <2>2 DEF AckedStaysGone
<1>7. ConfirmedIsCounted'
  BY DEF Durable, ConfirmedIsCounted
<1>8. ASSUME NEW a \in Arrivals, Known(a)
      PROVE  Known(a)'
  <2>1. CASE a \in deleted
    BY <1>8, <2>1 DEF Known
  <2>2. CASE a \notin deleted
    <3>1. PICK m \in messages[a[1]] : m.seq = a[2]
      BY <1>8, <2>2 DEF Known
    <3>2. a[1] = r /\ m \in gone => a \in deleted'
      BY <1>2, <1>4, <3>1
    <3>3. ~(a[1] = r /\ m \in gone) => m \in messages'[a[1]]
      BY <1>1, <1>2, <3>1
    <3> QED
      BY <1>8, <3>1, <3>2, <3>3 DEF Known
  <2> QED
    BY <2>1, <2>2
<1>9. IndexIsKnown'
  <2> SUFFICES ASSUME NEW a \in Arrivals, NEW k \in Keys
               PROVE  /\ index'[a[1]][k] = a[2] => Known(a)'
                      /\ disk'.index[a[1]][k] = a[2] => KnownOnDisk(a)'
    BY DEF IndexIsKnown
  <2>1. index'[a[1]][k] = a[2] => index[a[1]][k] = a[2]
    BY <1>2, NoneAssumption
  <2>2. index[a[1]][k] = a[2] => Known(a)
    BY DEF Durable, IndexIsKnown
  <2>3. disk'.index[a[1]][k] = a[2] => KnownOnDisk(a)
    BY DEF Durable, IndexIsKnown
  <2>4. KnownOnDisk(a) => KnownOnDisk(a)'
    BY DEF KnownOnDisk
  <2> QED
    BY <1>8, <2>1, <2>2, <2>3, <2>4
<1>10. CallsAreKnown'
  <2> SUFFICES ASSUME NEW x \in Callers, NEW a \in calls'[x].ids
               PROVE  /\ a[2] < seq'[a[1]]
                      /\ calls'[x].op = "push" => Known(a)'
                      /\ calls'[x].op = "ack" => \A n \in messages'[a[1]] : n.seq # a[2]
    BY DEF CallsAreKnown
  <2>1. CASE calls'[x] = calls[x]
    <3>1. a \in calls[x].ids /\ a \in Arrivals /\ a[1] \in Recipients
      BY <1>2, <2>1 DEF Core, TypeOK
    <3>2. /\ a[2] < seq[a[1]]
          /\ calls[x].op = "push" => Known(a)
          /\ calls[x].op = "ack" => \A n \in messages[a[1]] : n.seq # a[2]
      BY <3>1 DEF Durable, CallsAreKnown
    <3>3. messages'[a[1]] \subseteq messages[a[1]]
      BY <1>1, <3>1
    <3> QED
      BY <1>8, <2>1, <3>1, <3>2, <3>3
  <2>2. CASE calls'[x] = [op |-> "ack", ids |-> Ids(r, gone)]
    <3>1. PICK m \in gone : a = <<r, m.seq>>
      BY <2>2 DEF Ids
    <3>2. m \in messages[r]
      OBVIOUS
    <3>3. m.seq < seq[r] /\ \A n \in messages[r] : n.seq = m.seq => n = m
      BY <3>2 DEF Core, SeqFresh
    <3>4. a[1] = r /\ a[2] = m.seq /\ calls'[x].op = "ack"
      BY <2>2, <3>1
    <3>5. \A n \in messages'[r] : n \in messages[r] /\ n # m
      BY <1>1
    <3>6. \A n \in messages'[r] : n.seq # m.seq
      BY <3>3, <3>5
    <3> QED
      BY <3>3, <3>4, <3>6
  <2> QED
    BY <2>1, <2>2
<1> QED
  BY <1>5, <1>6, <1>7, <1>9, <1>10 DEF Durable

\* A crash brings back what the disk has: no confirmed deletion is undone, and an
\* unconfirmed one that is undone leaves the message as it was.
LEMMA DurableCrash ==
  ASSUME Core, Durable, Crash
  PROVE  Durable'
<1> DEFINE back == UNION {Ids(r, disk.messages[r]) : r \in Recipients}
<1>1. /\ messages' = disk.messages /\ index' = disk.index /\ seq' = disk.seq
      /\ calls' = [c \in Callers |-> Idle]
      /\ deleted' = deleted \ back
      /\ UNCHANGED <<disk, accepted, acked>>
  BY DEF Crash
<1>2. \A a \in Arrivals : a \in back => \E m \in disk.messages[a[1]] : m.seq = a[2]
  BY DEF Ids, Arrivals
<1> HIDE DEF back
<1>3. accepted \in SUBSET Arrivals
  BY DEF Core, TypeOK
<1>4. AcceptedSurvives'
  BY <1>1, <1>2, <1>3 DEF Durable, AcceptedSurvives
<1>5. AckedStaysGone' /\ ConfirmedIsCounted' /\ CallsAreKnown'
  BY <1>1 DEF Durable, AckedStaysGone, ConfirmedIsCounted, CallsAreKnown, Idle
<1>6. ASSUME NEW a \in Arrivals, KnownOnDisk(a)
      PROVE  Known(a)' /\ KnownOnDisk(a)'
  BY <1>1, <1>2, <1>6 DEF Known, KnownOnDisk
<1>7. IndexIsKnown'
  BY <1>1, <1>6 DEF Durable, IndexIsKnown
<1> QED
  BY <1>4, <1>5, <1>7 DEF Durable

LEMMA DurableStep ==
  ASSUME Core, Durable, [Next]_vars
  PROVE  Durable'
<1>1. CASE Tick \/ Puller \/ UNCHANGED vars
  <2>1. UNCHANGED <<messages, index, seq, disk, accepted, acked, deleted, calls>>
    <3>1. CASE Tick \/ UNCHANGED vars
      BY <3>1 DEF Tick, vars, trees, history
    <3>2. CASE Puller
      BY <3>2 DEF Puller, PullStart, PullRead, PullNext, PullLoopEnds, PullAnswer, trees, history
    <3> QED
      BY <1>1, <3>1, <3>2
  <2> QED
    BY <2>1, DurableApart
<1>2. CASE Request
  <2>1. ASSUME NEW c \in Callers, NEW r \in Recipients, NEW K \in SUBSET Keys, Ack(c, r, K)
        PROVE  Durable'
    <3> DEFINE hit == {k \in K : index[r][k] # None}
               gone == {m \in messages[r] : m.key \in hit /\ index[r][m.key] = m.seq}
    <3>1. gone \in SUBSET messages[r]
      OBVIOUS
    <3>2. /\ messages' = [messages EXCEPT ![r] = @ \ gone]
          /\ index' = [index EXCEPT ![r] = [k \in Keys |-> IF k \in hit THEN None ELSE @[k]]]
          /\ calls' = [calls EXCEPT ![c] = [op |-> "ack", ids |-> Ids(r, gone)]]
          /\ deleted' = deleted \cup Ids(r, gone)
          /\ UNCHANGED <<seq, disk, accepted, acked>>
      BY <2>1 DEF Ack
    <3> HIDE DEF gone, hit
    <3>5. \A q \in Recipients : messages'[q] = IF q = r THEN messages[q] \ gone ELSE messages[q]
      BY <3>2 DEF Core, TypeOK
    <3>3. /\ index' \in [Recipients -> [Keys -> Nat \cup {None}]]
          /\ \A q \in Recipients, k \in Keys : index'[q][k] \in {index[q][k], None}
      BY <3>2 DEF Core, TypeOK
    <3>4. \A x \in Callers : calls'[x] = calls[x] \/ calls'[x] = [op |-> "ack", ids |-> Ids(r, gone)]
      BY <3>2 DEF Core, TypeOK
    <3> QED
      BY <3>1, <3>2, <3>3, <3>4, <3>5, DurableDelete
  <2> QED
    BY <1>2, <2>1, DurablePush DEF Request
<1>3. CASE Persist \/ GcFlush
  <2>1. accepted' = accepted \cup {} /\ acked' = acked \cup {}
    BY <1>3 DEF Persist, GcFlush, history
  <2> QED
    BY <1>3, <2>1, DurableWritten DEF Persist, GcFlush, trees, history
<1>4. ASSUME NEW c \in Callers, Answer(c)
      PROVE  Durable'
  <2> DEFINE P == IF calls[c].op = "push" THEN calls[c].ids ELSE {}
             A == IF calls[c].op = "ack" THEN calls[c].ids ELSE {}
  <2>1. P \in SUBSET Arrivals /\ A \in SUBSET Arrivals
    BY DEF Core, TypeOK
  <2>2. /\ \A a \in P : Known(a)
        /\ \A a \in A : a[2] < seq[a[1]] /\ \A m \in messages[a[1]] : m.seq # a[2]
    BY DEF Durable, CallsAreKnown
  <2>3. accepted' = accepted \cup P /\ acked' = acked \cup A
    BY <1>4 DEF Answer
  <2> HIDE DEF P, A
  <2>4. \A x \in Callers : calls'[x] \in {calls[x], Idle}
    BY <1>4 DEF Answer, Core, TypeOK
  <2> QED
    BY <1>4, <2>1, <2>2, <2>3, <2>4, DurableWritten DEF Answer, trees
<1>5. ASSUME NEW c \in Callers, Drop(c)
      PROVE  Durable'
  <2>1. \A x \in Callers : calls'[x] \in {calls[x], Idle}
    BY <1>5 DEF Drop, Core, TypeOK
  <2> QED
    BY <1>5, <2>1, DurableApart DEF Drop, trees, history
<1>6. CASE GcRemoveMessage
  <2> DEFINE r == gc.at[1]
             gone == {gc.msg} \cap messages[r]
  <2>1. gc.at \in Arrivals /\ gc.at[2] = gc.msg.seq
    BY <1>6 DEF GcRemoveMessage, Core, HeldMessage
  <2>2. r \in Recipients /\ gc.at = <<r, gc.msg.seq>>
    BY <2>1 DEF Arrivals
  <2>3. \A q \in Recipients : messages'[q] = IF q = r THEN messages[q] \ gone ELSE messages[q]
    BY <1>6, <2>2 DEF GcRemoveMessage, Core, TypeOK
  <2>4. deleted' = deleted \cup {gc.at} /\ Ids(r, gone) \subseteq {gc.at}
    BY <1>6, <2>2 DEF GcRemoveMessage, Ids
  <2>5. UNCHANGED <<index, seq, disk, accepted, acked, calls>>
    BY <1>6 DEF GcRemoveMessage
  <2>6. index \in [Recipients -> [Keys -> Nat \cup {None}]] /\ gone \in SUBSET messages[r]
    BY DEF Core, TypeOK
  <2> HIDE DEF r, gone
  <2> QED
    BY <2>2, <2>3, <2>4, <2>5, <2>6, DurableDelete
<1>7. CASE GcRemoveIndex
  <2>1. gc.at[1] \in Recipients /\ gc.msg.key \in Keys
    BY <1>7 DEF GcRemoveIndex, Core, HeldMessage, Arrivals, Message
  <2>2. /\ index' \in [Recipients -> [Keys -> Nat \cup {None}]]
        /\ \A q \in Recipients, k \in Keys : index'[q][k] \in {index[q][k], None}
    BY <1>7, <2>1 DEF GcRemoveIndex, Core, TypeOK
  <2>3. UNCHANGED <<messages, seq, disk, accepted, acked, calls, deleted>>
    BY <1>7 DEF GcRemoveIndex
  <2>4. Ids(gc.at[1], {}) = {}
    BY DEF Ids
  <2>5. \A q \in Recipients :
          messages'[q] = IF q = gc.at[1] THEN messages[q] \ {} ELSE messages[q]
    BY <2>3
  <2> QED
    BY <2>1, <2>2, <2>3, <2>4, <2>5, DurableDelete
<1>8. CASE (\E t \in 0..now : GcStart(t)) \/ GcNext \/ GcCount \/ GcLoopEnds \/ GcFails
             \/ \E r \in Recipients : GcWriteQuota(r)
             \/ \E edge \in Recipients \X Edges : GcRead(edge)
  BY <1>8, DurableApart DEF GcStart, GcRead, GcNext, GcCount, GcLoopEnds, GcFails, GcWriteQuota,
                            trees, history
<1>9. CASE Crash
  BY <1>9, DurableCrash
<1> QED
  BY <1>1, <1>2, <1>3, <1>4, <1>5, <1>6, <1>7, <1>8, <1>9 DEF Next, Collector, GcStep

LEMMA SafeHolds == Spec => [](Core /\ Durable)
BY CoreInit, CoreStep, DurableInit, DurableStep, PTL DEF Spec

\* A push is answered only when its message is on disk: what any client was told
\* is stored is still there after any number of crashes, unless an ack or the
\* collector deleted it.
THEOREM AcceptedSurvivesHolds == Spec => []AcceptedSurvives
<1>1. Core /\ Durable => AcceptedSurvives
  BY DEF Durable
<1> QED
  BY <1>1, SafeHolds, PTL

\* An acknowledged message never comes back, not even after a crash.
THEOREM AckedStaysGoneHolds == Spec => []AckedStaysGone
<1>1. Core /\ Durable => AckedStaysGone
  BY DEF Durable
<1> QED
  BY <1>1, SafeHolds, PTL

-----------------------------------------------------------------------------
(***************************************************************************)
(* The quotas.                                                             *)
(***************************************************************************)

LEMMA MeasuresRemoved ==
  ASSUME NEW q, NEW S, IsFiniteSet(S), Measures(q, S), NEW T \in SUBSET S
  PROVE  Measures(Minus(q, T), S \ T)
BY RemovedMessages DEF Measures, Minus

LEMMA MeasuresAdded ==
  ASSUME NEW q, NEW S, IsFiniteSet(S), Measures(q, S), NEW m \in Message, m \notin S
  PROVE  Measures([count |-> q.count + 1, bytes |-> q.bytes + m.bytes], S \cup {m})
BY AddedMessage DEF Measures

\* The queue and the message the collector holds are finite and disjoint.
LEMMA QueueAndHeld ==
  ASSUME Core, NEW r \in Recipients
  PROVE  /\ IsFiniteSet(messages[r] \cup Owing(r))
         /\ messages[r] \cup Owing(r) \in SUBSET Message
         /\ messages[r] \cap Owing(r) = {}
         /\ \A m \in messages[r] \cup Owing(r) : m.seq < seq[r]
<1>1. IsFiniteSet(messages[r]) /\ messages[r] \in SUBSET Message
  BY DEF Core, QueuesFinite, TypeOK
<1>2. \A m \in messages[r] : m.seq < seq[r]
  BY DEF Core, SeqFresh
<1>3. CASE gc.pc \in {"unindex", "uncount"} /\ gc.at[1] = r
  <2>1. /\ gc.msg \in Message /\ gc.msg.seq < seq[r] /\ gc.msg \notin messages[r]
        /\ Owing(r) = {gc.msg}
    BY <1>3 DEF Core, HeldMessage, Owing
  <2> QED
    BY <1>1, <1>2, <2>1, FS_AddElement
<1>4. CASE ~(gc.pc \in {"unindex", "uncount"} /\ gc.at[1] = r)
  BY <1>1, <1>2, <1>4 DEF Owing
<1> QED
  BY <1>3, <1>4

LEMMA QuotaApart ==
  ASSUME QuotaInv, UNCHANGED <<messages, quota, gc, disk, quotaRaced>>
  PROVE  QuotaInv'
BY DEF QuotaInv, CountExact, DiskQuotaExact, Counted, Owing, Cached

\* A crash restores a quota that is exact unless the collector was half way
\* through counting when the log was written.
LEMMA QuotaWritten ==
  ASSUME Core, QuotaInv, UNCHANGED <<messages, quota, quotaRaced>>, disk' = Snapshot,
         gc' = gc \/ (gc' = GcIdle /\ HalfCounted = {})
  PROVE  QuotaInv'
<1>1. /\ disk'.messages = messages /\ disk'.quota = quota
      /\ disk'.quotaRaced = quotaRaced \cup HalfCounted
  BY SnapshotFields DEF Core
<1>2. ASSUME NEW r \in Recipients, r \notin quotaRaced \cup HalfCounted
      PROVE  Measures(quota[r], messages[r])
  <2>1. Counted(r) = quota[r] /\ Owing(r) = {}
    BY <1>2 DEF Counted, Owing, HalfCounted
  <2>2. messages[r] \cup Owing(r) = messages[r]
    BY <2>1
  <2> QED
    BY <1>2, <2>1, <2>2 DEF QuotaInv, CountExact
<1>3. DiskQuotaExact'
  BY <1>1, <1>2 DEF DiskQuotaExact
<1>4. CountExact'
  <2>1. CASE gc' = gc
    BY <2>1 DEF QuotaInv, CountExact, Counted, Owing, Cached
  <2>2. CASE gc' = GcIdle /\ HalfCounted = {}
    <3>1. \A r \in Recipients : Counted(r)' = quota[r] /\ Owing(r)' = {}
      BY <2>2 DEF Counted, Owing, Cached, GcIdle
    <3>2. \A r \in Recipients : messages'[r] \cup Owing(r)' = messages[r]
      BY <3>1
    <3> QED
      BY <1>2, <2>2, <3>1, <3>2 DEF CountExact
  <2> QED
    BY <2>1, <2>2
<1> QED
  BY <1>3, <1>4 DEF QuotaInv

LEMMA QuotaInit ==
  ASSUME Init
  PROVE  QuotaInv
<1>1. \A r \in Recipients : Counted(r) = [count |-> 0, bytes |-> 0] /\ Owing(r) = {}
  BY DEF Init, Counted, Owing, Cached, GcIdle
<1>2. Measures([count |-> 0, bytes |-> 0], {})
  BY BytesType, FS_EmptySet DEF Measures
<1>3. CountExact
  BY <1>1, <1>2 DEF Init, CountExact
<1>4. DiskQuotaExact
  BY <1>2 DEF Init, DiskQuotaExact
<1> QED
  BY <1>3, <1>4 DEF QuotaInv

\* The transaction of a push counts its message; if the collector has a copy of
\* the quota, the recipient is raced.
LEMMA QuotaPush ==
  ASSUME Core, QuotaInv,
         NEW c \in Callers, NEW r \in Recipients, NEW k \in Keys,
         NEW b \in 0..MaxMessageBytes, NEW t \in 0..now, Push(c, r, k, b, t)
  PROVE  QuotaInv'
<1>1. CASE PushDuplicate(c, r, k)
  BY <1>1, QuotaApart DEF Push, PushDuplicate, trees, history
<1>2. CASE PushStored(c, r, k, b, t)
  <2>1. PICK m \in Message : m = NewMessage(k, b, t, seq[r])
    <3>1. NewMessage(k, b, t, seq[r]) \in Message
      BY LimitsAssumption DEF NewMessage, Message, Core, TypeOK
    <3> QED
      BY <3>1
  <2>2. m.seq = seq[r] /\ m.bytes = b /\ seq[r] \in Nat
    BY <2>1 DEF NewMessage, Core, TypeOK
  <2>3. /\ messages' = [messages EXCEPT ![r] = @ \cup {m}]
        /\ quota' = [quota EXCEPT ![r] = [count |-> @.count + 1, bytes |-> @.bytes + b]]
        /\ quotaRaced' = quotaRaced \cup (IF Cached(r) THEN {r} ELSE {})
        /\ UNCHANGED <<gc, disk>>
    BY <1>2, <2>1 DEF Push, PushStored
  <2>4. \A q \in Recipients :
          /\ messages'[q] = IF q = r THEN messages[q] \cup {m} ELSE messages[q]
          /\ quota'[q] = IF q = r THEN [count |-> quota[q].count + 1, bytes |-> quota[q].bytes + b]
                                  ELSE quota[q]
    BY <2>3 DEF Core, TypeOK
  <2>5. \A q \in Recipients : Owing(q)' = Owing(q) /\ (Cached(q)' <=> Cached(q))
    BY <2>3 DEF Owing, Cached
  <2>6. CountExact'
    <3> SUFFICES ASSUME NEW q \in Recipients \ quotaRaced'
                 PROVE  Measures(Counted(q)', messages'[q] \cup Owing(q)')
      BY DEF CountExact
    <3>1. Measures(Counted(q), messages[q] \cup Owing(q))
      BY <2>3 DEF QuotaInv, CountExact
    <3>2. CASE q = r
      <4>1. Counted(q) = quota[q]
        BY <2>3, <3>2 DEF Counted
      <4>2. Counted(q)' = [count |-> quota[q].count + 1, bytes |-> quota[q].bytes + m.bytes]
        BY <2>2, <2>3, <2>4, <2>5, <3>2 DEF Counted
      <4>3. messages'[q] \cup Owing(q)' = (messages[q] \cup Owing(q)) \cup {m}
        BY <2>4, <2>5, <3>2
      <4>4. m \notin messages[q] \cup Owing(q)
        <5>1. \A n \in messages[q] \cup Owing(q) : n.seq < seq[r]
          BY <3>2, QueueAndHeld
        <5> QED
          BY <2>2, <5>1
      <4> QED
        BY <3>1, <4>1, <4>2, <4>3, <4>4, QueueAndHeld, MeasuresAdded
    <3>3. CASE q # r
      BY <2>3, <2>4, <2>5, <3>1, <3>3 DEF Counted
    <3> QED
      BY <3>2, <3>3
  <2>7. DiskQuotaExact'
    BY <2>3 DEF QuotaInv, DiskQuotaExact
  <2> QED
    BY <2>6, <2>7 DEF QuotaInv
<1> QED
  BY <1>1, <1>2 DEF Push

\* The transaction of an ack deducts what it deletes; if the collector has a copy
\* of the quota, the recipient is raced.
LEMMA QuotaAck ==
  ASSUME Core, QuotaInv, NEW c \in Callers, NEW r \in Recipients, NEW K \in SUBSET Keys,
         Ack(c, r, K)
  PROVE  QuotaInv'
<1>1. PICK gone \in SUBSET messages[r] :
        /\ messages' = [messages EXCEPT ![r] = @ \ gone]
        /\ quota' = [quota EXCEPT ![r] = Minus(@, gone)]
        /\ quotaRaced' = quotaRaced \cup
             (IF Cached(r) /\ gone # {} THEN {r} ELSE {})
        /\ UNCHANGED <<gc, disk>>
  BY DEF Ack
<1>2. \A q \in Recipients :
        /\ messages'[q] = IF q = r THEN messages[q] \ gone ELSE messages[q]
        /\ quota'[q] = IF q = r THEN Minus(quota[q], gone) ELSE quota[q]
  BY <1>1 DEF Core, TypeOK
<1>3. \A q \in Recipients : Owing(q)' = Owing(q) /\ (Cached(q)' <=> Cached(q))
  BY <1>1 DEF Owing, Cached
<1>4. CountExact'
  <2> SUFFICES ASSUME NEW q \in Recipients \ quotaRaced'
               PROVE  Measures(Counted(q)', messages'[q] \cup Owing(q)')
    BY DEF CountExact
  <2>1. Measures(Counted(q), messages[q] \cup Owing(q))
    BY <1>1 DEF QuotaInv, CountExact
  <2>2. CASE q = r /\ Cached(q)
    <3>1. gone = {}
      BY <1>1, <2>2
    <3>2. messages'[q] = messages[q]
      BY <1>2, <3>1
    <3>3. Counted(q)' = Counted(q)
      BY <1>1, <1>3, <2>2 DEF Counted
    <3> QED
      BY <1>3, <2>1, <3>2, <3>3
  <2>3. CASE q = r /\ ~Cached(q)
    <3>1. Counted(q) = quota[q] /\ Counted(q)' = Minus(quota[q], gone)
      BY <1>2, <1>3, <2>3 DEF Counted
    <3>2. gone \in SUBSET (messages[q] \cup Owing(q))
      BY <2>3
    <3>3. messages'[q] \cup Owing(q)' = (messages[q] \cup Owing(q)) \ gone
      <4>1. messages'[q] = messages[q] \ gone /\ Owing(q)' = Owing(q)
        BY <1>2, <1>3, <2>3
      <4>2. messages[q] \cap Owing(q) = {}
        BY QueueAndHeld
      <4>3. gone \cap Owing(q) = {}
        BY <2>3, <4>2
      <4> HIDE <1>2, <1>3
      <4> QED
        BY <4>1, <4>3
    <3> QED
      BY <2>1, <3>1, <3>2, <3>3, QueueAndHeld, MeasuresRemoved
  <2>4. CASE q # r
    BY <1>1, <1>2, <1>3, <2>1, <2>4 DEF Counted
  <2> QED
    BY <2>2, <2>3, <2>4
<1>5. DiskQuotaExact'
  BY <1>1 DEF QuotaInv, DiskQuotaExact
<1> QED
  BY <1>4, <1>5 DEF QuotaInv

\* Steps of the collector that leave the queues, the quotas and its cache alone,
\* and owe as much as before.
LEMMA QuotaQuiet ==
  ASSUME QuotaInv, UNCHANGED <<messages, quota, disk, quotaRaced>>,
         \A r \in Recipients : Counted(r)' = Counted(r) /\ Owing(r)' = Owing(r)
  PROVE  QuotaInv'
BY DEF QuotaInv, CountExact, DiskQuotaExact

LEMMA QuotaCollector ==
  ASSUME Core, QuotaInv, Collector \/ GcFails
  PROVE  QuotaInv'
<1>1. ASSUME NEW t \in 0..now, GcStart(t)
      PROVE  QuotaInv'
  <2>1. \A r \in Recipients : Counted(r)' = Counted(r) /\ Owing(r)' = Owing(r)
    BY <1>1 DEF GcStart, Counted, Owing, Cached, GcIdle, trees
  <2> QED
    BY <1>1, <2>1, QuotaQuiet DEF GcStart, trees, history
<1>2. CASE GcNext \/ \E edge \in Recipients \X Edges : GcRead(edge)
  <2>1. gc \in Running /\ gc.pc = "next"
    BY <1>2, RunningType DEF GcNext, GcRead, Core
  <2>2. gc'.cache = gc.cache /\ gc'.pc \in {"next", "fetched"}
    BY <1>2, <2>1 DEF GcNext, GcRead, Running
  <2>3. \A r \in Recipients : Counted(r)' = Counted(r) /\ Owing(r)' = Owing(r)
    BY <1>2, <2>1, <2>2 DEF GcNext, GcRead, Counted, Owing, Cached, trees
  <2> QED
    BY <1>2, <2>3, QuotaQuiet DEF GcNext, GcRead, trees, history
<1>3. CASE GcRemoveMessage
  <2> DEFINE h == gc.at[1]
  <2>1. gc \in Running /\ gc.pc = "fetched" /\ h \in Recipients
    BY <1>3, RunningType DEF GcRemoveMessage, Core, HeldMessage, Arrivals
  <2>2. /\ gc' = [gc EXCEPT !.pc = "unindex"]
        /\ quotaRaced' = quotaRaced \cup (IF gc.msg \notin messages[h] THEN {h} ELSE {})
        /\ UNCHANGED <<quota, disk>>
    BY <1>3 DEF GcRemoveMessage
  <2>3. gc'.pc = "unindex" /\ gc'.at = gc.at /\ gc'.msg = gc.msg /\ gc'.cache = gc.cache
    BY <2>1, <2>2 DEF Running
  <2>4. \A r \in Recipients :
          messages'[r] = IF r = h THEN messages[r] \ {gc.msg} ELSE messages[r]
    BY <1>3 DEF GcRemoveMessage, Core, TypeOK
  <2>5. CountExact'
    <3> SUFFICES ASSUME NEW r \in Recipients \ quotaRaced'
                 PROVE  Measures(Counted(r)', messages'[r] \cup Owing(r)')
      BY DEF CountExact
    <3>1. Measures(Counted(r), messages[r] \cup Owing(r))
      BY <2>2 DEF QuotaInv, CountExact
    <3>2. Counted(r)' = Counted(r)
      BY <2>1, <2>2, <2>3 DEF Counted, Cached
    <3>3. messages'[r] \cup Owing(r)' = messages[r] \cup Owing(r)
      <4>1. CASE r = h
        <5>1. gc.msg \in messages[r]
          BY <2>2, <4>1
        <5>2. Owing(r)' = {gc.msg} /\ Owing(r) = {}
          BY <2>1, <2>3, <4>1 DEF Owing
        <5>3. messages'[r] = messages[r] \ {gc.msg}
          BY <2>4, <4>1
        <5> QED
          BY <5>1, <5>2, <5>3
      <4>2. CASE r # h
        BY <2>1, <2>3, <2>4, <4>2 DEF Owing
      <4> QED
        BY <4>1, <4>2
    <3> QED
      BY <3>1, <3>2, <3>3
  <2>6. DiskQuotaExact'
    BY <1>3 DEF GcRemoveMessage, QuotaInv, DiskQuotaExact
  <2> QED
    BY <2>5, <2>6 DEF QuotaInv
<1>4. CASE GcRemoveIndex
  <2>1. gc \in Running /\ gc.pc = "unindex" /\ gc' = [gc EXCEPT !.pc = "uncount"]
    BY <1>4, RunningType DEF GcRemoveIndex, Core
  <2>2. gc'.pc = "uncount" /\ gc'.at = gc.at /\ gc'.msg = gc.msg /\ gc'.cache = gc.cache
    BY <2>1 DEF Running
  <2>3. \A r \in Recipients : Counted(r)' = Counted(r) /\ Owing(r)' = Owing(r)
    BY <1>4, <2>1, <2>2 DEF GcRemoveIndex, Counted, Owing, Cached
  <2> QED
    BY <1>4, <2>3, QuotaQuiet DEF GcRemoveIndex
<1>5. CASE GcCount
  <2> DEFINE h == gc.at[1]
             q == IF gc.cache[h] = None THEN quota[h] ELSE gc.cache[h]
             left == Minus(q, {gc.msg})
  <2>1. /\ gc \in Running /\ gc.pc = "uncount" /\ h \in Recipients /\ gc.msg \in Message
        /\ gc.msg \notin messages[h]
    BY <1>5, RunningType DEF GcCount, Core, HeldMessage, Arrivals
  <2>2. gc' = [gc EXCEPT !.pc = "next", !.removed = @ + 1, !.at = None, !.msg = None,
                         !.cache[h] = left]
    BY <1>5 DEF GcCount
  <2>3. q = Counted(h) /\ q \in Quotas
    BY <2>1 DEF Counted, Cached, Running, Core, TypeOK
  <2>4. left \in Quotas /\ left # None
    <3>1. {gc.msg} \in SUBSET Message /\ IsFiniteSet({gc.msg})
      BY <2>1, FS_Singleton
    <3> HIDE DEF q
    <3>2. left \in Quotas
      BY <2>3, <3>1, MinusType
    <3> QED
      BY <3>2, NoQuotaAssumption DEF Quotas
  <2> HIDE DEF left, q
  <2>5. /\ gc'.pc = "next"
        /\ gc'.cache = [gc.cache EXCEPT ![h] = left]
    BY <2>1, <2>2 DEF Running
  <2>6. \A r \in Recipients :
          /\ Owing(r)' = {}
          /\ Counted(r)' = IF r = h THEN left ELSE Counted(r)
    <3> SUFFICES ASSUME NEW r \in Recipients
                 PROVE  Owing(r)' = {} /\ Counted(r)' = IF r = h THEN left ELSE Counted(r)
      OBVIOUS
    <3>1. gc'.cache[r] = IF r = h THEN left ELSE gc.cache[r]
      BY <2>1, <2>5 DEF Running
    <3>2. quota' = quota
      BY <1>5 DEF GcCount, trees
    <3> QED
      BY <2>1, <2>4, <2>5, <3>1, <3>2 DEF Owing, Counted, Cached
  <2>7. CountExact'
    <3> SUFFICES ASSUME NEW r \in Recipients \ quotaRaced'
                 PROVE  Measures(Counted(r)', messages'[r] \cup Owing(r)')
      BY DEF CountExact
    <3>1. messages' = messages /\ quotaRaced' = quotaRaced
      BY <1>5 DEF GcCount, trees, history
    <3>2. Measures(Counted(r), messages[r] \cup Owing(r))
      BY <3>1 DEF QuotaInv, CountExact
    <3>3. CASE r = h
      <4>1. Owing(r) = {gc.msg}
        BY <2>1, <3>3 DEF Owing
      <4>2. messages'[r] \cup Owing(r)' = (messages[r] \cup Owing(r)) \ {gc.msg}
        BY <2>1, <2>6, <3>1, <3>3, <4>1
      <4>3. {gc.msg} \in SUBSET (messages[r] \cup Owing(r))
        BY <4>1
      <4>4. IsFiniteSet(messages[r] \cup Owing(r))
        BY QueueAndHeld
      <4>5. Measures(Minus(Counted(r), {gc.msg}), (messages[r] \cup Owing(r)) \ {gc.msg})
        BY <3>2, <4>3, <4>4, MeasuresRemoved
      <4>6. Counted(r)' = Minus(Counted(r), {gc.msg})
        BY <2>3, <2>6, <3>3 DEF left
      <4> QED
        BY <4>2, <4>5, <4>6
    <3>4. CASE r # h
      <4>1. Owing(r) = {} /\ Owing(r)' = {} /\ Counted(r)' = Counted(r)
        BY <2>6, <3>4 DEF Owing
      <4> QED
        BY <3>1, <3>2, <4>1
    <3> QED
      BY <3>3, <3>4
  <2>8. DiskQuotaExact'
    BY <1>5 DEF GcCount, history, QuotaInv, DiskQuotaExact
  <2> QED
    BY <2>7, <2>8 DEF QuotaInv
<1>6. CASE GcLoopEnds
  <2>1. gc \in Running /\ gc.pc = "next" /\ gc' = [gc EXCEPT !.pc = "write", !.leaf = {}]
    BY <1>6, RunningType DEF GcLoopEnds, Core
  <2>2. gc'.pc = "write" /\ gc'.cache = gc.cache
    BY <2>1 DEF Running
  <2>3. \A r \in Recipients : Counted(r)' = Counted(r) /\ Owing(r)' = Owing(r)
    BY <1>6, <2>1, <2>2 DEF GcLoopEnds, Counted, Owing, Cached, trees
  <2> QED
    BY <1>6, <2>3, QuotaQuiet DEF GcLoopEnds, trees, history
<1>7. ASSUME NEW w \in Recipients, GcWriteQuota(w)
      PROVE  QuotaInv'
  <2>1. gc \in Running /\ gc.pc = "write" /\ Cached(w) /\ gc' = [gc EXCEPT !.cache[w] = None]
    BY <1>7, RunningType DEF GcWriteQuota, Core
  <2>2. gc'.pc = "write" /\ gc'.cache = [gc.cache EXCEPT ![w] = None]
    BY <2>1 DEF Running
  <2>3. \A r \in Recipients : Counted(r)' = Counted(r) /\ Owing(r)' = Owing(r)
    <3> SUFFICES ASSUME NEW r \in Recipients
                 PROVE  Counted(r)' = Counted(r) /\ Owing(r)' = Owing(r)
      OBVIOUS
    <3>1. gc'.cache[r] = IF r = w THEN None ELSE gc.cache[r]
      BY <2>1, <2>2 DEF Running
    <3>2. quota'[r] = IF r = w THEN gc.cache[w] ELSE quota[r]
      BY <1>7 DEF GcWriteQuota, Core, TypeOK
    <3> QED
      BY <2>1, <2>2, <3>1, <3>2 DEF Owing, Counted, Cached
  <2>4. CountExact' /\ DiskQuotaExact'
    BY <1>7, <2>3 DEF GcWriteQuota, history, QuotaInv, CountExact, DiskQuotaExact
  <2> QED
    BY <2>4 DEF QuotaInv
<1>8. CASE GcFlush
  <2>1. HalfCounted = {}
    BY <1>8 DEF GcFlush, HalfCounted
  <2> QED
    BY <1>8, <2>1, QuotaWritten DEF GcFlush, trees, history
<1>9. CASE GcFails
  <2>1. ASSUME NEW r \in Recipients \ quotaRaced'
        PROVE  Measures(Counted(r)', messages'[r] \cup Owing(r)')
    <3>1. messages' = messages /\ quota' = quota /\ gc' = GcIdle
      BY <1>9 DEF GcFails, trees
    <3>2. r \notin quotaRaced /\ r \notin HalfCounted
      BY <1>9 DEF GcFails
    <3>3. Counted(r)' = Counted(r) /\ Owing(r)' = {} /\ Owing(r) = {}
      BY <3>1, <3>2 DEF Counted, Owing, Cached, HalfCounted, GcIdle
    <3> QED
      BY <3>1, <3>2, <3>3 DEF QuotaInv, CountExact
  <2>2. CountExact'
    BY <2>1 DEF CountExact
  <2>3. DiskQuotaExact'
    BY <1>9 DEF GcFails, QuotaInv, DiskQuotaExact
  <2> QED
    BY <2>2, <2>3 DEF QuotaInv
<1> QED
  BY <1>1, <1>2, <1>3, <1>4, <1>5, <1>6, <1>7, <1>8, <1>9 DEF Collector, GcStep

LEMMA QuotaStep ==
  ASSUME Core, QuotaInv, [Next]_vars
  PROVE  QuotaInv'
<1>1. CASE Tick \/ Puller \/ UNCHANGED vars \/ \E c \in Callers : Drop(c)
  BY <1>1, QuotaApart DEF Tick, Puller, PullStart, PullRead, PullNext, PullLoopEnds, PullAnswer,
                          Drop, vars, trees, history
<1>2. CASE Request
  BY <1>2, QuotaPush, QuotaAck DEF Request
<1>3. CASE Persist \/ \E c \in Callers : Answer(c)
  BY <1>3, QuotaWritten DEF Persist, Answer, trees, history
<1>4. CASE Collector \/ GcFails
  BY <1>4, QuotaCollector
<1>5. CASE Crash
  <2>1. /\ messages' = disk.messages /\ quota' = disk.quota /\ gc' = GcIdle
        /\ quotaRaced' = disk.quotaRaced /\ disk' = disk
    BY <1>5 DEF Crash
  <2>2. \A r \in Recipients : Counted(r)' = disk.quota[r] /\ Owing(r)' = {}
    BY <2>1 DEF Counted, Owing, Cached, GcIdle
  <2>3. \A r \in Recipients : messages'[r] \cup Owing(r)' = disk.messages[r]
    BY <2>1, <2>2
  <2>4. CountExact' /\ DiskQuotaExact'
    BY <2>1, <2>2, <2>3 DEF QuotaInv, CountExact, DiskQuotaExact
  <2> QED
    BY <2>4 DEF QuotaInv
<1> QED
  BY <1>1, <1>2, <1>3, <1>4, <1>5 DEF Next

\* The quota of a recipient is what its messages add up to at every step of every
\* purge, but for the recipients of a race or of a purge cut off.
THEOREM QuotaExactHolds == Spec => []QuotaExactUnlessRaced
<1>1. QuotaInv => QuotaExactUnlessRaced
  BY DEF QuotaInv, CountExact, QuotaExactUnlessRaced, Measures, Counted, Owing
<1> QED
  BY <1>1, CoreInit, CoreStep, QuotaInit, QuotaStep, PTL DEF Spec

-----------------------------------------------------------------------------
(***************************************************************************)
(* The dedup index.                                                        *)
(***************************************************************************)

LEMMA IndexApart ==
  ASSUME IndexInv, UNCHANGED <<messages, index, disk, indexRaced>>,
         \A r \in Recipients : Leaving(r)' = Leaving(r)
  PROVE  IndexInv'
BY DEF IndexInv, EntriesExact, DiskIndexExact

LEMMA IndexWritten ==
  ASSUME Core, IndexInv, UNCHANGED <<messages, index, indexRaced>>, disk' = Snapshot,
         \A r \in Recipients : Leaving(r)' = Leaving(r)
  PROVE  IndexInv'
<1>1. /\ disk'.messages = messages /\ disk'.index = index
      /\ disk'.indexRaced = indexRaced \cup HalfIndexed
  BY SnapshotFields DEF Core
<1>2. \A r \in Recipients : r \notin HalfIndexed => Leaving(r) = {}
  BY DEF Leaving, HalfIndexed
<1>3. DiskIndexExact'
  BY <1>1, <1>2 DEF IndexInv, EntriesExact, DiskIndexExact
<1>4. EntriesExact'
  BY DEF IndexInv, EntriesExact
<1> QED
  BY <1>3, <1>4 DEF IndexInv

LEMMA IndexInit ==
  ASSUME Init
  PROVE  IndexInv
BY DEF Init, IndexInv, EntriesExact, DiskIndexExact, Paired

\* The transaction of a push finds no entry, so no message, of its key.
LEMMA IndexPush ==
  ASSUME Core, IndexInv,
         NEW c \in Callers, NEW r \in Recipients, NEW k \in Keys,
         NEW b \in 0..MaxMessageBytes, NEW t \in 0..now, Push(c, r, k, b, t)
  PROVE  IndexInv'
<1>1. CASE PushDuplicate(c, r, k)
  BY <1>1, IndexApart DEF Push, PushDuplicate, trees, history, Leaving
<1>2. CASE PushStored(c, r, k, b, t)
  <2>1. PICK m : m = NewMessage(k, b, t, seq[r])
    OBVIOUS
  <2>2. m.key = k /\ m.seq = seq[r] /\ seq[r] \in Nat
    BY <2>1 DEF NewMessage, Core, TypeOK
  <2>3. /\ index[r][k] = None
        /\ messages' = [messages EXCEPT ![r] = @ \cup {m}]
        /\ index' = [index EXCEPT ![r][k] = seq[r]]
        /\ UNCHANGED <<gc, disk, indexRaced>>
    BY <1>2, <2>1 DEF Push, PushStored
  <2>4. \A q \in Recipients :
          /\ messages'[q] = IF q = r THEN messages[q] \cup {m} ELSE messages[q]
          /\ \A j \in Keys : index'[q][j] = IF q = r /\ j = k THEN seq[r] ELSE index[q][j]
    BY <2>3 DEF Core, TypeOK
  <2>5. \A q \in Recipients : q # r => index'[q] = index[q]
    BY <2>3 DEF Core, TypeOK
  <2>6. ASSUME NEW q \in Recipients \ indexRaced
        PROVE  Paired(index'[q], messages'[q], Leaving(q))
    <3>1. Paired(index[q], messages[q], Leaving(q))
      BY DEF IndexInv, EntriesExact
    <3>2. CASE q = r
      <4>1. \A n \in messages[q] : n.key \in Keys /\ n.seq \in Nat
        BY DEF Core, TypeOK, Message
      <4>2. \A n \in messages[q] : n.key # k
        BY <2>3, <3>1, <3>2, <4>1, NoneAssumption DEF Paired
      <4>3. ASSUME NEW n \in messages'[q]
            PROVE  index'[q][n.key] = n.seq
        <5>1. CASE n = m
          BY <2>2, <2>4, <3>2, <5>1
        <5>2. CASE n \in messages[q]
          <6>1. n.key \in Keys /\ n.key # k /\ index[q][n.key] = n.seq
            BY <3>1, <4>1, <4>2, <5>2 DEF Paired
          <6> QED
            BY <2>4, <6>1
        <5>3. n = m \/ n \in messages[q]
          BY <2>4, <3>2
        <5> QED
          BY <5>1, <5>2, <5>3
      <4>4. ASSUME NEW j \in Keys, index'[q][j] # None
            PROVE  \E n \in messages'[q] \cup Leaving(q) : n.key = j /\ n.seq = index'[q][j]
        <5>1. CASE j = k
          <6>1. m \in messages'[q] /\ index'[q][j] = m.seq
            BY <2>2, <2>4, <3>2, <5>1
          <6> QED
            BY <2>2, <5>1, <6>1
        <5>2. CASE j # k
          <6>1. index'[q][j] = index[q][j] /\ messages[q] \subseteq messages'[q]
            BY <2>4, <5>2
          <6> QED
            BY <3>1, <4>4, <6>1 DEF Paired
        <5> QED
          BY <5>1, <5>2
      <4> QED
        BY <4>3, <4>4 DEF Paired
    <3>3. CASE q # r
      BY <2>4, <2>5, <3>1, <3>3
    <3> QED
      BY <3>2, <3>3
  <2>7. \A q \in Recipients : Leaving(q)' = Leaving(q)
    BY <2>3 DEF Leaving
  <2>8. EntriesExact'
    BY <2>3, <2>6, <2>7 DEF EntriesExact
  <2>9. DiskIndexExact'
    BY <2>3 DEF IndexInv, DiskIndexExact
  <2> QED
    BY <2>8, <2>9 DEF IndexInv
<1> QED
  BY <1>1, <1>2 DEF Push

\* The transaction of an ack clears the entries it looked at and deletes their
\* messages.
LEMMA IndexAck ==
  ASSUME Core, IndexInv, NEW c \in Callers, NEW r \in Recipients, NEW K \in SUBSET Keys,
         Ack(c, r, K)
  PROVE  IndexInv'
<1> DEFINE hit == {k \in K : index[r][k] # None}
           gone == {m \in messages[r] : m.key \in hit /\ index[r][m.key] = m.seq}
<1>1. /\ messages' = [messages EXCEPT ![r] = @ \ gone]
      /\ index' = [index EXCEPT ![r] = [k \in Keys |-> IF k \in hit THEN None ELSE @[k]]]
      /\ UNCHANGED <<gc, disk, indexRaced>>
  BY DEF Ack
<1>2. \A m \in messages[r] : m \in gone <=> m.key \in hit /\ index[r][m.key] = m.seq
  OBVIOUS
<1> HIDE DEF gone, hit
<1>3. /\ messages'[r] = messages[r] \ gone
      /\ \A k \in Keys : index'[r][k] = IF k \in hit THEN None ELSE index[r][k]
      /\ \A q \in Recipients : q # r => index'[q] = index[q] /\ messages'[q] = messages[q]
  BY <1>1 DEF Core, TypeOK
<1>4. ASSUME NEW q \in Recipients \ indexRaced
      PROVE  Paired(index'[q], messages'[q], Leaving(q))
  <2>1. Paired(index[q], messages[q], Leaving(q))
    BY DEF IndexInv, EntriesExact
  <2>2. CASE q = r
    <3>1. \A n \in messages[r] : n.key \in Keys
      BY DEF Core, TypeOK, Message
    <3>2. \A n \in messages'[r] : n \in messages[r] /\ n.key \notin hit
      BY <1>2, <1>3, <2>1, <2>2 DEF Paired
    <3>3. \A n \in messages'[r] : index'[r][n.key] = n.seq
      BY <1>3, <2>1, <2>2, <3>1, <3>2 DEF Paired
    <3>4. ASSUME NEW j \in Keys, index'[r][j] # None
          PROVE  \E n \in messages'[r] \cup Leaving(r) : n.key = j /\ n.seq = index'[r][j]
      <4>1. j \notin hit /\ index'[r][j] = index[r][j]
        BY <1>3, <3>4
      <4>2. PICK n \in messages[r] \cup Leaving(r) : n.key = j /\ n.seq = index[r][j]
        BY <2>1, <2>2, <3>4, <4>1 DEF Paired
      <4>3. n \in messages[r] => n \in messages'[r]
        BY <1>2, <1>3, <4>1, <4>2
      <4> QED
        BY <4>1, <4>2, <4>3
    <3> QED
      BY <2>2, <3>3, <3>4 DEF Paired
  <2>3. CASE q # r
    BY <1>3, <2>1, <2>3
  <2> QED
    BY <2>2, <2>3
<1>5. \A q \in Recipients : Leaving(q)' = Leaving(q)
  BY <1>1 DEF Leaving
<1>6. EntriesExact'
  BY <1>1, <1>4, <1>5 DEF EntriesExact
<1>7. DiskIndexExact'
  BY <1>1 DEF IndexInv, DiskIndexExact
<1> QED
  BY <1>6, <1>7 DEF IndexInv

LEMMA IndexCollector ==
  ASSUME Core, IndexInv, Collector \/ GcFails
  PROVE  IndexInv'
<1>1. CASE (\E t \in 0..now : GcStart(t)) \/ GcCount \/ GcLoopEnds
             \/ \E r \in Recipients : GcWriteQuota(r)
  <2>1. gc.pc # "unindex" /\ gc'.pc # "unindex"
    <3>1. CASE \E t \in 0..now : GcStart(t)
      BY <3>1 DEF GcStart, GcIdle
    <3>2. CASE GcCount \/ GcLoopEnds \/ \E r \in Recipients : GcWriteQuota(r)
      <4>1. gc \in Running
        BY <3>2, RunningType DEF GcCount, GcLoopEnds, GcWriteQuota, Core
      <4> QED
        BY <3>2, <4>1 DEF GcCount, GcLoopEnds, GcWriteQuota, Running
    <3> QED
      BY <1>1, <3>1, <3>2
  <2>2. \A r \in Recipients : Leaving(r)' = Leaving(r)
    BY <2>1 DEF Leaving
  <2> QED
    BY <1>1, <2>2, IndexApart DEF GcStart, GcCount, GcLoopEnds, GcWriteQuota, trees, history
<1>2. CASE GcNext \/ \E edge \in Recipients \X Edges : GcRead(edge)
  <2>1. gc \in Running /\ gc.pc = "next"
    BY <1>2, RunningType DEF GcNext, GcRead, Core
  <2>2. gc'.pc \in {"next", "fetched"}
    BY <1>2, <2>1 DEF GcNext, GcRead, Running
  <2>3. \A r \in Recipients : Leaving(r)' = Leaving(r)
    BY <2>1, <2>2 DEF Leaving
  <2> QED
    BY <1>2, <2>3, IndexApart DEF GcNext, GcRead, trees, history
<1>3. CASE GcRemoveMessage
  <2>1. gc \in Running /\ gc.pc = "fetched" /\ gc.at[1] \in Recipients
    BY <1>3, RunningType DEF GcRemoveMessage, Core, HeldMessage, Arrivals
  <2>2. /\ gc' = [gc EXCEPT !.pc = "unindex"]
        /\ UNCHANGED <<index, disk, indexRaced>>
        /\ messages' = [messages EXCEPT ![gc.at[1]] = @ \ {gc.msg}]
    BY <1>3 DEF GcRemoveMessage
  <2>3. gc'.pc = "unindex" /\ gc'.at = gc.at /\ gc'.msg = gc.msg
    BY <2>1, <2>2 DEF Running
  <2>4. ASSUME NEW r \in Recipients \ indexRaced
        PROVE  Paired(index[r], messages'[r], Leaving(r)')
    <3>1. Paired(index[r], messages[r], Leaving(r)) /\ Leaving(r) = {}
      BY <2>1 DEF IndexInv, EntriesExact, Leaving
    <3>2. messages'[r] \subseteq messages[r] /\ messages[r] \subseteq messages'[r] \cup Leaving(r)'
      BY <2>2, <2>3 DEF Core, TypeOK, Leaving
    <3> QED
      BY <3>1, <3>2 DEF Paired
  <2> QED
    BY <2>2, <2>4 DEF IndexInv, EntriesExact, DiskIndexExact
<1>4. CASE GcRemoveIndex
  <2> DEFINE h == gc.at[1]
  <2>1. gc \in Running /\ gc.pc = "unindex" /\ h \in Recipients /\ gc.msg \in Message
    BY <1>4, RunningType DEF GcRemoveIndex, Core, HeldMessage, Arrivals
  <2>2. \A m \in messages[h] : m.seq # gc.msg.seq
    BY <2>1 DEF Core, HeldMessage
  <2>3. gc'.pc = "uncount"
    BY <1>4, <2>1 DEF GcRemoveIndex, Running
  <2>4. /\ \A q \in Recipients, k \in Keys :
             index'[q][k] = IF q = h /\ k = gc.msg.key THEN None ELSE index[q][k]
        /\ \A q \in Recipients : q # h => index'[q] = index[q]
    BY <1>4, <2>1 DEF GcRemoveIndex, Core, TypeOK
  <2>5. ASSUME NEW r \in Recipients \ indexRaced'
        PROVE  Paired(index'[r], messages[r], {})
    <3>1. Paired(index[r], messages[r], Leaving(r))
      BY <1>4 DEF GcRemoveIndex, IndexInv, EntriesExact
    <3>2. CASE r = h
      <4>1. index[r][gc.msg.key] \in {None, gc.msg.seq}
        BY <1>4, <3>2 DEF GcRemoveIndex
      <4>2. \A m \in messages[r] : m.key \in Keys /\ m.seq \in Nat
        BY DEF Core, TypeOK, Message
      <4>3. \A m \in messages[r] : m.key # gc.msg.key
        BY <2>2, <3>1, <3>2, <4>1, <4>2, NoneAssumption DEF Paired
      <4>4. \A m \in messages[r] : index'[r][m.key] = m.seq
        BY <2>4, <3>1, <4>2, <4>3 DEF Paired
      <4>5. ASSUME NEW k \in Keys, index'[r][k] # None
            PROVE  \E m \in messages[r] : m.key = k /\ m.seq = index'[r][k]
        <5>1. k # gc.msg.key /\ index'[r][k] = index[r][k]
          BY <2>4, <3>2, <4>5
        <5>2. PICK m \in messages[r] \cup Leaving(r) : m.key = k /\ m.seq = index[r][k]
          BY <3>1, <4>5, <5>1 DEF Paired
        <5>3. m \in messages[r]
          BY <5>1, <5>2 DEF Leaving
        <5> QED
          BY <5>1, <5>2, <5>3
      <4> QED
        BY <4>4, <4>5 DEF Paired
    <3>3. CASE r # h
      <4>1. Leaving(r) = {} /\ index'[r] = index[r]
        BY <2>4, <3>3 DEF Leaving
      <4> QED
        BY <3>1, <4>1
    <3> QED
      BY <3>2, <3>3
  <2>6. \A r \in Recipients : Leaving(r)' = {}
    BY <2>3 DEF Leaving
  <2>7. UNCHANGED <<messages, disk>>
    BY <1>4 DEF GcRemoveIndex
  <2> QED
    BY <2>5, <2>6, <2>7 DEF IndexInv, EntriesExact, DiskIndexExact
<1>5. CASE GcFlush
  <2>1. \A r \in Recipients : Leaving(r)' = Leaving(r)
    BY <1>5 DEF GcFlush, Leaving, GcIdle
  <2> QED
    BY <1>5, <2>1, IndexWritten DEF GcFlush, trees, history
<1>6. CASE GcFails
  <2>1. /\ UNCHANGED <<messages, index, disk>>
        /\ gc' = GcIdle /\ indexRaced' = indexRaced \cup HalfIndexed
    BY <1>6 DEF GcFails, trees
  <2>2. \A r \in Recipients \ indexRaced' : Leaving(r) = {} /\ Leaving(r)' = {}
    BY <2>1 DEF Leaving, HalfIndexed, GcIdle
  <2> QED
    BY <2>1, <2>2 DEF IndexInv, EntriesExact, DiskIndexExact
<1> QED
  BY <1>1, <1>2, <1>3, <1>4, <1>5, <1>6 DEF Collector, GcStep

LEMMA IndexStep ==
  ASSUME Core, IndexInv, [Next]_vars
  PROVE  IndexInv'
<1>1. CASE Tick \/ Puller \/ UNCHANGED vars \/ \E c \in Callers : Drop(c)
  BY <1>1, IndexApart DEF Tick, Puller, PullStart, PullRead, PullNext, PullLoopEnds, PullAnswer,
                          Drop, vars, trees, history, Leaving
<1>2. CASE Request
  BY <1>2, IndexPush, IndexAck DEF Request
<1>3. CASE Persist \/ \E c \in Callers : Answer(c)
  BY <1>3, IndexWritten DEF Persist, Answer, trees, history, Leaving
<1>4. CASE Collector \/ GcFails
  BY <1>4, IndexCollector
<1>5. CASE Crash
  <2>1. /\ messages' = disk.messages /\ index' = disk.index /\ gc' = GcIdle
        /\ indexRaced' = disk.indexRaced /\ disk' = disk
    BY <1>5 DEF Crash
  <2>2. \A r \in Recipients : Leaving(r)' = {}
    BY <2>1 DEF Leaving, GcIdle
  <2> QED
    BY <2>1, <2>2 DEF IndexInv, EntriesExact, DiskIndexExact
<1> QED
  BY <1>1, <1>2, <1>3, <1>4, <1>5 DEF Next

\* Each message has its entry in the dedup index, and each entry its message, but
\* for the one the collector is removing and for the recipients of a race or of a
\* purge cut off.
THEOREM IndexExactHolds == Spec => []IndexExactUnlessRaced
<1>1. IndexInv => IndexExactUnlessRaced
  BY DEF IndexInv, EntriesExact, IndexExactUnlessRaced, Paired, Leaving
<1> QED
  BY <1>1, CoreInit, CoreStep, IndexInit, IndexStep, PTL DEF Spec

-----------------------------------------------------------------------------
(***************************************************************************)
(* The pages of the pulls.                                                 *)
(***************************************************************************)

\* Steps of others: messages go, and those that come are newer than the scan.
LEMMA PagesKept ==
  ASSUME Core, PageInv, UNCHANGED pulls,
         \A r \in Recipients : /\ seq[r] <= seq'[r] /\ seq'[r] \in Nat
                               /\ \A m \in messages'[r] : m \in messages[r] \/ m.seq = seq[r]
  PROVE  PageInv'
<1> SUFFICES ASSUME NEW p \in Pullers, pulls[p].pc # "idle"
             PROVE  PageOf(pulls[p], messages'[pulls[p].to], seq'[pulls[p].to])
  BY DEF PageInv, PageOf
<1> DEFINE page == pulls[p]
           r == page.to
<1>1. page \in PullRecords /\ r \in Recipients
  BY ReadingType DEF Core, PullRecords
<1>2. PageOf(page, messages[r], seq[r])
  BY DEF PageInv
<1>3. \A m \in page.must : m.seq \in Nat /\ m.seq < seq[r]
  BY <1>1, <1>2 DEF PageOf, PullRecords, Message
<1>4. seq[r] \in Nat /\ seq'[r] \in Nat /\ seq[r] <= seq'[r]
  BY <1>1 DEF Core, TypeOK
<1>5. \A m \in page.must : m.seq < seq'[r]
  BY <1>3, <1>4
<1>6. \A m \in page.must \cap messages'[r] : m \in messages[r]
  BY <1>1, <1>3, <1>4
<1> HIDE DEF page, r
<1>7. PageOf(page, messages'[r], seq'[r])
  BY <1>2, <1>5, <1>6 DEF PageOf, Scanning, Complete
<1> QED
  BY <1>7 DEF page, r

\* Steps of one pull: its new page is as it should be.
LEMMA PageTurned ==
  ASSUME Core, PageInv, UNCHANGED <<messages, seq>>, NEW p \in Pullers, NEW page,
         pulls' = [pulls EXCEPT ![p] = page], PageOf(page, messages[page.to], seq[page.to])
  PROVE  PageInv'
<1>1. \A q \in Pullers : pulls'[q] = IF q = p THEN page ELSE pulls[q]
  BY DEF Core, TypeOK
<1> QED
  BY <1>1 DEF PageInv

LEMMA PageStart ==
  ASSUME Core, PageInv, NEW p \in Pullers, NEW r \in Recipients, NEW c \in Cursors,
         NEW l \in 1..PullBatchMax, NEW t \in 0..now, PullStart(p, r, c, l, t)
  PROVE  PageInv'
<1>1. PICK page : page = [pc |-> "scan", to |-> r, limit |-> l, t |-> t,
                          start |-> IF c = None THEN None ELSE c.seq,
                          edge |-> None, leaf |-> {},
                          items |-> {}, next |-> None, must |-> Live(messages[r], c, t)]
  OBVIOUS
<1>2. pulls' = [pulls EXCEPT ![p] = page] /\ UNCHANGED <<messages, seq>>
  BY <1>1 DEF PullStart, trees
<1>3. /\ page.pc = "scan" /\ page.to = r /\ page.limit = l /\ page.t = t
      /\ page.start = IF c = None THEN None ELSE c.seq
      /\ page.edge = None /\ page.leaf = {} /\ page.items = {} /\ page.next = None
      /\ page.must = Live(messages[r], c, t)
  BY <1>1
<1>4. \A m \in page.must :
        m \in messages[r] /\ ~Expired(m, t) /\ (page.start = None \/ m.seq > page.start)
  BY <1>3 DEF Live, Beyond
<1>5. \A m \in page.must : m.seq < seq[r]
  BY <1>4 DEF Core, SeqFresh
<1>6. Cardinality(page.items) <= page.limit /\ page.limit > 0
  BY <1>3, FS_EmptySet, LimitsAssumption
<1>7. PageOf(page, messages[page.to], seq[page.to])
  BY <1>3, <1>4, <1>5, <1>6 DEF PageOf, Scanning
<1> QED
  BY <1>2, <1>7, PageTurned

\* The next leaf takes what the scan may have to deliver as far as it goes.
LEMMA PageRead ==
  ASSUME Core, PageInv, NEW p \in Pullers, NEW edge \in Edges, PullRead(p, edge)
  PROVE  PageInv'
<1>1. PICK page, r : page = pulls[p] /\ r = page.to
  OBVIOUS
<1>2. PICK leaf : leaf = {m \in Unread(p) : m.seq <= edge}
  OBVIOUS
<1>3. PICK new : new = [page EXCEPT !.leaf = leaf, !.edge = edge]
  OBVIOUS
<1>4. page \in PullRecords /\ page.pc = "scan" /\ page.leaf = {} /\ leaf # {} /\ r \in Recipients
  BY <1>1, <1>2, ReadingType DEF PullRead, Core, PullRecords
<1>5. Scanning(page, messages[r]) /\ \A m \in page.must : m.seq < seq[r]
  BY <1>1, <1>4 DEF PageInv, PageOf
<1>6. \A m \in leaf :
        /\ m \in messages[r] /\ m \in Message /\ m.seq \in Nat /\ m.seq <= edge
        /\ page.edge = None \/ m.seq > page.edge
  BY <1>1, <1>2, <1>4 DEF Unread, Core, TypeOK, Message
<1>7. /\ new.pc = "scan" /\ new.to = r /\ new.must = page.must /\ new.items = page.items
      /\ new.limit = page.limit /\ new.next = page.next /\ new.t = page.t
      /\ new.start = page.start /\ new.edge = edge /\ new.leaf = leaf
  BY <1>1, <1>3, <1>4 DEF PullRecords
<1>8. edge \in Nat /\ edge # None /\ page.edge \in Nat \cup {None}
  BY <1>4, BoundsAssumption, NoneAssumption DEF Edges, PullRecords
<1>9. \A m \in page.items : m.seq \in Nat /\ page.edge \in Nat /\ m.seq <= page.edge
  BY <1>4, <1>5, <1>8 DEF Scanning, PullRecords, Message
<1>10. ASSUME NEW m \in page.items, NEW n \in leaf
       PROVE  m.seq < n.seq /\ m.seq <= edge
  <2>1. m.seq \in Nat /\ page.edge \in Nat /\ m.seq <= page.edge /\ page.edge # None
    BY <1>9, NoneAssumption
  <2>2. n.seq \in Nat /\ n.seq <= edge /\ n.seq > page.edge
    BY <1>6, <2>1
  <2> QED
    BY <1>8, <2>1, <2>2
<1>11. \A m \in new.items \cup new.leaf : new.edge # None /\ m.seq <= new.edge
  BY <1>4, <1>6, <1>7, <1>8, <1>10
<1>12. ASSUME NEW m \in new.must \cap messages[r], m \notin page.items, ~(m.seq > edge)
       PROVE  m \in leaf
  <2>1. page.edge = None \/ m.seq > page.edge
    BY <1>4, <1>5, <1>7, <1>12 DEF Scanning
  <2>2. m.seq \in Nat
    BY <1>4 DEF Core, TypeOK, Message
  <2> QED
    BY <1>1, <1>2, <1>8, <1>12, <2>1, <2>2 DEF Unread
<1>13. Scanning(new, messages[r])
  <2>1. Cardinality(new.items) <= new.limit /\ new.limit > 0 /\ new.next = None
    BY <1>5, <1>7 DEF Scanning
  <2>2. \A m \in new.must : ~Expired(m, new.t) /\ (new.start = None \/ m.seq > new.start)
    BY <1>5, <1>7 DEF Scanning
  <2> QED
    BY <1>7, <1>10, <1>11, <1>12, <2>1, <2>2 DEF Scanning
<1>14. PageOf(new, messages[new.to], seq[new.to])
  BY <1>5, <1>7, <1>13 DEF PageOf
<1>15. pulls' = [pulls EXCEPT ![p] = new] /\ UNCHANGED <<messages, seq>>
  BY <1>1, <1>2, <1>3 DEF PullRead, trees
<1> QED
  BY <1>14, <1>15, PageTurned

\* One turn of the scan's loop: what it passes over it does not have to deliver.
LEMMA PageNext ==
  ASSUME Core, PageInv, NEW p \in Pullers, PullNext(p)
  PROVE  PageInv'
<1>1. PICK page, r : page = pulls[p] /\ r = page.to
  OBVIOUS
<1>2. PICK m, rest : m = FirstOf(page.leaf) /\ rest = page.leaf \ {m}
  OBVIOUS
<1>3. /\ page \in PullRecords /\ page.pc = "scan" /\ page.leaf # {} /\ r \in Recipients
      /\ InHand(page)
  BY <1>1, ReadingType DEF PullNext, Core, PullRecords, ScansInHand
<1>4. Scanning(page, messages[r]) /\ \A n \in page.must : n.seq < seq[r]
  BY <1>1, <1>3 DEF PageInv, PageOf
<1>5. m \in page.leaf /\ m \in Message /\ \A n \in rest : m.seq < n.seq
  BY <1>1, <1>2, <1>3, FirstCopied
<1>6. page.limit \in Nat /\ Cardinality(page.items) \in Nat /\ IsFiniteSet(page.items)
  BY <1>3, FS_CardinalityType DEF PullRecords, InHand
<1>7. ASSUME NEW new, pulls' = [pulls EXCEPT ![p] = new], new.to = r, new.must = page.must,
             /\ new.pc \in {"scan", "done"}
             /\ new.pc = "scan" => Scanning(new, messages[r])
             /\ new.pc = "done" => Complete(new, messages[r])
      PROVE  PageInv'
  <2>1. PageOf(new, messages[new.to], seq[new.to])
    BY <1>4, <1>7 DEF PageOf
  <2> QED
    BY <1>7, <2>1, PageTurned DEF PullNext, trees
<1>8. CASE PassedOver(page, m)
  <2>1. PICK new : new = [page EXCEPT !.leaf = rest]
    OBVIOUS
  <2>2. /\ new.to = r /\ new.must = page.must /\ new.pc = "scan" /\ new.items = page.items
        /\ new.limit = page.limit /\ new.next = page.next /\ new.t = page.t
        /\ new.start = page.start /\ new.edge = page.edge /\ new.leaf = rest
    BY <1>1, <1>3, <2>1 DEF PullRecords
  <2>3. pulls' = [pulls EXCEPT ![p] = new]
    BY <1>1, <1>2, <1>8, <2>1 DEF PullNext
  <2>4. m \notin page.must
    <3>1. ~Expired(m, page.t) => m.seq <= page.start /\ page.start # None /\ page.start \in Nat /\ m.seq \in Nat
      BY <1>3, <1>5, <1>8 DEF PassedOver, PullRecords, Message
    <3> QED
      BY <1>4, <3>1 DEF Scanning
  <2>5. \A n \in page.must \cap messages[r] :
          n \in page.items \cup rest \/ page.edge = None \/ n.seq > page.edge
    BY <1>2, <1>4, <2>4 DEF Scanning
  <2>6. Scanning(new, messages[r])
    BY <1>2, <1>4, <2>2, <2>5 DEF Scanning
  <2> QED
    BY <1>7, <2>2, <2>3, <2>6
<1>9. CASE ~PassedOver(page, m) /\ Cardinality(page.items) < page.limit
  <2>1. PICK new : new = [page EXCEPT !.leaf = rest, !.items = @ \cup {m}]
    OBVIOUS
  <2>2. /\ new.to = r /\ new.must = page.must /\ new.pc = "scan"
        /\ new.items = page.items \cup {m}
        /\ new.limit = page.limit /\ new.next = page.next /\ new.t = page.t
        /\ new.start = page.start /\ new.edge = page.edge /\ new.leaf = rest
    BY <1>1, <1>3, <2>1 DEF PullRecords
  <2>3. pulls' = [pulls EXCEPT ![p] = new]
    BY <1>1, <1>2, <1>9, <2>1 DEF PullNext
  <2>4. Cardinality(new.items) <= new.limit
    <3>1. Cardinality(page.items \cup {m}) \in {Cardinality(page.items), Cardinality(page.items) + 1}
      BY <1>6, FS_AddElement
    <3> QED
      BY <1>6, <1>9, <2>2, <3>1
  <2>5. new.items \cup new.leaf = page.items \cup page.leaf
    BY <1>2, <1>5, <2>2
  <2>6. \A n \in new.items, o \in new.leaf : n.seq < o.seq
    BY <1>2, <1>4, <1>5, <2>2 DEF Scanning
  <2>7. Scanning(new, messages[r])
    BY <1>4, <2>2, <2>4, <2>5, <2>6 DEF Scanning
  <2> QED
    BY <1>7, <2>2, <2>3, <2>7
<1>10. CASE ~PassedOver(page, m) /\ ~(Cardinality(page.items) < page.limit)
  <2>1. PICK new : new = [page EXCEPT !.pc = "done", !.leaf = {}, !.next = LastSeq(page.items)]
    OBVIOUS
  <2>2. /\ new.to = r /\ new.must = page.must /\ new.pc = "done" /\ new.items = page.items
        /\ new.limit = page.limit /\ new.next = LastSeq(page.items)
    BY <1>1, <1>3, <2>1 DEF PullRecords
  <2>3. pulls' = [pulls EXCEPT ![p] = new]
    BY <1>1, <1>2, <1>10, <2>1 DEF PullNext
  <2>4. Cardinality(page.items) = page.limit /\ page.limit > 0
    BY <1>4, <1>6, <1>10 DEF Scanning
  <2>5. page.items # {}
    BY <2>4, FS_EmptySet
  <2>6. PICK last \in page.items : LastSeq(page.items) = last.seq
    <3>1. \E n \in page.items : \A o \in page.items : o.seq <= n.seq
      BY <1>3, <1>6, <2>5, LastExists DEF PullRecords
    <3> QED
      BY <2>5, <3>1 DEF LastSeq
  <2>7. last.seq \in Nat /\ page.edge \in Nat /\ last.seq <= page.edge
    BY <1>3, <1>4 DEF Scanning, PullRecords, Message
  <2>8. ASSUME NEW n \in new.must \cap messages[r]
        PROVE  n \in new.items \/ (new.next # None /\ n.seq > new.next)
    <3>1. n.seq \in Nat
      BY <1>3 DEF Core, TypeOK, Message
    <3>2. n \in page.items \/ n.seq > page.edge \/ last.seq < n.seq
      BY <1>4, <2>2, <2>7, NoneAssumption DEF Scanning
    <3> QED
      BY <2>2, <2>6, <2>7, <3>1, <3>2, NoneAssumption
  <2>9. Complete(new, messages[r])
    BY <2>2, <2>4, <2>8 DEF Complete
  <2> QED
    BY <1>7, <2>2, <2>3, <2>9
<1> QED
  BY <1>8, <1>9, <1>10

LEMMA PageStep ==
  ASSUME Core, PageInv, [Next]_vars
  PROVE  PageInv'
<1>1. CASE UNCHANGED <<messages, seq, pulls>>
  <2>1. \A r \in Recipients : seq[r] \in Nat
    BY DEF Core, TypeOK
  <2> QED
    BY <1>1, <2>1, PagesKept
<1>2. ASSUME NEW r \in Recipients, NEW gone, messages' = [messages EXCEPT ![r] = @ \ gone],
             UNCHANGED <<seq, pulls>>
      PROVE  PageInv'
  <2>1. \A q \in Recipients :
          /\ seq[q] <= seq'[q] /\ seq'[q] \in Nat
          /\ \A m \in messages'[q] : m \in messages[q]
    BY <1>2 DEF Core, TypeOK
  <2> QED
    BY <1>2, <2>1, PagesKept
<1>3. CASE Request
  <2>1. ASSUME NEW c \in Callers, NEW r \in Recipients, NEW k \in Keys,
               NEW b \in 0..MaxMessageBytes, NEW t \in 0..now, Push(c, r, k, b, t)
        PROVE  PageInv'
    <3>1. CASE PushDuplicate(c, r, k)
      BY <1>1, <2>1, <3>1 DEF Push, PushDuplicate, trees
    <3>2. CASE PushStored(c, r, k, b, t)
      <4>1. PICK m : m = NewMessage(k, b, t, seq[r])
        OBVIOUS
      <4>2. /\ messages' = [messages EXCEPT ![r] = @ \cup {m}]
            /\ seq' = [seq EXCEPT ![r] = @ + 1] /\ UNCHANGED pulls
        BY <2>1, <3>2, <4>1 DEF Push, PushStored
      <4>3. m.seq = seq[r]
        BY <4>1 DEF NewMessage
      <4>4. \A q \in Recipients :
              /\ seq[q] <= seq'[q] /\ seq'[q] \in Nat
              /\ \A n \in messages'[q] : n \in messages[q] \/ n.seq = seq[q]
        BY <4>2, <4>3 DEF Core, TypeOK
      <4> QED
        BY <4>2, <4>4, PagesKept
    <3> QED
      BY <2>1, <3>1, <3>2 DEF Push
  <2>2. ASSUME NEW c \in Callers, NEW r \in Recipients, NEW K \in SUBSET Keys, Ack(c, r, K)
        PROVE  PageInv'
    BY <1>2, <2>2 DEF Ack
  <2> QED
    BY <1>3, <2>1, <2>2 DEF Request
<1>4. CASE Puller
  <2>1. ASSUME NEW p \in Pullers, PullLoopEnds(p)
        PROVE  PageInv'
    <3>1. PICK new : new = [pulls[p] EXCEPT !.pc = "done"]
      OBVIOUS
    <3>2. /\ pulls[p] \in PullRecords /\ pulls[p].pc = "scan"
          /\ pulls[p].leaf = {} /\ Unread(p) = {}
      BY <2>1, ReadingType DEF PullLoopEnds, Core
    <3>3. /\ new.pc = "done" /\ new.to = pulls[p].to /\ new.must = pulls[p].must
          /\ new.items = pulls[p].items /\ new.next = pulls[p].next
      BY <3>1, <3>2 DEF PullRecords
    <3>4. /\ Scanning(pulls[p], messages[pulls[p].to])
          /\ \A m \in pulls[p].must : m.seq < seq[pulls[p].to]
      BY <3>2 DEF PageInv, PageOf
    <3>5. \A m \in messages[pulls[p].to] : ~(pulls[p].edge = None \/ m.seq > pulls[p].edge)
      BY <3>2 DEF Unread
    <3>6. Complete(new, messages[new.to])
      BY <3>2, <3>3, <3>4, <3>5 DEF Scanning, Complete
    <3>7. PageOf(new, messages[new.to], seq[new.to])
      BY <3>3, <3>4, <3>6 DEF PageOf
    <3>8. pulls' = [pulls EXCEPT ![p] = new] /\ UNCHANGED <<messages, seq>>
      BY <2>1, <3>1 DEF PullLoopEnds, trees
    <3> QED
      BY <3>7, <3>8, PageTurned
  <2>2. ASSUME NEW p \in Pullers, PullAnswer(p)
        PROVE  PageInv'
    <3>1. PageOf(PullIdle, messages[PullIdle.to], seq[PullIdle.to])
      BY DEF PageOf, PullIdle
    <3> QED
      BY <2>2, <3>1, PageTurned DEF PullAnswer, trees
  <2> QED
    BY <1>4, <2>1, <2>2, PageStart, PageRead, PageNext DEF Puller
<1>5. CASE Crash
  BY <1>5 DEF Crash, PullIdle, PageInv, PageOf
<1>6. CASE GcRemoveMessage
  <2>1. gc.at[1] \in Recipients
    BY <1>6 DEF GcRemoveMessage, Core, HeldMessage, Arrivals
  <2> QED
    BY <1>2, <1>6, <2>1 DEF GcRemoveMessage
<1>7. CASE \/ Tick \/ Persist \/ GcFails \/ UNCHANGED vars
           \/ \E c \in Callers : Answer(c) \/ Drop(c)
  BY <1>1, <1>7 DEF Tick, Persist, GcFails, Answer, Drop, vars, trees
<1>8. CASE \/ \E t \in 0..now : GcStart(t)
           \/ GcNext \/ GcRemoveIndex \/ GcCount \/ GcLoopEnds \/ GcFlush
           \/ \E r \in Recipients : GcWriteQuota(r)
           \/ \E edge \in Recipients \X Edges : GcRead(edge)
  BY <1>1, <1>8 DEF GcStart, GcRead, GcNext, GcRemoveIndex, GcCount, GcLoopEnds, GcFlush,
                    GcWriteQuota, trees
<1> QED
  BY <1>3, <1>4, <1>5, <1>6, <1>7, <1>8 DEF Next, Collector, GcStep

\* A page has no gaps although the scan reads a tree that others change under it.
THEOREM PageHasNoGapsHolds == Spec => []PageHasNoGaps
<1>1. Init => PageInv
  BY DEF Init, PageInv, PageOf, PullIdle
<1>2. PageInv => PageHasNoGaps
  BY DEF PageInv, PageOf, Complete, PageHasNoGaps
<1> QED
  BY <1>1, <1>2, CoreInit, CoreStep, PageStep, PTL DEF Spec

-----------------------------------------------------------------------------
(***************************************************************************)
(* The cursors that pulls hand out.                                        *)
(***************************************************************************)

\* Every next_cursor is one of Cursors, the cursors a client may come back with,
\* also after a crash has set the counter back.
CursorsBounded ==
  /\ \A r \in Recipients : seq[r] <= MaxSeq /\ disk.seq[r] <= MaxSeq
  /\ \A p \in Pullers : pulls[p].pc # "idle" =>
       /\ \A m \in pulls[p].items \cup pulls[p].leaf : m.seq <= MaxSeq
       /\ pulls[p].next # None => pulls[p].next <= MaxSeq

\* The last arrival_seq of a page is one of its messages'.
LEMMA LastSeqBounded ==
  ASSUME NEW S \in SUBSET Message, IsFiniteSet(S), \A m \in S : m.seq <= MaxSeq,
         LastSeq(S) # None
  PROVE  LastSeq(S) <= MaxSeq
<1>1. S # {}
  BY DEF LastSeq
<1>2. \E l \in S : \A n \in S : n.seq <= l.seq
  BY <1>1, LastExists
<1>3. PICK l : l = CHOOSE n \in S : \A q \in S : q.seq <= n.seq
  OBVIOUS
<1>4. l \in S
  BY <1>2, <1>3
<1>5. LastSeq(S) = l.seq
  BY <1>1, <1>3 DEF LastSeq
<1> QED
  BY <1>4, <1>5

\* A scan copies what the counter has numbered.
LEMMA CursorsRead ==
  ASSUME Core, CursorsBounded, NEW p \in Pullers, NEW edge \in Edges, PullRead(p, edge)
  PROVE  CursorsBounded'
<1>1. pulls[p] \in PullRecords /\ pulls[p].pc = "scan" /\ pulls[p].to \in Recipients
  BY ReadingType DEF PullRead, Core, PullRecords
<1>2. /\ \A q \in Pullers \ {p} : pulls'[q] = pulls[q]
      /\ pulls'[p].items = pulls[p].items /\ pulls'[p].next = pulls[p].next
      /\ pulls'[p].leaf \subseteq messages[pulls[p].to]
      /\ UNCHANGED <<seq, disk>>
  BY <1>1 DEF PullRead, Unread, Core, TypeOK, trees, PullRecords
<1>3. ASSUME NEW m \in messages[pulls[p].to]
      PROVE  m.seq <= MaxSeq
  <2>1. /\ m.seq < seq[pulls[p].to] /\ seq[pulls[p].to] <= MaxSeq
        /\ seq[pulls[p].to] \in Nat /\ m.seq \in Nat
    BY <1>1 DEF Core, SeqFresh, TypeOK, CursorsBounded, Message
  <2> QED
    BY <2>1, BoundsAssumption
<1> QED
  BY <1>1, <1>2, <1>3 DEF CursorsBounded

LEMMA CursorsPull ==
  ASSUME Core, CursorsBounded, NEW p \in Pullers, PullNext(p)
  PROVE  CursorsBounded'
<1>1. PICK page, m : page = pulls[p] /\ m = FirstOf(page.leaf)
  OBVIOUS
<1>2. page \in PullRecords /\ page.pc = "scan" /\ InHand(page) /\ m \in page.leaf
  BY <1>1, ReadingType, FirstCopied DEF PullNext, Core, ScansInHand
<1>3. /\ \A n \in page.items \cup page.leaf : n.seq <= MaxSeq
      /\ page.next # None => page.next <= MaxSeq
  BY <1>1, <1>2 DEF CursorsBounded
<1>4. LastSeq(page.items) # None => LastSeq(page.items) <= MaxSeq
  BY <1>2, <1>3, LastSeqBounded DEF PullRecords, InHand
<1>5. PICK new : new =
        IF PassedOver(page, m) THEN [page EXCEPT !.leaf = page.leaf \ {m}]
        ELSE IF Cardinality(page.items) < page.limit
          THEN [page EXCEPT !.leaf = page.leaf \ {m}, !.items = page.items \cup {m}]
          ELSE [page EXCEPT !.pc = "done", !.leaf = {}, !.next = LastSeq(page.items)]
  OBVIOUS
<1>6. /\ new.items \cup new.leaf \subseteq page.items \cup page.leaf
      /\ new.next \in {page.next, LastSeq(page.items)}
  BY <1>2, <1>5 DEF PullRecords
<1>7. pulls' = [pulls EXCEPT ![p] = new] /\ UNCHANGED <<seq, disk>>
  BY <1>1, <1>5 DEF PullNext, trees
<1>8. \A q \in Pullers : pulls'[q] = IF q = p THEN new ELSE pulls[q]
  BY <1>7 DEF Core, TypeOK
<1> QED
  BY <1>3, <1>4, <1>6, <1>7, <1>8 DEF CursorsBounded

LEMMA CursorsStep ==
  ASSUME Core, CursorsBounded, [Next]_vars
  PROVE  CursorsBounded'
<1>1. ASSUME \A r \in Recipients : seq'[r] <= MaxSeq /\ disk'.seq[r] <= MaxSeq, UNCHANGED pulls
      PROVE  CursorsBounded'
  BY <1>1 DEF CursorsBounded
<1>2. ASSUME seq' = seq, disk' = disk \/ disk' = Snapshot, UNCHANGED pulls
      PROVE  CursorsBounded'
  <2>1. disk'.seq = disk.seq \/ disk'.seq = seq
    BY <1>2, SnapshotFields DEF Core
  <2> QED
    BY <1>1, <1>2, <2>1 DEF CursorsBounded
<1>3. CASE Request
  <2>1. ASSUME NEW c \in Callers, NEW r \in Recipients, NEW k \in Keys,
               NEW b \in 0..MaxMessageBytes, NEW t \in 0..now, PushStored(c, r, k, b, t),
               UNCHANGED <<disk, pulls>>
        PROVE  CursorsBounded'
    <3>1. seq[r] \in Nat /\ seq[r] < MaxSeq /\ seq' = [seq EXCEPT ![r] = @ + 1]
      BY <2>1 DEF PushStored, Core, TypeOK
    <3>2. seq[r] + 1 <= MaxSeq
      BY <3>1, BoundsAssumption
    <3>3. \A q \in Recipients : seq'[q] <= MaxSeq
      BY <3>1, <3>2 DEF CursorsBounded, Core, TypeOK
    <3> QED
      BY <1>1, <2>1, <3>3 DEF CursorsBounded
  <2>2. ASSUME NEW c \in Callers, NEW r \in Recipients, NEW k \in Keys,
               NEW b \in 0..MaxMessageBytes, NEW t \in 0..now, Push(c, r, k, b, t)
        PROVE  CursorsBounded'
    BY <1>2, <2>1, <2>2 DEF Push, PushDuplicate, trees
  <2>3. ASSUME NEW c \in Callers, NEW r \in Recipients, NEW K \in SUBSET Keys, Ack(c, r, K)
        PROVE  CursorsBounded'
    BY <1>2, <2>3 DEF Ack
  <2> QED
    BY <1>3, <2>2, <2>3 DEF Request
<1>4. CASE Puller
  <2>1. ASSUME NEW p \in Pullers, NEW r \in Recipients, NEW c \in Cursors, NEW l \in 1..PullBatchMax,
               NEW t \in 0..now, PullStart(p, r, c, l, t)
        PROVE  CursorsBounded'
    <3>1. /\ \A q \in Pullers \ {p} : pulls'[q] = pulls[q]
          /\ pulls'[p].items = {} /\ pulls'[p].leaf = {} /\ pulls'[p].next = None
          /\ UNCHANGED <<seq, disk>>
      BY <2>1 DEF PullStart, Core, TypeOK, trees
    <3> QED
      BY <3>1 DEF CursorsBounded
  <2>2. ASSUME NEW p \in Pullers, PullLoopEnds(p)
        PROVE  CursorsBounded'
    <3>1. pulls[p] \in PullRecords /\ pulls[p].pc = "scan"
      BY <2>2, ReadingType DEF PullLoopEnds, Core
    <3>2. /\ \A q \in Pullers \ {p} : pulls'[q] = pulls[q]
          /\ pulls'[p].items = pulls[p].items /\ pulls'[p].leaf = pulls[p].leaf
          /\ pulls'[p].next = pulls[p].next
          /\ UNCHANGED <<seq, disk>>
      BY <2>2, <3>1 DEF PullLoopEnds, Core, TypeOK, trees, PullRecords
    <3> QED
      BY <3>1, <3>2 DEF CursorsBounded
  <2>3. ASSUME NEW p \in Pullers, PullAnswer(p)
        PROVE  CursorsBounded'
    <3>1. /\ \A q \in Pullers \ {p} : pulls'[q] = pulls[q]
          /\ pulls'[p].pc = "idle" /\ UNCHANGED <<seq, disk>>
      BY <2>3 DEF PullAnswer, Core, TypeOK, trees, PullIdle
    <3> QED
      BY <3>1 DEF CursorsBounded
  <2> QED
    BY <1>4, <2>1, <2>2, <2>3, CursorsRead, CursorsPull DEF Puller
<1>5. CASE Crash
  BY <1>5 DEF Crash, PullIdle, CursorsBounded
<1>6. CASE \/ Tick \/ Persist \/ GcFails \/ UNCHANGED vars
           \/ \E c \in Callers : Answer(c) \/ Drop(c)
  BY <1>2, <1>6 DEF Tick, Persist, GcFails, Answer, Drop, vars, trees
<1>7. CASE Collector
  BY <1>2, <1>7 DEF Collector, GcStep, GcStart, GcRead, GcNext, GcRemoveMessage, GcRemoveIndex, GcCount,
                    GcLoopEnds, GcFlush, GcWriteQuota, trees
<1> QED
  BY <1>3, <1>4, <1>5, <1>6, <1>7 DEF Next

=============================================================================
