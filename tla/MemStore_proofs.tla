--------------------------- MODULE MemStore_proofs ---------------------------
(***************************************************************************)
(* Proofs about the in-memory backend: for any recipients, keys and limits *)
(* its index and its totals never drift from its queues.                   *)
(***************************************************************************)
EXTENDS MemStore, RelayStore_proofs

\* Arrival numbers are used once.
SeqFresh ==
  \A r \in Recipients :
    /\ \A m \in queue[r] : m.seq < seq[r]
    /\ \A m, n \in queue[r] : m.seq = n.seq => m = n

\* The limits hold of the cached totals, the only ones a push looks at.
TotalsWithinLimits ==
  \A r \in Recipients : quotaCount[r] <= MaxMessages /\ quotaBytes[r] <= MaxQueueBytes

QueuesFinite == \A r \in Recipients : IsFiniteSet(queue[r])

\* The inductive invariant.  IndexMatchesQueue is not inductive alone: that a
\* new message disturbs no other entry of the index, and that taking messages
\* out clears exactly their entries, needs SeqFresh; QueueWithinLimits follows
\* from QuotaMatchesQueue and TotalsWithinLimits.
StoreInv ==
  /\ StoreTypeOK
  /\ QueuesFinite
  /\ SeqFresh
  /\ IndexMatchesQueue
  /\ QuotaMatchesQueue
  /\ TotalsWithinLimits

Inv == TypeOK /\ StoreInv

-----------------------------------------------------------------------------

\* Keys name at most one message of a queue.
LEMMA OneMessagePerKey ==
  ASSUME StoreInv, NEW r \in Recipients, NEW m \in queue[r], NEW n \in queue[r], m.key = n.key
  PROVE  m = n
BY DEF StoreInv, SeqFresh, IndexMatchesQueue

\* Taking messages out of the queues, the way pull, ack and purge_expired do:
\* with their index entries, and deducting their number and their bytes.
LEMMA RemovalKeepsStore ==
  ASSUME StoreInv,
         NEW gone \in [Recipients -> SUBSET Message],
         \A r \in Recipients : gone[r] \subseteq queue[r],
         known' = known, seq' = seq,
         queue' = [r \in Recipients |-> queue[r] \ gone[r]],
         idx' = [r \in Recipients |-> DropIndex(idx[r], gone[r])],
         quotaCount' = [r \in Recipients |-> SatSub(quotaCount[r], Cardinality(gone[r]))],
         quotaBytes' = [r \in Recipients |-> SatSub(quotaBytes[r], Bytes(gone[r]))]
  PROVE  StoreInv'
<1> USE DEF StoreInv
<1>1. ASSUME NEW r \in Recipients
      PROVE  /\ IsFiniteSet(queue[r] \ gone[r])
             /\ Cardinality(queue[r] \ gone[r]) = quotaCount'[r]
             /\ Bytes(queue[r] \ gone[r]) = quotaBytes'[r]
             /\ quotaCount'[r] <= quotaCount[r]
             /\ quotaBytes'[r] <= quotaBytes[r]
  <2>1. IsFiniteSet(queue[r]) /\ gone[r] \in SUBSET queue[r]
    BY DEF QueuesFinite
  <2>2. quotaCount[r] = Cardinality(queue[r]) /\ quotaBytes[r] = Bytes(queue[r])
    BY DEF QuotaMatchesQueue
  <2>3. /\ quotaCount'[r] = SatSub(quotaCount[r], Cardinality(gone[r]))
        /\ quotaBytes'[r] = SatSub(quotaBytes[r], Bytes(gone[r]))
    OBVIOUS
  <2>4. /\ IsFiniteSet(queue[r] \ gone[r])
        /\ Cardinality(queue[r] \ gone[r]) = SatSub(Cardinality(queue[r]), Cardinality(gone[r]))
        /\ Bytes(queue[r] \ gone[r]) = SatSub(Bytes(queue[r]), Bytes(gone[r]))
        /\ Cardinality(queue[r] \ gone[r]) <= Cardinality(queue[r])
        /\ Bytes(queue[r] \ gone[r]) <= Bytes(queue[r])
    BY <2>1, RemovedMessages
  <2> QED
    BY <2>2, <2>3, <2>4
<1>2. StoreTypeOK'
  <2>1. \A r \in Recipients : quotaCount'[r] \in Nat /\ quotaBytes'[r] \in Nat
    BY <1>1, FS_CardinalityType, BytesType
  <2>2. idx' \in [Recipients -> [Keys -> Nat \cup {None}]]
    BY DEF StoreTypeOK, DropIndex
  <2> QED
    BY <2>1, <2>2 DEF StoreTypeOK
<1>3. QueuesFinite'
  BY <1>1 DEF QueuesFinite
<1>4. SeqFresh'
  BY DEF SeqFresh
<1>5. IndexMatchesQueue'
  <2> SUFFICES ASSUME NEW r \in Recipients
               PROVE  /\ \A m \in queue'[r] : idx'[r][m.key] = m.seq
                      /\ \A k \in Keys : idx'[r][k] # None =>
                           \E m \in queue'[r] : m.key = k /\ m.seq = idx'[r][k]
    BY DEF IndexMatchesQueue
  <2>1. queue'[r] = queue[r] \ gone[r] /\ gone[r] \subseteq queue[r]
    OBVIOUS
  <2>2. \A k \in Keys : idx'[r][k] = IF \E m \in gone[r] : m.key = k THEN None ELSE idx[r][k]
    BY DEF DropIndex
  <2>3. ASSUME NEW m \in queue'[r]
        PROVE  idx'[r][m.key] = m.seq
    <3>1. \A n \in gone[r] : n.key # m.key
      BY <2>1, OneMessagePerKey
    <3>2. m.key \in Keys
      BY <2>1 DEF StoreTypeOK, Message
    <3> QED
      BY <2>1, <2>2, <3>1, <3>2 DEF IndexMatchesQueue
  <2>4. ASSUME NEW k \in Keys, idx'[r][k] # None
        PROVE  \E m \in queue'[r] : m.key = k /\ m.seq = idx'[r][k]
    <3>1. idx'[r][k] = idx[r][k] /\ ~ \E m \in gone[r] : m.key = k
      BY <2>2, <2>4
    <3>2. PICK m \in queue[r] : m.key = k /\ m.seq = idx[r][k]
      BY <2>4, <3>1 DEF IndexMatchesQueue
    <3> QED
      BY <2>1, <3>1, <3>2
  <2> QED
    BY <2>3, <2>4
<1>6. QuotaMatchesQueue'
  BY <1>1 DEF QuotaMatchesQueue
<1>7. TotalsWithinLimits'
  <2> SUFFICES ASSUME NEW r \in Recipients
               PROVE  quotaCount'[r] <= MaxMessages /\ quotaBytes'[r] <= MaxQueueBytes
    BY DEF TotalsWithinLimits
  <2>1. /\ quotaCount[r] \in Nat /\ quotaCount'[r] \in Nat
        /\ quotaBytes[r] \in Nat /\ quotaBytes'[r] \in Nat
    BY <1>2 DEF StoreTypeOK
  <2>2. quotaCount[r] <= MaxMessages /\ quotaBytes[r] <= MaxQueueBytes
    BY DEF TotalsWithinLimits
  <2>3. quotaCount'[r] <= quotaCount[r] /\ quotaBytes'[r] <= quotaBytes[r]
    BY <1>1
  <2> QED
    BY <2>1, <2>2, <2>3, LimitsAssumption
<1> QED
  BY <1>2, <1>3, <1>4, <1>5, <1>6, <1>7

\* The same for one recipient, the others being left alone.
LEMMA RemovalFromOneKeepsStore ==
  ASSUME StoreInv,
         NEW r \in Recipients, NEW T \in SUBSET queue[r],
         known' = known, seq' = seq,
         queue' = [queue EXCEPT ![r] = @ \ T],
         idx' = [idx EXCEPT ![r] = DropIndex(@, T)],
         quotaCount' = [quotaCount EXCEPT ![r] = SatSub(@, Cardinality(T))],
         quotaBytes' = [quotaBytes EXCEPT ![r] = SatSub(@, Bytes(T))]
  PROVE  StoreInv'
<1> DEFINE gone == [q \in Recipients |-> IF q = r THEN T ELSE {}]
<1>1. StoreTypeOK
  BY DEF StoreInv
<1>2. /\ gone \in [Recipients -> SUBSET Message]
      /\ \A q \in Recipients : gone[q] \subseteq queue[q]
  BY <1>1 DEF StoreTypeOK
<1>3. queue' = [q \in Recipients |-> queue[q] \ gone[q]]
  BY <1>1 DEF StoreTypeOK
<1>4. idx' = [q \in Recipients |-> DropIndex(idx[q], gone[q])]
  <2>1. \A q \in Recipients : DropIndex(idx[q], {}) = idx[q]
    BY <1>1 DEF DropIndex, StoreTypeOK
  <2> QED
    BY <1>1, <2>1 DEF StoreTypeOK
<1>5. \A n \in Nat : SatSub(n, 0) = n
  BY DEF SatSub
<1>6. quotaCount' = [q \in Recipients |-> SatSub(quotaCount[q], Cardinality(gone[q]))]
  <2>1. \A q \in Recipients : SatSub(quotaCount[q], Cardinality({})) = quotaCount[q]
    BY <1>1, <1>5, FS_EmptySet DEF StoreTypeOK
  <2> QED
    BY <1>1, <2>1 DEF StoreTypeOK
<1>7. quotaBytes' = [q \in Recipients |-> SatSub(quotaBytes[q], Bytes(gone[q]))]
  <2>1. \A q \in Recipients : SatSub(quotaBytes[q], Bytes({})) = quotaBytes[q]
    BY <1>1, <1>5, BytesType DEF StoreTypeOK
  <2> QED
    BY <1>1, <2>1 DEF StoreTypeOK
<1> HIDE DEF gone
<1> QED
  BY <1>2, <1>3, <1>4, <1>6, <1>7, RemovalKeepsStore

-----------------------------------------------------------------------------

\* A push that is stored adds the message to the queue, the index and the totals.
LEMMA PushStoredKeepsStore ==
  ASSUME StoreInv, NEW r \in Recipients, NEW k \in Keys, NEW b \in 0..MaxMessageBytes,
         NEW t \in Nat, PushStored(r, k, b, t), known' = known \cup {r}
  PROVE  StoreInv'
<1> DEFINE m == NewMessage(k, b, t, seq[r])
<1>1. /\ StoreTypeOK /\ QueuesFinite /\ SeqFresh
      /\ IndexMatchesQueue /\ QuotaMatchesQueue /\ TotalsWithinLimits
  BY DEF StoreInv
<1>2. /\ m \in Message /\ m.key = k /\ m.seq = seq[r] /\ m.bytes = b
      /\ seq[r] \in Nat /\ b \in Nat
  BY <1>1, LimitsAssumption DEF NewMessage, Message, StoreTypeOK
<1>3. \A n \in queue[r] : n.seq \in Nat /\ n.seq < seq[r] /\ n.key \in Keys
  BY <1>1 DEF SeqFresh, StoreTypeOK, Message
<1>4. m \notin queue[r] /\ \A n \in queue[r] : n.seq # seq[r]
  BY <1>2, <1>3
<1>5. queue' = [queue EXCEPT ![r] = @ \cup {m}]
  BY <1>1, <1>4 DEF PushStored, StoreTypeOK
<1>6. idx' = [idx EXCEPT ![r][k] = seq[r]] /\ seq' = [seq EXCEPT ![r] = @ + 1]
  BY DEF PushStored
<1>7. /\ quotaCount' = [quotaCount EXCEPT ![r] = @ + 1]
      /\ quotaBytes' = [quotaBytes EXCEPT ![r] = @ + b]
      /\ idx[r][k] = None
      /\ quotaCount[r] + 1 <= MaxMessages /\ quotaBytes[r] + b <= MaxQueueBytes
  BY DEF PushStored, FitsQuota
<1> HIDE DEF m
<1>8. StoreTypeOK'
  BY <1>1, <1>2, <1>5, <1>6, <1>7 DEF StoreTypeOK
<1>9. /\ IsFiniteSet(queue[r] \cup {m})
      /\ Cardinality(queue[r] \cup {m}) = Cardinality(queue[r]) + 1
      /\ Bytes(queue[r] \cup {m}) = Bytes(queue[r]) + b
  BY <1>1, <1>2, <1>4, AddedMessage DEF QueuesFinite
<1>10. QueuesFinite'
  BY <1>1, <1>5, <1>9 DEF QueuesFinite, StoreTypeOK
<1>11. SeqFresh'
  <2> SUFFICES ASSUME NEW q \in Recipients
               PROVE  /\ \A n \in queue'[q] : n.seq < seq'[q]
                      /\ \A n, o \in queue'[q] : n.seq = o.seq => n = o
    BY DEF SeqFresh
  <2>1. CASE q = r
    <3>1. queue'[q] = queue[r] \cup {m} /\ seq'[q] = seq[r] + 1
      BY <1>1, <1>5, <1>6, <2>1 DEF StoreTypeOK
    <3> QED
      BY <1>1, <1>2, <1>3, <1>4, <2>1, <3>1 DEF SeqFresh
  <2>2. CASE q # r
    BY <1>1, <1>5, <1>6, <2>2 DEF SeqFresh, StoreTypeOK
  <2> QED
    BY <2>1, <2>2
<1>12. IndexMatchesQueue'
  <2> SUFFICES ASSUME NEW q \in Recipients
               PROVE  /\ \A n \in queue'[q] : idx'[q][n.key] = n.seq
                      /\ \A j \in Keys : idx'[q][j] # None =>
                           \E n \in queue'[q] : n.key = j /\ n.seq = idx'[q][j]
    BY DEF IndexMatchesQueue
  <2>1. CASE q = r
    <3>1. /\ queue'[q] = queue[r] \cup {m}
          /\ \A j \in Keys : idx'[q][j] = IF j = k THEN seq[r] ELSE idx[r][j]
      BY <1>1, <1>5, <1>6, <2>1 DEF StoreTypeOK
    <3>2. \A n \in queue[r] : n.key # k
      BY <1>1, <1>3, <1>7, NoneAssumption DEF IndexMatchesQueue
    <3> QED
      BY <1>1, <1>2, <1>3, <3>1, <3>2 DEF IndexMatchesQueue
  <2>2. CASE q # r
    BY <1>1, <1>5, <1>6, <2>2 DEF IndexMatchesQueue, StoreTypeOK
  <2> QED
    BY <2>1, <2>2
<1>13. QuotaMatchesQueue'
  BY <1>1, <1>5, <1>7, <1>9 DEF QuotaMatchesQueue, StoreTypeOK
<1>14. TotalsWithinLimits'
  BY <1>1, <1>7 DEF TotalsWithinLimits, StoreTypeOK
<1> QED
  BY <1>8, <1>10, <1>11, <1>12, <1>13, <1>14 DEF StoreInv

\* A pull removes the page it returns.
LEMMA PullPageKeepsStore ==
  ASSUME StoreInv, NEW r \in Recipients, NEW cursor, NEW limit, NEW t,
         PullPage(r, cursor, limit, t)
  PROVE  StoreInv'
<1> DEFINE lapsed == Lapsed(queue[r], cursor, limit, t)
<1>1. lapsed \in SUBSET queue[r]
  BY DEF Lapsed, Beyond
<1>2. /\ known' = known /\ seq' = seq
      /\ queue' = [queue EXCEPT ![r] = @ \ lapsed]
      /\ idx' = [idx EXCEPT ![r] = DropIndex(@, lapsed)]
      /\ quotaCount' = [quotaCount EXCEPT ![r] = SatSub(@, Cardinality(lapsed))]
      /\ quotaBytes' = [quotaBytes EXCEPT ![r] = SatSub(@, Bytes(lapsed))]
  BY DEF PullPage
<1> HIDE DEF lapsed
<1> QED
  BY <1>1, <1>2, RemovalFromOneKeepsStore

\* An ack removes the messages it names and finds.
LEMMA AckKeepsStore ==
  ASSUME StoreInv, NEW r \in Recipients, NEW K \in SUBSET Keys, AckKnown(r, K)
  PROVE  StoreInv'
<1> DEFINE hit == {k \in K : idx[r][k] # None}
           gone == {m \in queue[r] : \E k \in hit : idx[r][k] = m.seq}
<1>1. StoreTypeOK /\ SeqFresh /\ IndexMatchesQueue
  BY DEF StoreInv
<1>2. \A k \in Keys : k \in hit <=> \E m \in gone : m.key = k
  <2>1. ASSUME NEW k \in hit
        PROVE  \E m \in gone : m.key = k
    BY <1>1 DEF IndexMatchesQueue
  <2>2. ASSUME NEW m \in gone
        PROVE  m.key \in hit
    <3>1. PICK k \in hit : idx[r][k] = m.seq
      OBVIOUS
    <3>2. PICK n \in queue[r] : n.key = k /\ n.seq = idx[r][k]
      BY <1>1 DEF IndexMatchesQueue
    <3> QED
      BY <1>1, <3>1, <3>2 DEF SeqFresh
  <2> QED
    BY <2>1, <2>2
<1>3. [k \in Keys |-> IF k \in hit THEN None ELSE idx[r][k]] = DropIndex(idx[r], gone)
  BY <1>2 DEF DropIndex
<1>4. /\ known' = known /\ seq' = seq
      /\ queue' = [queue EXCEPT ![r] = @ \ gone]
      /\ quotaCount' = [quotaCount EXCEPT ![r] = SatSub(@, Cardinality(gone))]
      /\ quotaBytes' = [quotaBytes EXCEPT ![r] = SatSub(@, Bytes(gone))]
  BY DEF AckKnown
<1>5. idx' = [idx EXCEPT ![r] = [k \in Keys |-> IF k \in hit THEN None ELSE idx[r][k]]]
  BY DEF AckKnown
<1>6. gone \in SUBSET queue[r]
  OBVIOUS
<1> HIDE DEF gone, hit
<1>7. idx' = [idx EXCEPT ![r] = DropIndex(@, gone)]
  BY <1>3, <1>5
<1> QED
  BY <1>4, <1>6, <1>7, RemovalFromOneKeepsStore

\* purge_expired removes what it collects, of every recipient.
LEMMA PurgeKeepsStore ==
  ASSUME StoreInv, NEW t, Purge(t)
  PROVE  StoreInv'
<1> DEFINE gone == [r \in Recipients |-> {m \in queue[r] : <<r, m>> \in Collected(t)}]
<1>1. /\ gone \in [Recipients -> SUBSET Message]
      /\ \A r \in Recipients : gone[r] \subseteq queue[r]
  BY DEF StoreInv, StoreTypeOK
<1>2. /\ known' = known /\ seq' = seq
      /\ queue' = [r \in Recipients |-> queue[r] \ gone[r]]
      /\ idx' = [r \in Recipients |-> DropIndex(idx[r], gone[r])]
      /\ quotaCount' = [r \in Recipients |-> SatSub(quotaCount[r], Cardinality(gone[r]))]
      /\ quotaBytes' = [r \in Recipients |-> SatSub(quotaBytes[r], Bytes(gone[r]))]
  BY DEF Purge
<1> HIDE DEF gone
<1> QED
  BY <1>1, <1>2, RemovalKeepsStore

\* What a recipient has is untouched; another recipient may have become known.
LEMMA UntouchedKeepsStore ==
  ASSUME StoreInv, known' \in SUBSET Recipients,
         UNCHANGED <<queue, idx, seq, quotaCount, quotaBytes>>
  PROVE  StoreInv'
BY DEF StoreInv, StoreTypeOK, QueuesFinite, SeqFresh, IndexMatchesQueue,
       QuotaMatchesQueue, TotalsWithinLimits

\* A call that leaves the store alone leaves it consistent.
LEMMA StutterKeepsStore ==
  ASSUME StoreInv, UNCHANGED store
  PROVE  StoreInv'
BY UntouchedKeepsStore DEF store, StoreInv, StoreTypeOK

\* A push leaves the store consistent whatever becomes of it.
LEMMA PushKeepsStore ==
  ASSUME StoreInv, NEW r \in Recipients, NEW k \in Keys, NEW b \in 0..MaxMessageBytes,
         NEW t \in Nat, Push(r, k, b, t)
  PROVE  StoreInv'
<1>1. CASE PushStored(r, k, b, t)
  BY <1>1, PushStoredKeepsStore DEF Push
<1>2. CASE PushDuplicate(r, k) \/ PushRefused(r, k, b)
  <2>1. known' \in SUBSET Recipients
    BY DEF Push, StoreInv, StoreTypeOK
  <2> QED
    BY <1>2, <2>1, UntouchedKeepsStore DEF PushDuplicate, PushRefused
<1> QED
  BY <1>1, <1>2 DEF Push

\* A pull leaves the store consistent whatever becomes of it.
LEMMA PullKeepsStore ==
  ASSUME StoreInv, NEW r \in Recipients, NEW cursor, NEW limit, NEW t,
         Pull(r, cursor, limit, t)
  PROVE  StoreInv'
BY PullPageKeepsStore, StutterKeepsStore DEF Pull, PullUnknown, PullForeign

\* So does an ack, of a known recipient or of an unknown one.
LEMMA AnyAckKeepsStore ==
  ASSUME StoreInv, NEW r \in Recipients, NEW K \in SUBSET Keys, NEW len, Ack(r, K, len)
  PROVE  StoreInv'
BY AckKeepsStore, StutterKeepsStore DEF Ack, AckUnknown

-----------------------------------------------------------------------------

\* The collector removes finitely many messages.
LEMMA CollectedFinite ==
  ASSUME QueuesFinite, NEW t
  PROVE  IsFiniteSet(Collected(t))
<1> DEFINE f == [r \in Recipients |-> {r} \X Leading(r, t)]
           T == {{r} \X Leading(r, t) : r \in Recipients}
<1>1. IsFiniteSet(T)
  <2>1. f \in Surjection(Recipients, T)
    BY DEF Surjection
  <2> HIDE DEF f, T
  <2> QED
    BY <2>1, RecipientsAssumption, FS_Surjection
<1>2. \A U \in T : IsFiniteSet(U)
  <2> SUFFICES ASSUME NEW r \in Recipients
               PROVE  IsFiniteSet({r} \X Leading(r, t))
    OBVIOUS
  <2>1. Leading(r, t) \in SUBSET queue[r] /\ IsFiniteSet(queue[r])
    BY DEF Leading, QueuesFinite
  <2>2. IsFiniteSet(Leading(r, t)) /\ IsFiniteSet({r})
    BY <2>1, FS_Subset, FS_Singleton
  <2> QED
    BY <2>2, FS_Product
<1>3. IsFiniteSet(UNION T)
  <2> HIDE DEF T
  <2> QED
    BY <1>1, <1>2, FS_UNION
<1>4. Candidates(t) = UNION T
  BY DEF Candidates
<1>5. Collected(t) \in SUBSET Candidates(t)
  BY DEF Collected
<1> QED
  BY <1>3, <1>4, <1>5, FS_Subset

\* Every call returns a reply of its kind.
LEMMA RepliesTyped ==
  ASSUME Inv, [Next]_vars, StoreInv'
  PROVE  reply' \in Replies
<1>1. /\ StoreTypeOK /\ QueuesFinite /\ reply \in Replies
      /\ \A r \in Recipients : quotaCount'[r] \in Nat /\ quotaBytes'[r] \in Nat
  BY DEF Inv, TypeOK, StoreInv, StoreTypeOK
<1>2. ASSUME NEW r \in Recipients, NEW k, NEW b, NEW t, Push(r, k, b, t)
      PROVE  reply' \in Replies
  <2>1. PushReply(r, TRUE) \in Replies /\ PushReply(r, FALSE) \in Replies
    BY <1>1 DEF PushReply, Replies
  <2>2. reply' \in {PushReply(r, TRUE), PushReply(r, FALSE), [op |-> "quota_exceeded"]}
    BY <1>2 DEF Push, PushDuplicate, PushRefused, PushStored
  <2>3. [op |-> "quota_exceeded"] \in Replies
    BY DEF Replies
  <2> QED
    BY <2>1, <2>2, <2>3
<1>3. ASSUME NEW r \in Recipients, NEW c, NEW l, NEW t \in 0..now, Pull(r, c, l, t)
      PROVE  reply' \in Replies
  <2>0. t \in Nat
    BY DEF Inv, TypeOK
  <2>1. CASE PullUnknown(r, t) \/ PullForeign(r, c)
    BY <2>0, <2>1 DEF PullUnknown, PullForeign, Replies
  <2>2. CASE PullPage(r, c, l, t)
    <3> DEFINE page == Page(queue[r], c, l, t)
    <3>1. page \in SUBSET queue[r] /\ queue[r] \in SUBSET Message /\ IsFiniteSet(queue[r])
      BY <1>1 DEF Page, Live, Beyond, QueuesFinite, StoreTypeOK
    <3>2. page \in SUBSET Message /\ IsFiniteSet(page) /\ Cardinality(page) \in Nat
      BY <3>1, FS_Subset, FS_CardinalityType
    <3>3. /\ LastSeq(page) \in Nat \cup {None}
          /\ SatSub(quotaCount'[r], Cardinality(page)) \in Nat
      BY <1>1, <3>2, LastSeqType, SatSubType
    <3>4. reply' = [op |-> "pull", items |-> page,
                    next |-> IF More(queue[r], c, l, t) THEN LastSeq(page) ELSE None,
                    remaining |-> SatSub(quotaCount'[r], Cardinality(page)), at |-> t]
      BY <2>2 DEF PullPage
    <3> HIDE DEF page
    <3> QED
      BY <2>0, <3>2, <3>3, <3>4 DEF Replies
  <2> QED
    BY <1>3, <2>1, <2>2 DEF Pull
<1>4. ASSUME NEW r \in Recipients, NEW K \in SUBSET Keys, NEW len \in Nat, Ack(r, K, len)
      PROVE  reply' \in Replies
  <2>1. CASE AckUnknown(r, len)
    BY <2>1 DEF AckUnknown, Replies
  <2>2. CASE AckKnown(r, K)
    <3> DEFINE hit == {k \in K : idx[r][k] # None}
               gone == {m \in queue[r] : \E k \in hit : idx[r][k] = m.seq}
    <3>1. IsFiniteSet(gone) /\ IsFiniteSet(K \ hit)
      BY <1>1, KeysAssumption, FS_Subset DEF QueuesFinite
    <3>2. Cardinality(gone) \in Nat /\ Cardinality(K \ hit) \in Nat
      BY <3>1, FS_CardinalityType
    <3>3. reply' = [op |-> "ack", deleted |-> Cardinality(gone),
                    missing |-> Cardinality(K \ hit), remaining |-> quotaCount'[r]]
      BY <2>2 DEF AckKnown
    <3> HIDE DEF gone, hit
    <3> QED
      BY <1>1, <3>2, <3>3 DEF Replies
  <2> QED
    BY <1>4, <2>1, <2>2 DEF Ack
<1>5. ASSUME NEW t \in Nat, Purge(t)
      PROVE  reply' \in Replies
  <2>1. Cardinality(Collected(t)) \in Nat
    BY <1>1, CollectedFinite, FS_CardinalityType
  <2> QED
    BY <1>5, <2>1 DEF Purge, Replies
<1>6. now \in Nat
  BY DEF Inv, TypeOK
<1>7. \A K \in SUBSET Keys, x \in 0..MaxRepeats : Cardinality(K) + x \in Nat
  BY KeysAssumption, BoundsAssumption, FS_Subset, FS_CardinalityType
<1> QED
  BY <1>1, <1>2, <1>3, <1>4, <1>5, <1>6, <1>7 DEF Next, Tick, vars

-----------------------------------------------------------------------------

\* A store just created is consistent.
THEOREM InitInv == Init => Inv
<1> SUFFICES ASSUME Init
             PROVE  Inv
  OBVIOUS
<1>1. TypeOK /\ StoreTypeOK
  BY DEF Init, TypeOK, StoreTypeOK, Replies
<1>2. QueuesFinite /\ QuotaMatchesQueue
  BY FS_EmptySet, BytesType DEF Init, QueuesFinite, QuotaMatchesQueue
<1>3. SeqFresh /\ IndexMatchesQueue
  BY DEF Init, SeqFresh, IndexMatchesQueue
<1>4. TotalsWithinLimits
  BY LimitsAssumption DEF Init, TotalsWithinLimits
<1> QED
  BY <1>1, <1>2, <1>3, <1>4 DEF Inv, StoreInv

\* Every call on the store, and every tick of the clock, keeps it consistent.
THEOREM NextInv == Inv /\ [Next]_vars => Inv'
<1> SUFFICES ASSUME Inv, [Next]_vars
             PROVE  Inv'
  OBVIOUS
<1>1. StoreInv /\ now \in Nat
  BY DEF Inv, TypeOK
<1>2. StoreInv'
  <2>1. CASE Tick \/ UNCHANGED vars
    BY <1>1, <2>1, StutterKeepsStore DEF Tick, vars
  <2>2. ASSUME NEW r \in Recipients, NEW k \in Keys, NEW b \in 0..MaxMessageBytes,
               NEW t \in 0..now, Push(r, k, b, t)
        PROVE  StoreInv'
    BY <1>1, <2>2, PushKeepsStore
  <2>3. ASSUME NEW r \in Recipients, NEW c \in Cursors, NEW l \in 1..PullBatchMax,
               NEW t \in 0..now, Pull(r, c, l, t)
        PROVE  StoreInv'
    BY <1>1, <2>3, PullKeepsStore
  <2>4. ASSUME NEW r \in Recipients, NEW K \in SUBSET Keys, NEW x \in 0..MaxRepeats,
               Ack(r, K, Cardinality(K) + x)
        PROVE  StoreInv'
    BY <1>1, <2>4, AnyAckKeepsStore
  <2>5. ASSUME NEW t \in 0..now, Purge(t)
        PROVE  StoreInv'
    BY <1>1, <2>5, PurgeKeepsStore
  <2> QED
    BY <2>1, <2>2, <2>3, <2>4, <2>5 DEF Next
<1>3. now' \in Nat
  BY <1>1 DEF Next, Tick, Push, Pull, Ack, Purge, vars
<1>4. reply' \in Replies
  BY <1>2, RepliesTyped
<1> QED
  BY <1>2, <1>3, <1>4 DEF Inv, TypeOK, StoreInv

\* The store is consistent in every state it reaches: the inductive invariant
\* from which the four results below follow.
THEOREM SpecInv == Spec => []Inv
BY InitInv, NextInv, PTL DEF Spec

\* Every variable keeps its type.
THEOREM TypeCorrect == Spec => []TypeOK
<1>1. Inv => TypeOK
  BY DEF Inv
<1> QED
  BY <1>1, SpecInv, PTL

\* The dedup index never drifts from the queues: it knows every queued message,
\* and nothing else.
THEOREM IndexCorrect == Spec => []IndexMatchesQueue
<1>1. Inv => IndexMatchesQueue
  BY DEF Inv, StoreInv
<1> QED
  BY <1>1, SpecInv, PTL

\* The cached totals never drift from the queues.
THEOREM QuotaCorrect == Spec => []QuotaMatchesQueue
<1>1. Inv => QuotaMatchesQueue
  BY DEF Inv, StoreInv
<1> QED
  BY <1>1, SpecInv, PTL

\* No queue ever holds more messages, or more bytes, than the limits allow.
THEOREM LimitsCorrect == Spec => []QueueWithinLimits
<1>1. Inv => QueueWithinLimits
  BY DEF Inv, StoreInv, QuotaMatchesQueue, TotalsWithinLimits, QueueWithinLimits
<1> QED
  BY <1>1, SpecInv, PTL
-----------------------------------------------------------------------------
(***************************************************************************)
(* MemStore implements Mailbox.                                            *)
(***************************************************************************)

\* The abstract specification speaks the vocabulary of RelayStore.
LEMMA PromiseWords ==
  /\ \A S : Promise!Bytes(S) = Bytes(S)
  /\ \A k, b, t, s : Promise!NewMessage(k, b, t, s) = NewMessage(k, b, t, s)
  /\ \A r, c : Promise!Foreign(r, c) = Foreign(r, c)
  /\ Promise!Cursors = Cursors
  /\ \A S : Promise!Cardinality(S) = Cardinality(S)
<1>1. \A S : Promise!Cardinality(S) = Cardinality(S)
  BY DEF Promise!Cardinality, Cardinality
<1>2. \A S : Promise!Bytes(S) = Bytes(S)
  BY <1>1 DEF Promise!Bytes, Bytes, Promise!PayloadUnits, PayloadUnits
<1>3. \A k, b, t, s : Promise!NewMessage(k, b, t, s) = NewMessage(k, b, t, s)
  BY DEF Promise!NewMessage, NewMessage
<1>4. \A r, c : Promise!Foreign(r, c) = Foreign(r, c)
  BY DEF Promise!Foreign, Foreign
<1>5. Promise!Cursors = Cursors
  BY DEF Promise!Cursors, Cursors
<1> QED
  BY <1>1, <1>2, <1>3, <1>4, <1>5

\* A recipient the store does not know has no messages, so that answering for it
\* is answering for an empty box.
UnknownIsEmpty == \A r \in Recipients \ known : queue[r] = {}

LEMMA UnknownStaysEmpty ==
  ASSUME Inv, UnknownIsEmpty, [Next]_vars
  PROVE  UnknownIsEmpty'
<1>1. queue \in [Recipients -> SUBSET Message]
  BY DEF Inv, StoreInv, StoreTypeOK
<1>2. ASSUME known \subseteq known',
             \A r \in Recipients \ known' : queue'[r] \subseteq queue[r]
      PROVE  UnknownIsEmpty'
  BY <1>2 DEF UnknownIsEmpty
<1>3. CASE Tick \/ UNCHANGED vars
  BY <1>2, <1>3 DEF Tick, vars, store
<1>4. ASSUME NEW r \in Recipients, NEW k, NEW b, NEW t, Push(r, k, b, t)
      PROVE  UnknownIsEmpty'
  <2>1. known' = known \cup {r}
    BY <1>4 DEF Push
  <2>2. \A q \in Recipients : q # r => queue'[q] = queue[q]
    BY <1>1, <1>4 DEF Push, PushDuplicate, PushRefused, PushStored
  <2> QED
    BY <1>2, <2>1, <2>2
<1>5. ASSUME NEW r \in Recipients, NEW c, NEW l, NEW t, Pull(r, c, l, t)
      PROVE  UnknownIsEmpty'
  <2>1. CASE UNCHANGED store
    BY <1>2, <2>1 DEF store
  <2>2. CASE PullPage(r, c, l, t)
    <3>1. known' = known /\ \A q \in Recipients : queue'[q] \subseteq queue[q]
      BY <1>1, <2>2 DEF PullPage
    <3> QED
      BY <1>2, <3>1
  <2> QED
    BY <1>5, <2>1, <2>2 DEF Pull, PullUnknown, PullForeign
<1>6. ASSUME NEW r \in Recipients, NEW K, NEW len, Ack(r, K, len)
      PROVE  UnknownIsEmpty'
  <2>1. CASE UNCHANGED store
    BY <1>2, <2>1 DEF store
  <2>2. CASE AckKnown(r, K)
    <3>1. known' = known /\ \A q \in Recipients : queue'[q] \subseteq queue[q]
      BY <1>1, <2>2 DEF AckKnown
    <3> QED
      BY <1>2, <3>1
  <2> QED
    BY <1>6, <2>1, <2>2 DEF Ack, AckUnknown
<1>7. ASSUME NEW t, Purge(t)
      PROVE  UnknownIsEmpty'
  BY <1>2, <1>7 DEF Purge
<1> QED
  BY <1>3, <1>4, <1>5, <1>6, <1>7 DEF Next

\* The dedup index finds a message of the box exactly when there is one.
LEMMA IndexIsHolds ==
  ASSUME Inv, NEW r \in Recipients, NEW k \in Keys
  PROVE  idx[r][k] # None <=> Promise!Holds(r, k)
<1>1. IndexMatchesQueue /\ \A m \in queue[r] : m.seq # None
  BY NoneAssumption DEF Inv, StoreInv, StoreTypeOK, Message
<1> QED
  BY <1>1 DEF IndexMatchesQueue, Promise!Holds

\* The cached totals give the room a box has.
LEMMA TotalsAreFits ==
  ASSUME Inv, NEW r \in Recipients, NEW b
  PROVE  FitsQuota(r, b) <=> Promise!Fits(r, b)
<1>1. quotaCount[r] = Cardinality(queue[r]) /\ quotaBytes[r] = Bytes(queue[r])
  BY DEF Inv, StoreInv, QuotaMatchesQueue
<1> QED
  BY <1>1, PromiseWords DEF FitsQuota, Promise!Fits

LEMMA PushImplements ==
  ASSUME Inv, Inv', NEW r \in Recipients, NEW k \in Keys, NEW b \in 0..MaxMessageBytes,
         NEW t \in 0..now, Push(r, k, b, t)
  PROVE  Promise!Push(r, k, b, t)
<1>1. ASSUME NEW isNew
      PROVE  PushReply(r, isNew) = Promise!PushReply(r, isNew)
  <2>1. quotaCount'[r] = Cardinality(queue'[r]) /\ quotaBytes'[r] = Bytes(queue'[r])
    BY DEF Inv, StoreInv, QuotaMatchesQueue
  <2> QED
    BY <2>1, PromiseWords DEF PushReply, Promise!PushReply
<1>2. CASE PushDuplicate(r, k)
  BY <1>1, <1>2, IndexIsHolds DEF Push, PushDuplicate, Promise!Push
<1>3. CASE PushRefused(r, k, b)
  BY <1>3, IndexIsHolds, TotalsAreFits DEF Push, PushRefused, Promise!Push
<1>4. CASE PushStored(r, k, b, t)
  <2>1. \A m \in queue[r] : m.seq # seq[r]
    BY DEF Inv, StoreInv, StoreTypeOK, SeqFresh, Message
  <2>2. {m \in queue[r] : m.seq # seq[r]} = queue[r]
    BY <2>1
  <2>3. queue' = [queue EXCEPT ![r] = @ \cup {Promise!NewMessage(k, b, t, seq[r])}]
    BY <1>4, <2>2, PromiseWords DEF PushStored
  <2> QED
    BY <1>1, <1>4, <2>3, IndexIsHolds, TotalsAreFits DEF Push, PushStored, Promise!Push
<1> QED
  BY <1>2, <1>3, <1>4 DEF Push

\* The page of a queue is what its box owes the caller, as far as the limit goes,
\* and next_cursor is there exactly when more is owed.
LEMMA PageIsOwed ==
  ASSUME Inv, NEW r \in Recipients, NEW c \in Cursors, NEW l \in 1..PullBatchMax, NEW t \in Nat
  PROVE  LET owed == Promise!Owed(r, c, t)
             page == Page(queue[r], c, l, t)
             end == IF More(queue[r], c, l, t) THEN LastSeq(page) ELSE None
         IN  /\ page \in SUBSET owed
             /\ end \in {None} \cup 0..seq[r]
             /\ Promise!OldestOf(owed, page, l)
             /\ IF page = owed THEN end = None ELSE Promise!EndsAt(page, end)
<1> DEFINE owed == Promise!Owed(r, c, t)
           page == Page(queue[r], c, l, t)
           end == IF More(queue[r], c, l, t) THEN LastSeq(page) ELSE None
<1>1. /\ queue[r] \in SUBSET Message /\ IsFiniteSet(queue[r]) /\ seq[r] \in Nat
      /\ \A m \in queue[r] : m.seq < seq[r] /\ m.seq \in Nat /\ m.deadline \in Nat
      /\ \A m, n \in queue[r] : m.seq = n.seq => m = n
  BY DEF Inv, StoreInv, StoreTypeOK, QueuesFinite, SeqFresh, Message
<1>2. c # None => c.seq \in Nat
  BY BoundsAssumption DEF Cursors
<1>3. owed = Live(queue[r], c, t)
  BY <1>1, <1>2 DEF Promise!Owed, Live, Beyond, Expired
<1>4. owed \in SUBSET queue[r] /\ owed \in SUBSET Message /\ IsFiniteSet(owed) /\ Numbered(owed)
  <2>1. owed \in SUBSET queue[r]
    BY DEF Promise!Owed
  <2> QED
    BY <1>1, <2>1, FS_Subset DEF Numbered
<1>5. l \in Nat \ {0}
  BY LimitsAssumption
<1>6. page = {m \in owed : Cardinality(Before(owed, m)) < l}
  BY <1>3 DEF Page
<1>7. More(queue[r], c, l, t) <=> Cardinality(owed) > l
  BY <1>3 DEF More
<1> HIDE DEF owed, page
<1>8. /\ IsFiniteSet(page) /\ Cardinality(page) <= l
      /\ \A m \in page, n \in owed \ page : m.seq < n.seq
      /\ page = owed => Cardinality(owed) <= l
      /\ page # owed => Cardinality(page) = l /\ Cardinality(owed) > l
  BY <1>4, <1>5, <1>6, FirstAreOldest, SMTT(60)
<1>9. page \in SUBSET owed
  BY <1>6
<1>10. Promise!OldestOf(owed, page, l)
  BY <1>8, <1>9, PromiseWords DEF Promise!OldestOf
<1>11. Cardinality(owed) \in Nat
  BY <1>4, FS_CardinalityType
<1>12. CASE page = owed
  <2>1. end = None
    BY <1>5, <1>7, <1>8, <1>11, <1>12
  <2> QED
    BY <1>9, <1>10, <1>12, <2>1 DEF owed, page
<1>13. CASE page # owed
  <2>1. end = LastSeq(page)
    BY <1>7, <1>8, <1>13
  <2>2. page # {}
    BY <1>5, <1>8, <1>13, FS_EmptySet
  <2>3. page \in SUBSET Message
    BY <1>4, <1>9
  <2>4. PICK m \in page : LastSeq(page) = m.seq /\ \A n \in page : n.seq <= LastSeq(page)
    BY <1>8, <2>2, <2>3, LastSeqIsLast
  <2>5. m \in queue[r]
    BY <1>4, <1>9
  <2>6. end \in 0..seq[r]
    BY <1>1, <2>1, <2>4, <2>5
  <2>7. Promise!EndsAt(page, end)
    BY <2>1, <2>4 DEF Promise!EndsAt
  <2> QED
    BY <1>9, <1>10, <1>13, <2>6, <2>7 DEF owed, page
<1> QED
  BY <1>12, <1>13

LEMMA PullImplements ==
  ASSUME Inv, UnknownIsEmpty, Inv', NEW r \in Recipients, NEW c \in Cursors,
         NEW l \in 1..PullBatchMax, NEW t \in 0..now, Pull(r, c, l, t)
  PROVE  Promise!Pull(r, c, l, t)
<1>1. /\ queue \in [Recipients -> SUBSET Message] /\ IsFiniteSet(queue'[r])
      /\ quotaCount'[r] = Cardinality(queue'[r])
  BY DEF Inv, StoreInv, StoreTypeOK, QueuesFinite, QuotaMatchesQueue
<1>2. CASE PullUnknown(r, t)
  <2>1. queue[r] = {} /\ queue' = queue /\ seq' = seq /\ now' = now
    BY <1>2 DEF PullUnknown, UnknownIsEmpty, Pull, store
  <2>2. Promise!Owed(r, c, t) = {}
    BY <2>1 DEF Promise!Owed
  <2>3. Cardinality({}) = 0 /\ l >= 0
    BY FS_EmptySet, LimitsAssumption
  <2>4. Promise!OldestOf({}, {}, l)
    BY <2>3, PromiseWords DEF Promise!OldestOf
  <2>5. reply' = [op |-> "pull", items |-> {}, next |-> None,
                  remaining |-> Cardinality(queue'[r]) - Cardinality({}), at |-> t]
    <3>1. Cardinality(queue'[r]) - Cardinality({}) = 0
      BY <2>1, <2>3
    <3> QED
      BY <1>2, <3>1 DEF PullUnknown
  <2>6. queue' = [queue EXCEPT ![r] = queue'[r]]
    BY <1>1, <2>1
  <2>7. \E items \in SUBSET Promise!Owed(r, c, t), end \in {None} \cup 0..seq[r] :
          /\ reply' = [op |-> "pull", items |-> items, next |-> end,
                       remaining |-> Cardinality(queue'[r]) - Cardinality(items), at |-> t]
          /\ Promise!OldestOf(Promise!Owed(r, c, t), items, l)
          /\ IF items = Promise!Owed(r, c, t) THEN end = None ELSE Promise!EndsAt(items, end)
    BY <2>2, <2>4, <2>5
  <2> QED
    BY <2>1, <2>6, <2>7, PromiseWords DEF Promise!Pull
<1>3. CASE PullForeign(r, c)
  BY <1>3, PromiseWords DEF PullForeign, Pull, store, Promise!Pull
<1>4. CASE PullPage(r, c, l, t)
  <2> DEFINE page == Page(queue[r], c, l, t)
             lapsed == Lapsed(queue[r], c, l, t)
             more == IF More(queue[r], c, l, t) THEN LastSeq(page) ELSE None
  <2>1. queue' = [queue EXCEPT ![r] = @ \ lapsed] /\ seq' = seq /\ now' = now /\ ~Foreign(r, c)
    BY <1>4 DEF PullPage, Pull
  <2>2. \A m \in lapsed : Expired(m, t)
    BY DEF Lapsed
  <2>3. reply' = [op |-> "pull", items |-> page, next |-> more,
                  remaining |-> SatSub(Cardinality(queue'[r]), Cardinality(page)), at |-> t]
    BY <1>1, <1>4 DEF PullPage
  <2>4. t \in Nat
    BY DEF Inv
  <2>5. /\ page \in SUBSET Promise!Owed(r, c, t)
        /\ more \in {None} \cup 0..seq[r]
        /\ Promise!OldestOf(Promise!Owed(r, c, t), page, l)
        /\ IF page = Promise!Owed(r, c, t) THEN more = None ELSE Promise!EndsAt(page, more)
    BY <2>4, PageIsOwed
  <2>6. page \in SUBSET queue'[r]
    <3>1. \A m \in page : m \in queue[r] /\ ~Expired(m, t)
      BY DEF Page, Live, Beyond
    <3> QED
      BY <1>1, <2>1, <2>2, <3>1
  <2> HIDE DEF page, lapsed, more
  <2>7. SatSub(Cardinality(queue'[r]), Cardinality(page)) = Cardinality(queue'[r]) - Cardinality(page)
    <3>1. Cardinality(page) <= Cardinality(queue'[r])
      BY <1>1, <2>6, FS_Subset
    <3>2. Cardinality(page) \in Nat /\ Cardinality(queue'[r]) \in Nat
      BY <1>1, <2>6, FS_Subset, FS_CardinalityType
    <3> QED
      BY <3>1, <3>2 DEF SatSub
  <2>8. /\ queue'[r] \subseteq queue[r]
        /\ \A m \in queue[r] \ queue'[r] : m.deadline <= t
        /\ queue' = [queue EXCEPT ![r] = queue'[r]]
    BY <1>1, <2>1, <2>2 DEF Expired
  <2>9. \E items \in SUBSET Promise!Owed(r, c, t), end \in {None} \cup 0..seq[r] :
          /\ reply' = [op |-> "pull", items |-> items, next |-> end,
                       remaining |-> Cardinality(queue'[r]) - Cardinality(items), at |-> t]
          /\ Promise!OldestOf(Promise!Owed(r, c, t), items, l)
          /\ IF items = Promise!Owed(r, c, t) THEN end = None ELSE Promise!EndsAt(items, end)
    BY <2>3, <2>5, <2>7
  <2> QED
    BY <2>1, <2>8, <2>9, PromiseWords DEF Promise!Pull
<1> QED
  BY <1>2, <1>3, <1>4 DEF Pull

\* The entries of an ack that are in the index are as many as the messages of
\* the box they name.
LEMMA EntriesAreMessages ==
  ASSUME Inv, NEW r \in Recipients, NEW K \in SUBSET Keys
  PROVE  \E hit, gone :
           /\ hit = {k \in K : idx[r][k] # None}
           /\ gone = {m \in queue[r] : \E k \in hit : idx[r][k] = m.seq}
           /\ gone = {m \in queue[r] : m.key \in K}
           /\ IsFiniteSet(gone) /\ IsFiniteSet(hit)
           /\ Cardinality(hit) = Cardinality(gone)
<1>0. PICK hit, gone : /\ hit = {k \in K : idx[r][k] # None}
                       /\ gone = {m \in queue[r] : \E k \in hit : idx[r][k] = m.seq}
  OBVIOUS
<1>1. /\ IndexMatchesQueue /\ SeqFresh /\ IsFiniteSet(queue[r])
      /\ \A m \in queue[r] : m.seq # None /\ m.key \in Keys
  BY NoneAssumption DEF Inv, StoreInv, StoreTypeOK, QueuesFinite, Message
<1>2. \A m \in queue[r] : m \in gone <=> m.key \in K
  <2>1. ASSUME NEW m \in queue[r], m.key \in K
        PROVE  m \in gone
    BY <1>0, <1>1, <2>1 DEF IndexMatchesQueue
  <2>2. ASSUME NEW m \in gone
        PROVE  m.key \in K
    <3>1. PICK k \in hit : idx[r][k] = m.seq
      BY <1>0
    <3>2. PICK n \in queue[r] : n.key = k /\ n.seq = idx[r][k]
      BY <1>0, <1>1 DEF IndexMatchesQueue
    <3> QED
      BY <1>0, <1>1, <3>1, <3>2 DEF SeqFresh
  <2> QED
    BY <2>1, <2>2
<1>3. gone \in SUBSET queue[r] /\ hit \in SUBSET K /\ IsFiniteSet(K)
  BY <1>0, KeysAssumption, FS_Subset
<1>4. IsFiniteSet(gone) /\ IsFiniteSet(hit)
  BY <1>1, <1>3, FS_Subset
<1> DEFINE f == [m \in gone |-> m.key]
<1>5. f \in Bijection(gone, hit)
  <2>1. \A m \in gone : f[m] \in hit
    BY <1>0, <1>1, <1>2 DEF IndexMatchesQueue
  <2>2. \A m, n \in gone : f[m] = f[n] => m = n
    BY <1>0, <1>1 DEF IndexMatchesQueue, SeqFresh
  <2>3. \A k \in hit : \E m \in gone : f[m] = k
    BY <1>0, <1>1, <1>2 DEF IndexMatchesQueue
  <2> QED
    BY <2>1, <2>2, <2>3 DEF Bijection, Injection, Surjection, IsInjective
<1>6. Cardinality(hit) = Cardinality(gone)
  <2> HIDE DEF f
  <2>1. ExistsBijection(gone, hit)
    BY <1>5 DEF ExistsBijection
  <2> QED
    BY <1>4, <2>1, FS_Bijection
<1>7. gone = {m \in queue[r] : m.key \in K}
  BY <1>0, <1>2
<1> QED
  BY <1>0, <1>4, <1>6, <1>7

LEMMA AckImplements ==
  ASSUME Inv, UnknownIsEmpty, Inv', NEW r \in Recipients, NEW K \in SUBSET Keys,
         NEW x \in 0..MaxRepeats, Ack(r, K, Cardinality(K) + x)
  PROVE  Promise!Ack(r, K, Cardinality(K) + x)
<1> DEFINE len == Cardinality(K) + x
           all == {m \in queue[r] : m.key \in K}
<1>1. /\ queue \in [Recipients -> SUBSET Message]
      /\ quotaCount'[r] = Cardinality(queue'[r])
  BY DEF Inv, StoreInv, StoreTypeOK, QuotaMatchesQueue
<1>2. Cardinality(K) \in Nat /\ x \in Nat /\ IsFiniteSet(K)
  BY KeysAssumption, BoundsAssumption, FS_Subset, FS_CardinalityType
<1>3. SUFFICES \E missing \in (Cardinality(K) - Cardinality(all))..(len - Cardinality(all)) :
                 /\ queue' = [queue EXCEPT ![r] = @ \ all]
                 /\ reply' = [op |-> "ack", deleted |-> Cardinality(all), missing |-> missing,
                              remaining |-> Cardinality(queue'[r])]
                 /\ seq' = seq /\ now' = now
  BY PromiseWords DEF Promise!Ack
<1>4. CASE AckUnknown(r, len)
  <2>1. queue[r] = {} /\ queue' = queue /\ seq' = seq /\ now' = now
    BY <1>4 DEF AckUnknown, UnknownIsEmpty, Ack, store
  <2>2. all = {} /\ Cardinality(all) = 0 /\ Cardinality(queue'[r]) = 0
    BY <2>1, FS_EmptySet
  <2>3. queue' = [queue EXCEPT ![r] = @ \ all]
    BY <1>1, <2>1, <2>2
  <2>4. reply' = [op |-> "ack", deleted |-> 0, missing |-> len, remaining |-> 0]
    BY <1>4 DEF AckUnknown
  <2> HIDE DEF all
  <2>5. len \in (Cardinality(K) - Cardinality(all))..(len - Cardinality(all))
    BY <1>2, <2>2
  <2> QED
    BY <2>1, <2>2, <2>3, <2>4, <2>5
<1>5. CASE AckKnown(r, K)
  <2>0. PICK hit, gone :
          /\ hit = {k \in K : idx[r][k] # None}
          /\ gone = {m \in queue[r] : \E k \in hit : idx[r][k] = m.seq}
          /\ gone = {m \in queue[r] : m.key \in K}
          /\ IsFiniteSet(gone) /\ IsFiniteSet(hit)
          /\ Cardinality(hit) = Cardinality(gone)
    BY EntriesAreMessages
  <2>1. /\ queue' = [queue EXCEPT ![r] = @ \ gone] /\ seq' = seq /\ now' = now
        /\ reply' = [op |-> "ack", deleted |-> Cardinality(gone),
                     missing |-> Cardinality(K \ hit), remaining |-> quotaCount'[r]]
    BY <1>5, <2>0 DEF AckKnown, Ack
  <2>2. hit \in SUBSET K
    BY <2>0
  <2>3. gone = all /\ IsFiniteSet(gone) /\ IsFiniteSet(hit) /\ Cardinality(hit) = Cardinality(gone)
    BY <2>0
  <2> HIDE DEF all
  <2>4. Cardinality(K \ hit) = Cardinality(K) - Cardinality(hit)
    BY <1>2, <2>2, PartTaken
  <2>5. Cardinality(all) \in Nat
    BY <2>3, FS_CardinalityType
  <2>6. Cardinality(K \ hit) \in (Cardinality(K) - Cardinality(all))..(len - Cardinality(all))
    BY <1>2, <2>3, <2>4, <2>5
  <2> QED
    BY <1>1, <2>1, <2>3, <2>6
<1> QED
  BY <1>4, <1>5 DEF Ack

LEMMA PurgeImplements ==
  ASSUME Inv, NEW t \in 0..now, Purge(t)
  PROVE  Promise!Purge(t)
<1> DEFINE gone == [r \in Recipients |-> {m \in queue[r] : <<r, m>> \in Collected(t)}]
<1>1. /\ queue' = [r \in Recipients |-> queue[r] \ gone[r]]
      /\ reply' = [op |-> "purge", removed |-> Cardinality(Collected(t)), at |-> t]
      /\ seq' = seq /\ now' = now
  BY DEF Purge
<1>2. \A c \in Collected(t) :
        /\ c[1] \in Recipients /\ c[2] \in queue[c[1]] /\ c = <<c[1], c[2]>>
        /\ c[2].deadline <= t
  BY DEF Collected, Candidates, Leading, Expired
<1>3. \A r \in Recipients : \A m :
        m \in queue'[r] <=> m \in queue[r] /\ <<r, m>> \notin Collected(t)
  BY <1>1
<1>4. Promise!Held(queue) \ Promise!Held(queue') = Collected(t)
  <2>1. \A h : h \in Promise!Held(queue) <=>
                 \E r \in Recipients : \E m \in queue[r] : h = <<r, m>>
    BY DEF Promise!Held
  <2>2. \A h : h \in Promise!Held(queue') <=>
                 \E r \in Recipients : \E m \in queue'[r] : h = <<r, m>>
    BY DEF Promise!Held
  <2> QED
    BY <1>2, <1>3, <2>1, <2>2
<1>5. Promise!Held(queue') \subseteq Promise!Held(queue)
  BY <1>3 DEF Promise!Held
<1>6. queue' = [r \in Recipients |-> queue'[r]]
  BY <1>1
<1> QED
  BY <1>1, <1>2, <1>4, <1>5, <1>6, PromiseWords DEF Promise!Purge

\* MemStore implements Mailbox: what every call returns, and every change of a
\* queue, is what the messages alone dictate; the index, the totals and the set
\* of known recipients are caches that no caller can tell from the real thing.
THEOREM Implements == Spec => ImplementsMailbox
<1>1. Init => UnknownIsEmpty /\ Promise!Init
  BY DEF Init, UnknownIsEmpty, Promise!Init
<1>2. ASSUME Inv, UnknownIsEmpty, Inv', [Next]_vars
      PROVE  [Promise!Next]_(Promise!vars)
  <2>1. CASE Tick
    BY <2>1 DEF Tick, store, Promise!Next, Promise!Tick
  <2>2. CASE UNCHANGED vars
    BY <2>2 DEF vars, store, Promise!vars
  <2>3. ASSUME NEW r \in Recipients, NEW k \in Keys, NEW b \in 0..MaxMessageBytes,
               NEW t \in 0..now, Push(r, k, b, t)
        PROVE  Promise!Next
    BY <1>2, <2>3, PushImplements DEF Promise!Next
  <2>4. ASSUME NEW r \in Recipients, NEW c \in Cursors, NEW l \in 1..PullBatchMax,
               NEW t \in 0..now, Pull(r, c, l, t)
        PROVE  Promise!Next
    BY <1>2, <2>4, PullImplements, PromiseWords DEF Promise!Next
  <2>5. ASSUME NEW r \in Recipients, NEW K \in SUBSET Keys, NEW x \in 0..MaxRepeats,
               Ack(r, K, Cardinality(K) + x)
        PROVE  Promise!Next
    BY <1>2, <2>5, AckImplements, PromiseWords DEF Promise!Next
  <2>6. ASSUME NEW t \in 0..now, Purge(t)
        PROVE  Promise!Next
    BY <1>2, <2>6, PurgeImplements DEF Promise!Next
  <2> QED
    BY <1>2, <2>1, <2>2, <2>3, <2>4, <2>5, <2>6 DEF Next
<1>3. Inv /\ UnknownIsEmpty /\ [Next]_vars => UnknownIsEmpty'
  BY UnknownStaysEmpty
<1> QED
  BY <1>1, <1>2, <1>3, InitInv, NextInv, PTL DEF Spec, ImplementsMailbox, Promise!Spec

=============================================================================
