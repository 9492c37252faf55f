-------------------------- MODULE RelayStore_proofs --------------------------
(***************************************************************************)
(* Facts about the operators of RelayStore that the proofs about the       *)
(* stores rest on.                                                         *)
(***************************************************************************)
EXTENDS RelayStore, FiniteSetTheorems, TLAPS

\* The payload units of a finite set of messages are finite in number.
LEMMA PayloadUnitsFinite ==
  ASSUME NEW S, IsFiniteSet(S)
  PROVE  IsFiniteSet(PayloadUnits(S))
<1>1. IsFiniteSet(1..MaxMessageBytes)
  BY FS_Interval, LimitsAssumption
<1>2. IsFiniteSet(S \X (1..MaxMessageBytes))
  BY <1>1, FS_Product
<1>3. PayloadUnits(S) \in SUBSET (S \X (1..MaxMessageBytes))
  BY DEF PayloadUnits
<1> QED
  BY <1>2, <1>3, FS_Subset

\* The payload bytes of a finite set of messages are a number, and none for none.
LEMMA BytesType ==
  /\ \A S : IsFiniteSet(S) => Bytes(S) \in Nat
  /\ Bytes({}) = 0
<1>1. \A S : IsFiniteSet(S) => Bytes(S) \in Nat
  BY PayloadUnitsFinite, FS_CardinalityType DEF Bytes
<1>2. PayloadUnits({}) = {}
  BY DEF PayloadUnits
<1> QED
  BY <1>1, <1>2, FS_EmptySet DEF Bytes

\* One message weighs its own payload.
LEMMA BytesOfOne ==
  ASSUME NEW m \in Message
  PROVE  Bytes({m}) = m.bytes
<1>1. m.bytes \in 0..MaxMessageBytes
  BY DEF Message
<1>2. PayloadUnits({m}) = {m} \X (1..m.bytes)
  BY <1>1, LimitsAssumption DEF PayloadUnits
<1>3. IsFiniteSet({m}) /\ Cardinality({m}) = 1
  BY FS_Singleton
<1>4. IsFiniteSet(1..m.bytes) /\ Cardinality(1..m.bytes) = m.bytes
  <2>1. m.bytes \in Int /\ 1 \in Int /\ m.bytes >= 0
    BY <1>1, LimitsAssumption
  <2>2. IsFiniteSet(1..m.bytes)
    BY <2>1, FS_Interval
  <2>3. Cardinality(1..m.bytes) = IF 1 > m.bytes THEN 0 ELSE m.bytes - 1 + 1
    BY <2>1, FS_Interval
  <2>4. CASE m.bytes = 0
    BY <2>2, <2>3, <2>4
  <2>5. CASE m.bytes > 0
    BY <2>1, <2>2, <2>3, <2>5
  <2> QED
    BY <2>1, <2>4, <2>5
<1>5. PICK one, units : one = {m} /\ units = 1..m.bytes
  OBVIOUS
<1>6. /\ IsFiniteSet(one) /\ Cardinality(one) = 1
      /\ IsFiniteSet(units) /\ Cardinality(units) = m.bytes
  BY <1>3, <1>4, <1>5
<1>7. Cardinality(one \X units) = Cardinality(one) * Cardinality(units)
  BY <1>6, FS_Product
<1>8. 1 * m.bytes = m.bytes
  BY <1>1, LimitsAssumption
<1> QED
  BY <1>2, <1>5, <1>6, <1>7, <1>8 DEF Bytes

\* The payload bytes of disjoint sets add up.
LEMMA BytesOfUnion ==
  ASSUME NEW S, IsFiniteSet(S), NEW T, IsFiniteSet(T), S \cap T = {}
  PROVE  Bytes(S \cup T) = Bytes(S) + Bytes(T)
<1>1. PayloadUnits(S \cup T) = PayloadUnits(S) \cup PayloadUnits(T)
  BY DEF PayloadUnits
<1>2. PayloadUnits(S) \cap PayloadUnits(T) = {}
  BY DEF PayloadUnits
<1>3. Cardinality(PayloadUnits(S) \cap PayloadUnits(T)) = 0
  BY <1>2, FS_EmptySet
<1>4. Cardinality(PayloadUnits(S) \cup PayloadUnits(T))
        = Cardinality(PayloadUnits(S)) + Cardinality(PayloadUnits(T)) - 0
  BY <1>3, PayloadUnitsFinite, FS_Union
<1>5. Bytes(S \cup T) = Bytes(S) + Bytes(T) - 0
  BY <1>1, <1>4, Zenon DEF Bytes
<1> QED
  BY <1>5, BytesType

\* A message more in a set, counted and weighed.
LEMMA AddedMessage ==
  ASSUME NEW S, IsFiniteSet(S), NEW m \in Message, m \notin S
  PROVE  /\ IsFiniteSet(S \cup {m})
         /\ Cardinality(S \cup {m}) = Cardinality(S) + 1
         /\ Bytes(S \cup {m}) = Bytes(S) + m.bytes
<1>1. S \cap {m} = {}
  OBVIOUS
<1>2. IsFiniteSet({m})
  BY FS_Singleton
<1> QED
  BY <1>1, <1>2, FS_AddElement, BytesOfUnion, BytesOfOne

\* A part taken out of a finite set.
LEMMA PartTaken ==
  \A S : IsFiniteSet(S) => \A T \in SUBSET S : Cardinality(S \ T) = Cardinality(S) - Cardinality(T)
<1> SUFFICES ASSUME NEW S, IsFiniteSet(S), NEW T \in SUBSET S
             PROVE  Cardinality(S \ T) = Cardinality(S) - Cardinality(T)
  OBVIOUS
<1>1. S \cap T = T
  OBVIOUS
<1>2. Cardinality(S \ T) = Cardinality(S) - Cardinality(S \cap T)
  BY FS_Difference
<1> QED
  BY <1>1, <1>2

\* Messages taken out of a set: the saturating subtraction of their number and
\* their bytes gives the number and the bytes of what is left.
LEMMA RemovedMessages ==
  ASSUME NEW S, IsFiniteSet(S), NEW T \in SUBSET S
  PROVE  /\ IsFiniteSet(S \ T)
         /\ Cardinality(S \ T) = SatSub(Cardinality(S), Cardinality(T))
         /\ Bytes(S \ T) = SatSub(Bytes(S), Bytes(T))
         /\ Cardinality(S \ T) <= Cardinality(S)
         /\ Bytes(S \ T) <= Bytes(S)
<1>1. IsFiniteSet(T) /\ IsFiniteSet(S \ T)
  BY FS_Subset, FS_Difference
<1>2. S = (S \ T) \cup T /\ (S \ T) \cap T = {}
  OBVIOUS
<1>3. Bytes(S) = Bytes(S \ T) + Bytes(T)
  BY <1>1, <1>2, BytesOfUnion
<1>4. Bytes(S) \in Nat /\ Bytes(S \ T) \in Nat /\ Bytes(T) \in Nat
  BY <1>1, BytesType
<1>5. Cardinality((S \ T) \cap T) = 0
  BY <1>2, FS_EmptySet
<1>6. Cardinality(S) = Cardinality(S \ T) + Cardinality(T) - 0
  BY <1>1, <1>2, <1>5, FS_Union
<1>7. Cardinality(S) \in Nat /\ Cardinality(S \ T) \in Nat /\ Cardinality(T) \in Nat
  BY <1>1, FS_CardinalityType
<1> QED
  BY <1>1, <1>3, <1>4, <1>6, <1>7 DEF SatSub

\* A saturating difference is a natural number.
LEMMA SatSubType ==
  ASSUME NEW a \in Nat, NEW b \in Nat
  PROVE  SatSub(a, b) \in Nat
BY DEF SatSub

\* A finite set of messages has one that arrived last: it is the message m for
\* which the set of messages behind m is minimal.
LEMMA LastExists ==
  ASSUME NEW S \in SUBSET Message, IsFiniteSet(S), S # {}
  PROVE  \E m \in S : \A n \in S : n.seq <= m.seq
<1> DEFINE Behind(m) == {n \in S : n.seq > m.seq}
           T == {Behind(m) : m \in S}
<1>1. T \subseteq FiniteSubsetsOf(S) /\ T # {}
  <2>1. \A m \in S : Behind(m) \in SUBSET S
    OBVIOUS
  <2>2. \A m \in S : Behind(m) \in FiniteSubsetsOf(S)
    BY <2>1, FS_FiniteSubsetsOfFinite
  <2> QED
    BY <2>2
<1>2. PICK U \in T : \A V \in T : <<V, U>> \notin StrictSubsetOrdering(S)
  <2>1. IsWellFoundedOn(StrictSubsetOrdering(S), FiniteSubsetsOf(S))
    BY FS_StrictSubsetOrderingWellFounded
  <2> HIDE DEF T
  <2> QED
    BY <1>1, <2>1, WFMin
<1>3. PICK m \in S : U = Behind(m)
  BY <1>2
<1>4. ASSUME NEW n \in S, ~(n.seq <= m.seq)
      PROVE  FALSE
  <2>1. n.seq \in Nat /\ m.seq \in Nat /\ \A p \in S : p.seq \in Nat
    BY DEF Message
  <2>2. n \in Behind(m) /\ n \notin Behind(n)
    BY <2>1, <1>4
  <2>3. Behind(n) \subseteq Behind(m)
    BY <2>1, <1>4
  <2>4. <<Behind(n), U>> \in StrictSubsetOrdering(S)
    BY <1>3, <2>2, <2>3 DEF StrictSubsetOrdering
  <2> QED
    BY <1>2, <2>4
<1> QED
  BY <1>4

\* A finite set of messages has one that arrived first.
LEMMA FirstExists ==
  ASSUME NEW S \in SUBSET Message, IsFiniteSet(S), S # {}
  PROVE  \E m \in S : Before(S, m) = {}
<1> DEFINE T == {Before(S, m) : m \in S}
<1>1. T \subseteq FiniteSubsetsOf(S) /\ T # {}
  <2>1. \A m \in S : Before(S, m) \in SUBSET S
    BY DEF Before
  <2>2. \A m \in S : Before(S, m) \in FiniteSubsetsOf(S)
    BY <2>1, FS_FiniteSubsetsOfFinite
  <2> QED
    BY <2>2
<1>2. PICK U \in T : \A V \in T : <<V, U>> \notin StrictSubsetOrdering(S)
  <2>1. IsWellFoundedOn(StrictSubsetOrdering(S), FiniteSubsetsOf(S))
    BY FS_StrictSubsetOrderingWellFounded
  <2> HIDE DEF T
  <2> QED
    BY <1>1, <2>1, WFMin
<1>3. PICK m \in S : U = Before(S, m)
  BY <1>2
<1>4. ASSUME NEW n \in Before(S, m)
      PROVE  FALSE
  <2>1. n \in S /\ n.seq \in Nat /\ m.seq \in Nat /\ \A p \in S : p.seq \in Nat
    BY DEF Message, Before
  <2>2. n \notin Before(S, n)
    BY <2>1 DEF Before
  <2>3. Before(S, n) \subseteq Before(S, m)
    BY <2>1 DEF Before
  <2>4. <<Before(S, n), U>> \in StrictSubsetOrdering(S)
    BY <1>3, <2>1, <2>2, <2>3 DEF StrictSubsetOrdering, Before
  <2> QED
    BY <1>2, <2>1, <2>4
<1> QED
  BY <1>3, <1>4

\* A finite set of recipients, or of any numbers, has a least one.
LEMMA LeastExists ==
  ASSUME NEW S \in SUBSET Nat, IsFiniteSet(S), S # {}
  PROVE  \E a \in S : \A b \in S : a <= b
<1> DEFINE Below(a) == {b \in S : b < a}
           T == {Below(a) : a \in S}
<1>1. T \subseteq FiniteSubsetsOf(S) /\ T # {}
  <2>1. \A a \in S : Below(a) \in SUBSET S
    OBVIOUS
  <2>2. \A a \in S : Below(a) \in FiniteSubsetsOf(S)
    BY <2>1, FS_FiniteSubsetsOfFinite
  <2> QED
    BY <2>2
<1>2. PICK U \in T : \A V \in T : <<V, U>> \notin StrictSubsetOrdering(S)
  <2>1. IsWellFoundedOn(StrictSubsetOrdering(S), FiniteSubsetsOf(S))
    BY FS_StrictSubsetOrderingWellFounded
  <2> HIDE DEF T
  <2> QED
    BY <1>1, <2>1, WFMin
<1>3. PICK a \in S : U = Below(a)
  BY <1>2
<1>4. ASSUME NEW b \in S, ~(a <= b)
      PROVE  FALSE
  <2>1. a \in Nat /\ b \in Nat /\ \A c \in S : c \in Nat
    OBVIOUS
  <2>2. b \in Below(a) /\ b \notin Below(b)
    BY <2>1, <1>4
  <2>3. b < a
    BY <2>1, <1>4
  <2>4. \A c \in S : c < b => c < a
    BY <2>1, <2>3
  <2>5. Below(b) \subseteq Below(a)
    BY <2>4
  <2>6. <<Below(b), U>> \in StrictSubsetOrdering(S)
    BY <1>3, <2>2, <2>5 DEF StrictSubsetOrdering
  <2> QED
    BY <1>2, <2>6
<1> QED
  BY <1>4

\* The cursor position of a page is an arrival_seq, or None.
LEMMA LastSeqType ==
  ASSUME NEW S \in SUBSET Message, IsFiniteSet(S)
  PROVE  LastSeq(S) \in Nat \cup {None}
<1>1. CASE S = {}
  BY <1>1 DEF LastSeq
<1>2. CASE S # {}
  <2> DEFINE last == CHOOSE m \in S : \A n \in S : n.seq <= m.seq
  <2>1. last \in S
    BY <1>2, LastExists
  <2>2. last.seq \in Nat
    BY <2>1 DEF Message
  <2> QED
    BY <1>2, <2>2 DEF LastSeq
<1> QED
  BY <1>1, <1>2

\* Messages that are told apart by their arrival numbers.
Numbered(S) == \A m, n \in S : m.seq = n.seq => m = n

\* The first `limit` messages of a set, by the number of messages before them, are
\* the oldest ones, and all of them or exactly `limit`.
LEMMA FirstAreOldest ==
  ASSUME NEW S \in SUBSET Message, IsFiniteSet(S), Numbered(S), NEW limit \in Nat \ {0},
         NEW page, page = {m \in S : Cardinality(Before(S, m)) < limit}
  PROVE  /\ IsFiniteSet(page) /\ Cardinality(page) <= limit
         /\ \A m \in page, n \in S \ page : m.seq < n.seq
         /\ page = S => Cardinality(S) <= limit
         /\ page # S => Cardinality(page) = limit /\ Cardinality(S) > limit
<1>1. /\ IsFiniteSet(page) /\ Cardinality(page) \in Nat /\ Cardinality(S) \in Nat
      /\ page \in SUBSET S /\ \A m \in S : m.seq \in Nat
  BY FS_Subset, FS_CardinalityType DEF Message
<1>2. \A m \in S : /\ Before(S, m) \in SUBSET S /\ IsFiniteSet(Before(S, m))
                   /\ Cardinality(Before(S, m)) \in Nat
  <2> SUFFICES ASSUME NEW m \in S
               PROVE  /\ Before(S, m) \in SUBSET S /\ IsFiniteSet(Before(S, m))
                      /\ Cardinality(Before(S, m)) \in Nat
    OBVIOUS
  <2>1. Before(S, m) \in SUBSET S
    BY DEF Before
  <2> QED
    BY <2>1, FS_Subset, FS_CardinalityType
<1>3. \A m, n \in S : m.seq <= n.seq => Cardinality(Before(S, m)) <= Cardinality(Before(S, n))
  <2> SUFFICES ASSUME NEW m \in S, NEW n \in S, m.seq <= n.seq
               PROVE  Cardinality(Before(S, m)) <= Cardinality(Before(S, n))
    OBVIOUS
  <2>1. Before(S, m) \in SUBSET Before(S, n)
    BY <1>1 DEF Before
  <2> QED
    BY <1>2, <2>1, FS_Subset
<1>4. \A m \in page, n \in S \ page : m.seq < n.seq
  BY <1>1, <1>2, <1>3
<1>5. Cardinality(page) <= limit
  <2>1. CASE page = {}
    BY <2>1, FS_EmptySet
  <2>2. CASE page # {}
    <3>1. PICK m \in page : \A n \in page : n.seq <= m.seq
      <4>1. page \in SUBSET Message
        BY <1>1
      <4> QED
        BY <1>1, <2>2, <4>1, LastExists
    <3>2. Before(S, m) = page \ {m}
      <4>1. \A n \in S : n.seq < m.seq => n \in page
        BY <1>1, <1>4, <3>1
      <4>2. \A n \in page : n # m => n.seq < m.seq
        BY <1>1, <3>1 DEF Numbered
      <4> QED
        BY <1>1, <3>1, <4>1, <4>2 DEF Before
    <3>3. Cardinality(page \ {m}) = Cardinality(page) - 1
      BY <1>1, FS_RemoveElement
    <3>4. Cardinality(Before(S, m)) < limit
      OBVIOUS
    <3> QED
      BY <1>1, <3>2, <3>3, <3>4
  <2> QED
    BY <2>1, <2>2
<1>6. ASSUME page # S
      PROVE  Cardinality(page) = limit /\ Cardinality(S) > limit
  <2>1. PICK n \in S \ page : Before(S \ page, n) = {}
    <3>1. IsFiniteSet(S \ page) /\ S \ page # {} /\ S \ page \in SUBSET Message
      BY <1>1, <1>6, FS_Difference
    <3> QED
      BY <3>1, FirstExists
  <2>2. Before(S, n) = page
    BY <1>1, <1>4, <2>1 DEF Before
  <2>3. Cardinality(page) >= limit
    BY <1>1, <1>2, <2>1, <2>2
  <2>4. page \in SUBSET (S \ {n}) /\ IsFiniteSet(S \ {n})
    BY <1>1, FS_RemoveElement
  <2>5. Cardinality(page) <= Cardinality(S \ {n})
    BY <2>4, FS_Subset
  <2>6. Cardinality(S \ {n}) = Cardinality(S) - 1
    BY <2>1, FS_RemoveElement
  <2> QED
    BY <1>1, <1>5, <2>3, <2>5, <2>6
<1>7. page = S => Cardinality(S) <= limit
  BY <1>5
<1> QED
  BY <1>1, <1>4, <1>5, <1>6, <1>7

\* The cursor position of a page is the number of its last message.
LEMMA LastSeqIsLast ==
  ASSUME NEW S \in SUBSET Message, IsFiniteSet(S), S # {}
  PROVE  \E m \in S : LastSeq(S) = m.seq /\ \A n \in S : n.seq <= LastSeq(S)
<1> DEFINE last == CHOOSE m \in S : \A n \in S : n.seq <= m.seq
<1>1. last \in S /\ \A n \in S : n.seq <= last.seq
  BY LastExists
<1>2. LastSeq(S) = last.seq
  BY DEF LastSeq
<1> QED
  BY <1>1, <1>2
=============================================================================
