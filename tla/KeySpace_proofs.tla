-------------------------- MODULE KeySpace_proofs --------------------------
(***************************************************************************)
(* KeySpace for any recipients' names, any tags of one length, any Base    *)
(* and any Width: keys never collide, with separators in the names or      *)
(* without, and for an unambiguous name a pull returns what it owes.  The  *)
(* second needs induction over the digits of a number; it is done here     *)
(* with sets of numbers and their least elements.                          *)
(***************************************************************************)
EXTENDS KeySpace, SequenceTheorems, FiniteSetTheorems, WellFoundedInduction, TLAPS

-----------------------------------------------------------------------------
(* Induction over numbers, as a fact about sets of them. *)

\* Every set of numbers that is not empty has a least element.
LEMMA LeastNumber ==
  \A S \in SUBSET Nat : S # {} => \E n \in S : \A k \in S : n <= k
<1> DEFINE Below == {p \in Nat \X Nat : p[1] < p[2]}
<1>1. IsWellFoundedOn(Below, Nat)
  BY NatLessThanWellFounded DEF OpToRel
<1> SUFFICES ASSUME NEW S \in SUBSET Nat, S # {}
             PROVE  \E n \in S : \A k \in S : n <= k
  OBVIOUS
<1>2. \A k, n \in Nat : <<k, n>> \in Below <=> k < n
  OBVIOUS
<1> HIDE DEF Below
<1>3. PICK n \in S : \A k \in S : ~(<<k, n>> \in Below)
  BY <1>1, WFMin
<1>4. \A k \in S : ~(k < n)
  BY <1>2, <1>3, Zenon
<1> QED
  BY <1>4

\* What holds of 0, and of i + 1 whenever it holds of i, holds up to N.
LEMMA Upwards ==
  \A N \in Nat, S \in SUBSET Nat :
    0 \in S /\ (\A i \in 0..(N - 1) : i \in S => i + 1 \in S) => 0..N \subseteq S
<1> SUFFICES ASSUME NEW N \in Nat, NEW S \in SUBSET Nat, 0 \in S,
                    \A i \in 0..(N - 1) : i \in S => i + 1 \in S,
                    NEW j \in 0..N, j \notin S
             PROVE  FALSE
  OBVIOUS
<1>1. (0..N) \ S \in SUBSET Nat /\ j \in (0..N) \ S
  OBVIOUS
<1>2. PICK n \in (0..N) \ S : \A k \in (0..N) \ S : n <= k
  BY <1>1, LeastNumber
<1> QED
  BY <1>2

\* A sequence of numbers that each follow from the one before exists.
LEMMA Iteration ==
  \A N, a \in Nat : \A step \in [1..N -> [Nat -> Nat]] :
    \E f \in [0..N -> Nat] : f[0] = a /\ \A k \in 1..N : f[k] = step[k][f[k - 1]]
<1> SUFFICES ASSUME NEW N \in Nat, NEW a \in Nat, NEW step \in [1..N -> [Nat -> Nat]]
             PROVE  \E f \in [0..N -> Nat] : f[0] = a /\ \A k \in 1..N : f[k] = step[k][f[k - 1]]
  OBVIOUS
<1> DEFINE Run(n) == {f \in [0..n -> Nat] : f[0] = a /\ \A k \in 1..n : f[k] = step[k][f[k - 1]]}
           S == {n \in 0..N : Run(n) # {}}
<1>1. [k \in 0..0 |-> a] \in Run(0)
  OBVIOUS
<1>2. ASSUME NEW n \in 0..(N - 1), NEW f \in Run(n)
      PROVE  Run(n + 1) # {}
  <2>1. /\ f \in [0..n -> Nat] /\ f[0] = a /\ n \in Nat
        /\ \A k \in 1..n : f[k] = step[k][f[k - 1]]
    OBVIOUS
  <2>2. step[n + 1] \in [Nat -> Nat] /\ f[n] \in Nat
    BY <2>1
  <2>3. PICK v \in Nat : v = step[n + 1][f[n]]
    BY <2>2
  <2> DEFINE g == [k \in 0..(n + 1) |-> IF k = n + 1 THEN v ELSE f[k]]
  <2> HIDE DEF Run, S
  <2>4. g[n + 1] = v /\ \A k \in 0..n : g[k] = f[k]
    BY <2>1
  <2>5. g \in [0..(n + 1) -> Nat] /\ g[0] = a
    <3>1. \A k \in 0..(n + 1) : k = n + 1 \/ k \in 0..n
      BY <2>1
    <3>2. \A k \in 0..(n + 1) : (IF k = n + 1 THEN v ELSE f[k]) \in Nat
      BY <2>1, <3>1
    <3>3. g \in [0..(n + 1) -> Nat]
      BY <3>2
    <3>4. 0 \in 0..n
      BY <2>1
    <3> QED
      BY <2>1, <2>4, <3>3, <3>4
  <2> HIDE DEF g
  <2>6. ASSUME NEW k \in 1..(n + 1)
        PROVE  g[k] = step[k][g[k - 1]]
    <3>1. CASE k = n + 1
      <4>1. k - 1 = n /\ n \in 0..n
        BY <2>1, <3>1
      <4> QED
        BY <2>3, <2>4, <3>1, <4>1
    <3>2. CASE k # n + 1
      <4>1. k \in 1..n
        BY <2>1, <3>2
      <4>2. k \in 0..n /\ k - 1 \in 0..n
        BY <2>1, <4>1
      <4>3. g[k] = f[k] /\ g[k - 1] = f[k - 1]
        BY <2>4, <4>2
      <4> QED
        BY <2>1, <4>1, <4>3
    <3> QED
      BY <3>1, <3>2
  <2>7. g \in Run(n + 1)
    BY <2>5, <2>6 DEF Run
  <2> QED
    BY <2>7
<1> HIDE DEF Run
<1>3. 0 \in S /\ S \in SUBSET Nat
  BY <1>1
<1>4. \A n \in 0..(N - 1) : n \in S => n + 1 \in S
  BY <1>2
<1>5. 0..N \subseteq S
  BY <1>3, <1>4, Upwards
<1>6. Run(N) # {}
  BY <1>5
<1> QED
  BY <1>6 DEF Run

-----------------------------------------------------------------------------
(* Numerals. *)

LEMMA Quotients ==
  /\ \A x \in Nat : /\ x \div Base \in Nat /\ x % Base \in 0..(Base - 1)
                    /\ Base * (x \div Base) + (x % Base) = x
  /\ \A x, y \in Nat : x <= y => x \div Base <= y \div Base
  /\ \A x, y \in Nat : x < y /\ x \div Base = y \div Base => x % Base < y % Base
<1>1. Base \in Nat /\ Base > 0
  BY NumbersAssumption
<1>2. \A x \in Nat : /\ x \div Base \in Nat /\ x % Base \in 0..(Base - 1)
                     /\ Base * (x \div Base) + (x % Base) = x
  BY <1>1
<1>3. ASSUME NEW x \in Nat, NEW y \in Nat, x <= y
      PROVE  x \div Base <= y \div Base
  BY <1>3, NumbersAssumption
<1>4. ASSUME NEW x \in Nat, NEW y \in Nat, x < y, x \div Base = y \div Base
      PROVE  x % Base < y % Base
  <2>1. /\ Base * (x \div Base) + (x % Base) = x
        /\ Base * (x \div Base) + (y % Base) = y
    BY <1>2, <1>4
  <2>2. PICK n \in Nat : n = Base * (x \div Base)
    BY <1>1, <1>2
  <2>3. x % Base \in Nat /\ y % Base \in Nat
    BY <1>1
  <2> QED
    BY <1>4, <2>1, <2>2, <2>3
<1> QED
  BY <1>2, <1>3, <1>4

LEMMA CutLaws ==
  \A n \in Nat :
    /\ Cut(n) \in [0..Width -> Nat] /\ Cut(n)[0] = n
    /\ \A k \in 1..Width : Cut(n)[k] = Cut(n)[k - 1] \div Base
<1> SUFFICES ASSUME NEW n \in Nat
             PROVE  /\ Cut(n) \in [0..Width -> Nat] /\ Cut(n)[0] = n
                    /\ \A k \in 1..Width : Cut(n)[k] = Cut(n)[k - 1] \div Base
  OBVIOUS
<1> DEFINE Cutting(c) == [k \in 0..Width |-> IF k = 0 THEN n ELSE c[k - 1] \div Base]
<1>1. Width \in Nat
  BY NumbersAssumption
<1>2. \E c : c = Cutting(c)
  <2> DEFINE step == [k \in 1..Width |-> [x \in Nat |-> x \div Base]]
  <2>1. step \in [1..Width -> [Nat -> Nat]]
    BY Quotients
  <2> HIDE DEF step
  <2>2. PICK c \in [0..Width -> Nat] : c[0] = n /\ \A k \in 1..Width : c[k] = step[k][c[k - 1]]
    BY <1>1, <2>1, Iteration
  <2>3. \A k \in 1..Width : c[k] = c[k - 1] \div Base
    <3> TAKE k \in 1..Width
    <3>1. c[k - 1] \in Nat
      BY <1>1
    <3> QED
      BY <2>2, <3>1 DEF step
  <2>4. c = Cutting(c)
    <3>1. \A k \in 0..Width : c[k] = IF k = 0 THEN n ELSE c[k - 1] \div Base
      BY <1>1, <2>2, <2>3
    <3> QED
      BY <3>1
  <2> QED
    BY <2>4
<1>3. Cut(n) = CHOOSE c : c = Cutting(c)
  BY Zenon DEF Cut
<1>4. PICK c : c = Cut(n) /\ c = Cutting(c)
  <2> HIDE DEF Cutting
  <2> QED
    BY <1>2, <1>3, Zenon
<1>5. c[0] = n /\ \A k \in 1..Width : c[k] = c[k - 1] \div Base
  <2>1. \A k \in 0..Width : Cutting(c)[k] = IF k = 0 THEN n ELSE c[k - 1] \div Base
    OBVIOUS
  <2> HIDE DEF Cutting
  <2>2. \A k \in 0..Width : c[k] = IF k = 0 THEN n ELSE c[k - 1] \div Base
    BY <1>4, <2>1, Zenon
  <2> QED
    BY <1>1, <2>2
<1>6. c \in [0..Width -> Nat]
  <2> DEFINE S == {k \in Nat : c[k] \in Nat}
  <2>1. 0 \in S /\ S \in SUBSET Nat
    BY <1>5
  <2>2. ASSUME NEW k \in 0..(Width - 1), k \in S
        PROVE  k + 1 \in S
    <3>1. k + 1 \in 1..Width /\ c[k] \in Nat /\ (k + 1) - 1 = k /\ k + 1 \in Nat
      BY <1>1, <2>2
    <3>2. c[k + 1] = c[k] \div Base
      BY <1>5, <3>1
    <3> QED
      BY <3>1, <3>2, Quotients
  <2> HIDE DEF S
  <2>3. 0..Width \subseteq S
    BY <1>1, <2>1, <2>2, Upwards
  <2>4. \A k \in 0..Width : c[k] \in Nat
    BY <2>3 DEF S
  <2> QED
    BY <1>4, <2>4
<1> QED
  BY <1>4, <1>5, <1>6


LEMMA PadLaws ==
  \A n \in Nat :
    /\ Pad(n) \in Seq(Digits) /\ Len(Pad(n)) = Width
    /\ \A i \in 1..Width : Pad(n)[i] = Zero + (Cut(n)[Width - i] % Base)
<1> TAKE n \in Nat
<1>1. Width \in Nat
  BY NumbersAssumption
<1>2. \A i \in 1..Width : Zero + (Cut(n)[Width - i] % Base) \in Digits
  <2> TAKE i \in 1..Width
  <2>1. Cut(n)[Width - i] \in Nat
    BY <1>1, CutLaws
  <2>2. Cut(n)[Width - i] % Base \in 0..(Base - 1)
    BY <2>1, Quotients
  <2> QED
    BY <2>2, NumbersAssumption DEF Digits, Zero
<1>3. Pad(n) \in [1..Width -> Digits]
  BY <1>2 DEF Pad
<1>4. Pad(n) \in Seq(Digits)
  BY <1>1, <1>3, SeqDef
<1>5. DOMAIN Pad(n) = 1..Len(Pad(n)) /\ Len(Pad(n)) \in Nat
  BY <1>4, LenProperties
<1>6. DOMAIN Pad(n) = 1..Width
  BY DEF Pad
<1> QED
  BY <1>1, <1>4, <1>5, <1>6 DEF Pad

\* The value of a numeral, digit by digit.
LEMMA NumberLaws ==
  \A digits \in Seq(Digits) :
    \E value \in [0..Len(digits) -> Nat] :
      /\ value[0] = 0 /\ Number(digits) = value[Len(digits)]
      /\ \A i \in 1..Len(digits) : value[i] = Base * value[i - 1] + (digits[i] - Zero)
<1> SUFFICES ASSUME NEW digits \in Seq(Digits)
             PROVE  \E value \in [0..Len(digits) -> Nat] :
      /\ value[0] = 0 /\ Number(digits) = value[Len(digits)]
      /\ \A i \in 1..Len(digits) : value[i] = Base * value[i - 1] + (digits[i] - Zero)
  OBVIOUS
<1> DEFINE Reading(v) == [i \in 0..Len(digits) |->
                            IF i = 0 THEN 0 ELSE Base * v[i - 1] + (digits[i] - Zero)]
<1>1. Len(digits) \in Nat /\ \A i \in 1..Len(digits) : digits[i] \in Digits
  BY LenProperties, ElementOfSeq
<1>2. \A x \in Nat, i \in 1..Len(digits) : Base * x + (digits[i] - Zero) \in Nat
  <2> TAKE x \in Nat, i \in 1..Len(digits)
  <2>1. digits[i] - Zero \in Nat
    BY <1>1, NumbersAssumption DEF Digits, Zero
  <2>2. Base * x \in Nat
    BY NumbersAssumption
  <2> QED
    BY <2>1, <2>2
<1>3. \E v : v = Reading(v)
  <2> DEFINE step == [i \in 1..Len(digits) |-> [x \in Nat |-> Base * x + (digits[i] - Zero)]]
  <2>1. step \in [1..Len(digits) -> [Nat -> Nat]]
    BY <1>2
  <2> HIDE DEF step
  <2>2. PICK v \in [0..Len(digits) -> Nat] :
          v[0] = 0 /\ \A k \in 1..Len(digits) : v[k] = step[k][v[k - 1]]
    <3>1. \E f \in [0..Len(digits) -> Nat] :
            f[0] = 0 /\ \A k \in 1..Len(digits) : f[k] = step[k][f[k - 1]]
      <4>1. Len(digits) \in Nat /\ 0 \in Nat
        BY <1>1
      <4> QED
        BY <2>1, <4>1, Iteration, Zenon
    <3> QED
      BY <3>1, Zenon
  <2>3. \A k \in 1..Len(digits) : v[k] = Base * v[k - 1] + (digits[k] - Zero)
    <3> TAKE k \in 1..Len(digits)
    <3>1. v[k - 1] \in Nat
      BY <1>1
    <3> QED
      BY <2>2, <3>1 DEF step
  <2>4. v = Reading(v)
    <3>1. \A k \in 0..Len(digits) :
            v[k] = IF k = 0 THEN 0 ELSE Base * v[k - 1] + (digits[k] - Zero)
      BY <1>1, <2>2, <2>3
    <3> QED
      BY <3>1
  <2> QED
    BY <2>4
<1>4. Number(digits) = (CHOOSE v : v = Reading(v))[Len(digits)]
  BY Zenon DEF Number
<1>5. PICK v : Number(digits) = v[Len(digits)] /\ v = Reading(v)
  <2> HIDE DEF Reading
  <2> QED
    BY <1>3, <1>4, Zenon
<1>6. v[0] = 0 /\ \A k \in 1..Len(digits) : v[k] = Base * v[k - 1] + (digits[k] - Zero)
  <2>1. \A k \in 0..Len(digits) :
          Reading(v)[k] = IF k = 0 THEN 0 ELSE Base * v[k - 1] + (digits[k] - Zero)
    OBVIOUS
  <2> HIDE DEF Reading
  <2>2. \A k \in 0..Len(digits) :
          v[k] = IF k = 0 THEN 0 ELSE Base * v[k - 1] + (digits[k] - Zero)
    BY <1>5, <2>1, Zenon
  <2> QED
    BY <1>1, <2>2
<1>7. v \in [0..Len(digits) -> Nat]
  <2> DEFINE S == {k \in Nat : v[k] \in Nat}
  <2>1. 0 \in S /\ S \in SUBSET Nat
    BY <1>6
  <2>2. ASSUME NEW k \in 0..(Len(digits) - 1), k \in S
        PROVE  k + 1 \in S
    <3>1. k + 1 \in 1..Len(digits) /\ v[k] \in Nat /\ (k + 1) - 1 = k /\ k + 1 \in Nat
      BY <1>1, <2>2
    <3>2. v[k + 1] = Base * v[k] + (digits[k + 1] - Zero)
      BY <1>6, <3>1
    <3> QED
      BY <1>2, <3>1, <3>2
  <2> HIDE DEF S
  <2>3. 0..Len(digits) \subseteq S
    BY <1>1, <2>1, <2>2, Upwards
  <2>4. \A k \in 0..Len(digits) : v[k] \in Nat
    BY <2>3 DEF S
  <2> QED
    BY <1>5, <2>4
<1> QED
  BY <1>5, <1>6, <1>7

\* A padded number is read back as the number it was made of.
LEMMA PadParses ==
  \A n \in Nat : Cut(n)[Width] = 0 => Parse(Pad(n)) = n
<1> SUFFICES ASSUME NEW n \in Nat, Cut(n)[Width] = 0
             PROVE  Parse(Pad(n)) = n
  OBVIOUS
<1>1. Width \in Nat \ {0}
  BY NumbersAssumption
<1> DEFINE d == Pad(n)
<1>2. /\ d \in Seq(Digits) /\ Len(d) = Width
      /\ \A i \in 1..Width : d[i] = Zero + (Cut(n)[Width - i] % Base)
  BY PadLaws
<1> HIDE DEF d
<1>3. DOMAIN d = 1..Width /\ \A i \in 1..Width : d[i] \in Digits
  BY <1>2, LenProperties, ElementOfSeq
<1>4. d # <<>> /\ Head(d) # Plus
  <2>1. d # <<>>
    BY <1>1, <1>2
  <2>2. Head(d) = d[1] /\ d[1] \in Digits
    BY <1>1, <1>2, <1>3, <2>1
  <2> QED
    BY <2>1, <2>2 DEF Digits, Plus, Zero
<1>5. Parse(d) = Number(d)
  BY <1>3, <1>4 DEF Parse
<1>6. PICK value \in [0..Width -> Nat] :
        /\ value[0] = 0 /\ Number(d) = value[Width]
        /\ \A i \in 1..Width : value[i] = Base * value[i - 1] + (d[i] - Zero)
  BY <1>2, NumberLaws
<1> DEFINE S == {i \in 0..Width : value[i] = Cut(n)[Width - i]}
<1>7. 0 \in S /\ S \in SUBSET Nat
  BY <1>1, <1>6
<1>8. ASSUME NEW i \in 0..(Width - 1), i \in S
      PROVE  i + 1 \in S
  <2>1. /\ i + 1 \in 1..Width /\ (i + 1) - 1 = i /\ Width - i \in 1..Width
        /\ Width - (i + 1) \in 0..Width /\ (Width - i) - 1 = Width - (i + 1)
    BY <1>1
  <2>2. PICK x \in Nat : x = Cut(n)[Width - (i + 1)]
    BY <2>1, CutLaws
  <2>3. value[i] = x \div Base
    <3>1. Cut(n)[Width - i] = Cut(n)[(Width - i) - 1] \div Base
      BY <2>1, CutLaws
    <3>2. Cut(n)[(Width - i) - 1] = x
      BY <2>1, <2>2
    <3>3. value[i] = Cut(n)[Width - i]
      BY <1>8
    <3> QED
      BY <3>1, <3>2, <3>3
  <2>4. d[i + 1] - Zero = x % Base
    <3>1. d[i + 1] = Zero + (Cut(n)[Width - (i + 1)] % Base)
      BY <1>2, <2>1
    <3>2. d[i + 1] = Zero + (x % Base)
      BY <2>2, <3>1
    <3>3. x % Base \in Nat
      BY Quotients, NumbersAssumption
    <3> QED
      BY <3>2, <3>3 DEF Zero
  <2>5. value[i + 1] = Base * (x \div Base) + (x % Base)
    BY <1>6, <2>1, <2>3, <2>4
  <2>6. value[i + 1] = x
    BY <2>5, Quotients
  <2>7. i + 1 \in 0..Width
    BY <2>1
  <2> QED
    BY <2>2, <2>6, <2>7
<1> HIDE DEF S
<1>9. 0..Width \subseteq S
  BY <1>1, <1>7, <1>8, Upwards
<1>10. value[Width] = Cut(n)[0]
  BY <1>1, <1>9 DEF S
<1> QED
  BY <1>5, <1>6, <1>10, CutLaws DEF d

\* Padded numbers are in the order of the numbers: a smaller number has a smaller
\* digit where the two first differ.
LEMMA PadOrder ==
  \A s, t \in Nat : s < t /\ Cut(s)[Width] = 0 /\ Cut(t)[Width] = 0 =>
    \E i \in 1..Width : Pad(s)[i] < Pad(t)[i] /\ \A j \in 1..(i - 1) : Pad(s)[j] = Pad(t)[j]
<1> SUFFICES ASSUME NEW s \in Nat, NEW t \in Nat, s < t, Cut(s)[Width] = 0, Cut(t)[Width] = 0
             PROVE  \E i \in 1..Width : /\ Pad(s)[i] < Pad(t)[i]
                                        /\ \A j \in 1..(i - 1) : Pad(s)[j] = Pad(t)[j]
  OBVIOUS
<1>1. Width \in Nat \ {0}
  BY NumbersAssumption
<1> DEFINE a == Cut(s)  b == Cut(t)
<1>2. /\ a \in [0..Width -> Nat] /\ a[0] = s /\ a[Width] = 0
      /\ \A k \in 1..Width : a[k] = a[k - 1] \div Base
      /\ b \in [0..Width -> Nat] /\ b[0] = t /\ b[Width] = 0
      /\ \A k \in 1..Width : b[k] = b[k - 1] \div Base
  BY CutLaws
<1> HIDE DEF a, b
<1>3. \A k \in 0..Width : a[k] <= b[k]
  <2> DEFINE S == {k \in Nat : k <= Width => a[k] <= b[k]}
  <2>1. 0 \in S /\ S \in SUBSET Nat
    BY <1>2
  <2>2. ASSUME NEW k \in 0..(Width - 1), k \in S
        PROVE  k + 1 \in S
    <3>1. /\ k \in 0..Width /\ k + 1 \in 1..Width /\ (k + 1) - 1 = k
          /\ a[k] \in Nat /\ b[k] \in Nat /\ a[k] <= b[k]
      BY <1>1, <1>2, <2>2
    <3>2. a[k + 1] = a[k] \div Base /\ b[k + 1] = b[k] \div Base
      BY <1>2, <3>1
    <3>3. a[k + 1] <= b[k + 1]
      BY <3>1, <3>2, Quotients
    <3> QED
      BY <3>1, <3>3
  <2> HIDE DEF S
  <2>3. 0..Width \subseteq S
    BY <1>1, <2>1, <2>2, Upwards
  <2> QED
    BY <1>1, <2>3 DEF S
<1> DEFINE D == {i \in 0..Width : a[Width - i] # b[Width - i]}
<1>4. Width \in D /\ D \in SUBSET Nat /\ 0 \notin D
  BY <1>1, <1>2
<1>5. PICK i \in D : \A k \in D : i <= k
  <2> HIDE DEF D
  <2> QED
    BY <1>4, LeastNumber
<1>6. /\ i \in 1..Width /\ a[Width - i] # b[Width - i]
      /\ \A j \in 0..(i - 1) : a[Width - j] = b[Width - j]
  <2>1. i \in 1..Width /\ a[Width - i] # b[Width - i]
    BY <1>1, <1>4
  <2>2. \A j \in 0..(i - 1) : j \in 0..Width /\ ~(i <= j)
    BY <1>1, <2>1
  <2> QED
    BY <1>5, <2>1, <2>2
<1> HIDE DEF D
<1>7. /\ \A j \in 1..Width : Pad(s)[j] = Zero + (a[Width - j] % Base)
      /\ \A j \in 1..Width : Pad(t)[j] = Zero + (b[Width - j] % Base)
  BY PadLaws DEF a, b
<1>8. \A j \in 1..(i - 1) : Pad(s)[j] = Pad(t)[j]
  <2> TAKE j \in 1..(i - 1)
  <2>1. j \in 1..Width /\ j \in 0..(i - 1)
    BY <1>1, <1>6
  <2> QED
    BY <1>6, <1>7, <2>1
<1>9. Pad(s)[i] < Pad(t)[i]
  <2>1. /\ Width - i \in 0..Width /\ Width - (i - 1) \in 1..Width
        /\ (Width - (i - 1)) - 1 = Width - i /\ i - 1 \in 0..(i - 1)
    BY <1>1, <1>6
  <2>2. PICK x \in Nat, y \in Nat : x = a[Width - i] /\ y = b[Width - i]
    BY <1>2, <2>1
  <2>3. x < y
    BY <1>3, <1>6, <2>1, <2>2
  <2>4. a[Width - (i - 1)] = x \div Base /\ b[Width - (i - 1)] = y \div Base
    BY <1>2, <2>1, <2>2
  <2>5. x \div Base = y \div Base
    BY <1>6, <2>1, <2>4
  <2>6. x % Base < y % Base /\ x % Base \in Nat /\ y % Base \in Nat
    BY <2>3, <2>5, Quotients
  <2>7. Pad(s)[i] = Zero + (x % Base) /\ Pad(t)[i] = Zero + (y % Base)
    BY <1>6, <1>7, <2>2
  <2> QED
    BY <2>6, <2>7 DEF Zero
<1> QED
  BY <1>6, <1>8, <1>9

-----------------------------------------------------------------------------
(* Texts with a tail of fixed length. *)

\* What a key can be.
Texts == Seq(Nat)

\* Concatenation under a name of its own: the provers reason about a long chain
\* of it from the laws below, and not from what it is.
Join(a, b) == a \o b

LEMMA JoinLaws ==
  /\ \A a, b \in Texts : Join(a, b) \in Texts /\ Len(Join(a, b)) = Len(a) + Len(b)
  /\ \A a, b, c \in Texts : Join(Join(a, b), c) = Join(a, Join(b, c))
  /\ \A a, b, c \in Texts : Join(a, b) = Join(a, c) => b = c
<1>1. \A a, b \in Texts : Join(a, b) \in Texts /\ Len(Join(a, b)) = Len(a) + Len(b)
  BY ConcatProperties DEF Texts, Join
<1>2. \A a, b, c \in Texts : Join(Join(a, b), c) = Join(a, Join(b, c))
  BY ConcatAssociative DEF Texts, Join
<1>3. \A a, b, c \in Texts : Join(a, b) = Join(a, c) => b = c
  BY ConcatSimplifications DEF Texts, Join
<1> QED
  BY <1>1, <1>2, <1>3

\* Two texts that end in tails of the same length are the same only if both
\* their heads and their tails are.
LEMMA FixedEnd ==
  \A a, b, s, t \in Texts :
    Len(s) = Len(t) /\ Join(a, s) = Join(b, t) => a = b /\ s = t
<1> SUFFICES ASSUME NEW a \in Texts, NEW b \in Texts, NEW s \in Texts, NEW t \in Texts,
                    Len(s) = Len(t), Join(a, s) = Join(b, t)
             PROVE  a = b /\ s = t
  OBVIOUS
<1>1. /\ Len(a) \in Nat /\ Len(b) \in Nat /\ Len(s) \in Nat
      /\ Len(a) + Len(s) = Len(b) + Len(t)
  <2>1. Len(Join(a, s)) = Len(a) + Len(s) /\ Len(Join(b, t)) = Len(b) + Len(t)
    BY JoinLaws
  <2>2. Len(a) \in Nat /\ Len(b) \in Nat /\ Len(s) \in Nat
    BY LenProperties DEF Texts
  <2> QED
    BY <2>1, <2>2
<1>2. Len(a) = Len(b)
  BY <1>1
<1>3. \A i \in 1..Len(a) : a[i] = b[i]
  <2> TAKE i \in 1..Len(a)
  <2>1. i \in 1..(Len(a) + Len(s)) /\ i \in 1..(Len(b) + Len(t)) /\ i <= Len(b)
    BY <1>1, <1>2
  <2>2. Join(a, s)[i] = a[i]
    BY <2>1, ConcatProperties DEF Texts, Join
  <2>3. Join(b, t)[i] = b[i]
    BY <2>1, ConcatProperties DEF Texts, Join
  <2> QED
    BY <2>2, <2>3
<1>4. a = b
  BY <1>2, <1>3, SeqEqual DEF Texts
<1>5. s = t
  BY <1>4, JoinLaws
<1> QED
  BY <1>4, <1>5

\* The same for what stands between a common beginning and such tails.
LEMMA FixedTail ==
  \A p, a, b, s, t \in Texts :
    Len(s) = Len(t) /\ Join(Join(p, a), s) = Join(Join(p, b), t) => a = b /\ s = t
<1> SUFFICES ASSUME NEW p \in Texts, NEW a \in Texts, NEW b \in Texts,
                    NEW s \in Texts, NEW t \in Texts,
                    Len(s) = Len(t), Join(Join(p, a), s) = Join(Join(p, b), t)
             PROVE  a = b /\ s = t
  OBVIOUS
<1>1. Join(p, a) \in Texts /\ Join(p, b) \in Texts
  BY JoinLaws
<1>2. Join(p, a) = Join(p, b) /\ s = t
  BY <1>1, FixedEnd
<1> QED
  BY <1>2, JoinLaws

-----------------------------------------------------------------------------
(* The keys. *)

\* What the keys of each tree begin with.
MessageStart == Msg \o <<Sep>>
IndexStart == Idx \o <<Sep>>

LEMMA PadLength ==
  \A s \in Nat : Pad(s) \in Texts /\ Len(Pad(s)) = Width
<1>1. Digits \subseteq Nat
  BY NumbersAssumption DEF Digits, Zero
<1> QED
  BY <1>1, PadLaws, SeqMonotonic DEF Texts

LEMMA PartsAreTexts ==
  /\ <<Sep>> \in Texts /\ MessageStart \in Texts /\ IndexStart \in Texts
  /\ \A r \in Names : r \in Texts
  /\ \A tag \in Tags : tag \in Texts
<1>1. <<Sep>> \in Seq(Nat) /\ Msg \in Seq(Nat) /\ Idx \in Seq(Nat)
  BY DEF Sep, Msg, Idx
<1>2. MessageStart \in Seq(Nat) /\ IndexStart \in Seq(Nat)
  BY <1>1, ConcatProperties DEF MessageStart, IndexStart
<1> QED
  BY <1>1, <1>2, TextsAssumption DEF Texts

\* What stands between the name and the tag in the key of a message, when the
\* number is the text `number`.
Between(number) == Join(<<Sep>>, Join(number, <<Sep>>))

\* The key of a message, with its parts grouped the way they differ.
LEMMA MessageKeyGrouped ==
  \A r \in Names, s \in Nat, tag \in Tags :
    MessageKey(r, s, tag) = Join(Join(MessageStart, Join(r, Between(Pad(s)))), tag)
<1>1. \A r, number, tag \in Texts :
        Join(Join(Join(Join(MessageStart, r), <<Sep>>), number), <<Sep>>)
          = Join(MessageStart, Join(r, Between(number)))
  <2> TAKE r, number, tag \in Texts
  <2>1. <<Sep>> \in Texts /\ MessageStart \in Texts
    BY PartsAreTexts
  <2>2. PICK start \in Texts : start = Join(MessageStart, r)
    BY <2>1, JoinLaws
  <2>3. PICK end \in Texts : end = Join(number, <<Sep>>)
    BY <2>1, JoinLaws
  <2>4. Join(Join(Join(start, <<Sep>>), number), <<Sep>>) = Join(Join(start, <<Sep>>), end)
    <3>1. Join(start, <<Sep>>) \in Texts
      BY <2>1, JoinLaws
    <3> QED
      BY <2>1, <2>3, <3>1, JoinLaws
  <2>5. Join(Join(start, <<Sep>>), end) = Join(start, Between(number))
    BY <2>1, <2>3, JoinLaws DEF Between
  <2>6. Between(number) \in Texts
    BY <2>1, <2>3, JoinLaws DEF Between
  <2>7. Join(start, Between(number)) = Join(MessageStart, Join(r, Between(number)))
    BY <2>1, <2>2, <2>6, JoinLaws
  <2> QED
    BY <2>2, <2>4, <2>5, <2>7
<1> TAKE r \in Names, s \in Nat, tag \in Tags
<1>2. MessageKey(r, s, tag)
        = Join(Join(Join(Join(Join(MessageStart, r), <<Sep>>), Pad(s)), <<Sep>>), tag)
  BY Zenon DEF MessageKey, MessagePrefix, MessageStart, Join
<1>3. r \in Texts /\ Pad(s) \in Texts /\ tag \in Texts
  BY PartsAreTexts, PadLength
<1> QED
  BY <1>1, <1>2, <1>3

LEMMA BetweenLength ==
  \A s \in Nat : Between(Pad(s)) \in Texts /\ Len(Between(Pad(s))) = Width + 2
<1> TAKE s \in Nat
<1>1. Pad(s) \in Texts /\ Len(Pad(s)) = Width /\ <<Sep>> \in Texts /\ Len(<<Sep>>) = 1
  BY PadLength, PartsAreTexts
<1>2. Join(Pad(s), <<Sep>>) \in Texts /\ Len(Join(Pad(s), <<Sep>>)) = Width + 1
  BY <1>1, JoinLaws
<1>3. /\ Between(Pad(s)) \in Texts
      /\ Len(Between(Pad(s))) = Len(<<Sep>>) + Len(Join(Pad(s), <<Sep>>))
  BY <1>1, <1>2, JoinLaws DEF Between
<1> QED
  BY <1>1, <1>2, <1>3, NumbersAssumption

\* Two messages with the same key are to the same recipient and have the same
\* tag, whatever their numbers are.
LEMMA MessageKeysDiffer ==
  \A r, q \in Names, s, t \in Nat, tag, other \in Tags :
    MessageKey(r, s, tag) = MessageKey(q, t, other) => r = q /\ tag = other
<1> SUFFICES ASSUME NEW r \in Names, NEW q \in Names, NEW s \in Nat, NEW t \in Nat,
                    NEW tag \in Tags, NEW other \in Tags,
                    MessageKey(r, s, tag) = MessageKey(q, t, other)
             PROVE  r = q /\ tag = other
  OBVIOUS
<1>1. /\ r \in Texts /\ q \in Texts /\ tag \in Texts /\ other \in Texts
      /\ MessageStart \in Texts /\ Len(tag) = Len(other)
  BY PartsAreTexts, TextsAssumption
<1>2. PICK a \in Texts, b \in Texts :
        a = Between(Pad(s)) /\ b = Between(Pad(t)) /\ Len(a) = Len(b)
  BY BetweenLength
<1>3. Join(r, a) \in Texts /\ Join(q, b) \in Texts
  BY <1>1, <1>2, JoinLaws
<1>4. Join(Join(MessageStart, Join(r, a)), tag) = Join(Join(MessageStart, Join(q, b)), other)
  BY <1>2, MessageKeyGrouped
<1>5. Join(r, a) = Join(q, b) /\ tag = other
  BY <1>1, <1>3, <1>4, FixedTail
<1>6. r = q
  BY <1>1, <1>2, <1>5, FixedEnd
<1> QED
  BY <1>5, <1>6

\* Two entries of the index with the same key are to the same recipient and have
\* the same tag.
LEMMA IndexKeysDiffer ==
  \A r, q \in Names, tag, other \in Tags :
    IndexKey(r, tag) = IndexKey(q, other) => r = q /\ tag = other
<1> SUFFICES ASSUME NEW r \in Names, NEW q \in Names, NEW tag \in Tags, NEW other \in Tags,
                    IndexKey(r, tag) = IndexKey(q, other)
             PROVE  r = q /\ tag = other
  OBVIOUS
<1>1. /\ r \in Texts /\ q \in Texts /\ tag \in Texts /\ other \in Texts
      /\ IndexStart \in Texts /\ <<Sep>> \in Texts /\ Len(tag) = Len(other)
  BY PartsAreTexts, TextsAssumption
<1>2. /\ Join(IndexStart, r) \in Texts /\ Join(Join(IndexStart, r), <<Sep>>) \in Texts
      /\ Join(IndexStart, q) \in Texts /\ Join(Join(IndexStart, q), <<Sep>>) \in Texts
  BY <1>1, JoinLaws
<1>3. Join(Join(Join(IndexStart, r), <<Sep>>), tag)
        = Join(Join(Join(IndexStart, q), <<Sep>>), other)
  BY Zenon DEF IndexKey, IndexStart, Join
<1>4. Join(Join(IndexStart, r), <<Sep>>) = Join(Join(IndexStart, q), <<Sep>>) /\ tag = other
  BY <1>1, <1>2, <1>3, FixedEnd
<1>5. r = q
  BY <1>1, <1>4, FixedTail
<1> QED
  BY <1>4, <1>5

-----------------------------------------------------------------------------
(* The trees and the queue. *)

Stored == [to : Names, seq : Nat, tag : Tags]

\* The entries of a message in the two trees.
MessageEntry(m) == [key |-> MessageKey(m.to, m.seq, m.tag), value |-> m]
IndexEntry(m) == [key |-> IndexKey(m.to, m.tag), value |-> m.seq]

\* The trees hold the entries of the messages in the queue and nothing else, and
\* a tag is queued once for a recipient.  The last is what makes the entries
\* different: their keys may agree in all but the recipient and the tag.
Inv ==
  /\ queue \in SUBSET Stored /\ IsFiniteSet(queue)
  /\ seq \in [Names -> Nat]
  /\ \A m, n \in queue : m.to = n.to /\ m.tag = n.tag => m = n
  /\ messages = {MessageEntry(m) : m \in queue}
  /\ index = {IndexEntry(m) : m \in queue}

LEMMA EntriesDiffer ==
  ASSUME NEW m \in Stored, NEW n \in Stored
  PROVE  /\ MessageEntry(m).key = MessageEntry(n).key => m.to = n.to /\ m.tag = n.tag
         /\ IndexEntry(m).key = IndexEntry(n).key => m.to = n.to /\ m.tag = n.tag
<1>1. /\ m.to \in Names /\ m.seq \in Nat /\ m.tag \in Tags
      /\ n.to \in Names /\ n.seq \in Nat /\ n.tag \in Tags
  BY DEF Stored
<1> QED
  BY <1>1, MessageKeysDiffer, IndexKeysDiffer DEF MessageEntry, IndexEntry

\* A text is in the index exactly if the recipient and the tag it was made of are
\* in the queue.
LEMMA IndexFinds ==
  ASSUME Inv, NEW r \in Names, NEW tag \in Tags
  PROVE  /\ Has(index, IndexKey(r, tag)) <=> \E m \in queue : m.to = r /\ m.tag = tag
         /\ \A m \in queue : m.to = r /\ m.tag = tag => Get(index, IndexKey(r, tag)) = m.seq
<1>1. \A m \in queue : m \in Stored /\ m.to \in Names /\ m.tag \in Tags
  BY DEF Inv, Stored
<1>2. \A e \in index : e.key = IndexKey(r, tag) =>
        \E m \in queue : m.to = r /\ m.tag = tag /\ e = IndexEntry(m)
  <2> SUFFICES ASSUME NEW m \in queue, IndexEntry(m).key = IndexKey(r, tag)
               PROVE  m.to = r /\ m.tag = tag
    BY DEF Inv
  <2>1. IndexKey(m.to, m.tag) = IndexKey(r, tag)
    BY DEF IndexEntry
  <2> QED
    BY <1>1, <2>1, IndexKeysDiffer
<1>3. \A m \in queue : m.to = r /\ m.tag = tag =>
        IndexEntry(m) \in index /\ IndexEntry(m).key = IndexKey(r, tag)
  BY DEF Inv, IndexEntry
<1>4. Has(index, IndexKey(r, tag)) <=> \E m \in queue : m.to = r /\ m.tag = tag
  BY <1>2, <1>3 DEF Has
<1>5. ASSUME NEW m \in queue, m.to = r, m.tag = tag
      PROVE  Get(index, IndexKey(r, tag)) = m.seq
  <2> DEFINE e == CHOOSE e \in index : e.key = IndexKey(r, tag)
  <2>1. e \in index /\ e.key = IndexKey(r, tag)
    BY <1>3, <1>5
  <2>2. PICK n \in queue : n.to = r /\ n.tag = tag /\ e = IndexEntry(n)
    BY <1>2, <2>1
  <2>3. n = m
    BY <1>5, <2>2 DEF Inv
  <2>4. e.value = m.seq
    <3>1. e = IndexEntry(m)
      BY <2>2, <2>3
    <3> HIDE DEF e
    <3> QED
      BY <3>1 DEF IndexEntry
  <2> QED
    BY <2>4 DEF Get
<1> QED
  BY <1>4, <1>5

LEMMA InitInv == Init => Inv
BY FS_EmptySet DEF Init, Inv

LEMMA PushInv ==
  ASSUME Inv, NEW r \in Names, NEW tag \in Tags, Push(r, tag)
  PROVE  Inv'
<1> DEFINE m == [to |-> r, seq |-> seq[r], tag |-> tag]
<1>1. m \in Stored /\ queue \subseteq Stored /\ m.to = r /\ m.tag = tag /\ m.seq = seq[r]
  BY DEF Inv, Stored
<1>2. \A n \in queue : ~(n.to = r /\ n.tag = tag)
  BY IndexFinds DEF Push
<1>3. /\ queue' = queue \cup {m}
      /\ messages' = With(messages, MessageKey(r, seq[r], tag), m)
      /\ index' = With(index, IndexKey(r, tag), seq[r])
      /\ seq' = [seq EXCEPT ![r] = @ + 1]
  BY DEF Push
<1> HIDE DEF m
<1>4. queue' \in SUBSET Stored /\ IsFiniteSet(queue')
  BY <1>1, <1>3, FS_AddElement DEF Inv
<1>5. seq' \in [Names -> Nat]
  BY <1>3 DEF Inv
<1>6. \A n, o \in queue' : n.to = o.to /\ n.tag = o.tag => n = o
  BY <1>1, <1>2, <1>3 DEF Inv
<1>7. messages' = {MessageEntry(n) : n \in queue'}
  <2>1. MessageEntry(m) = [key |-> MessageKey(r, seq[r], tag), value |-> m]
    BY <1>1 DEF MessageEntry
  <2>2. \A n \in queue : MessageEntry(n).key # MessageEntry(m).key
    BY <1>1, <1>2, EntriesDiffer
  <2>3. \A n \in queue : MessageEntry(n).key # MessageKey(r, seq[r], tag)
    BY <2>1, <2>2
  <2>4. {e \in messages : e.key # MessageKey(r, seq[r], tag)} = {MessageEntry(n) : n \in queue}
    BY <2>3 DEF Inv
  <2>5. messages' = {MessageEntry(n) : n \in queue} \cup {MessageEntry(m)}
    BY <1>3, <2>1, <2>4 DEF With
  <2> QED
    BY <1>3, <2>5
<1>8. index' = {IndexEntry(n) : n \in queue'}
  <2>1. IndexEntry(m) = [key |-> IndexKey(r, tag), value |-> seq[r]]
    BY <1>1 DEF IndexEntry
  <2>2. \A n \in queue : IndexEntry(n).key # IndexEntry(m).key
    BY <1>1, <1>2, EntriesDiffer
  <2>3. \A n \in queue : IndexEntry(n).key # IndexKey(r, tag)
    BY <2>1, <2>2
  <2>4. {e \in index : e.key # IndexKey(r, tag)} = {IndexEntry(n) : n \in queue}
    BY <2>3 DEF Inv
  <2>5. index' = {IndexEntry(n) : n \in queue} \cup {IndexEntry(m)}
    BY <1>3, <2>1, <2>4 DEF With
  <2> QED
    BY <1>3, <2>5
<1> QED
  BY <1>4, <1>5, <1>6, <1>7, <1>8 DEF Inv

LEMMA AckInv ==
  ASSUME Inv, NEW r \in Names, NEW tag \in Tags, Ack(r, tag)
  PROVE  Inv'
<1>1. PICK m \in queue : m.to = r /\ m.tag = tag
  BY IndexFinds DEF Ack
<1>2. /\ Get(index, IndexKey(r, tag)) = m.seq
      /\ m \in Stored /\ queue \subseteq Stored
  <2>1. Get(index, IndexKey(r, tag)) = m.seq
    BY <1>1, IndexFinds
  <2>2. queue \subseteq Stored
    BY DEF Inv
  <2> QED
    BY <1>1, <2>1, <2>2
<1>3. /\ messages' = Without(messages, MessageEntry(m).key)
      /\ index' = Without(index, IndexEntry(m).key)
      /\ seq' = seq
  BY <1>1, <1>2 DEF Ack, MessageEntry, IndexEntry
<1>4. queue' = queue \ {m}
  <2>1. queue' = {n \in queue : n.to # r \/ n.tag # tag}
    BY DEF Ack
  <2>2. \A n \in queue : (n.to = r /\ n.tag = tag) <=> n = m
    BY <1>1 DEF Inv
  <2> QED
    BY <2>1, <2>2
<1>5. \A n \in queue : n # m => /\ MessageEntry(n).key # MessageEntry(m).key
                                /\ IndexEntry(n).key # IndexEntry(m).key
  BY <1>1, <1>2, EntriesDiffer DEF Inv
<1>6. queue' \in SUBSET Stored /\ IsFiniteSet(queue')
  BY <1>2, <1>4, FS_RemoveElement DEF Inv
<1>7. messages' = {MessageEntry(n) : n \in queue'}
  BY <1>3, <1>4, <1>5 DEF Without, Inv
<1>8. index' = {IndexEntry(n) : n \in queue'}
  BY <1>3, <1>4, <1>5 DEF Without, Inv
<1> QED
  BY <1>3, <1>4, <1>6, <1>7, <1>8 DEF Inv

\* What push and ack do to the trees is what they do to the queue, message by
\* message (store_sled.rs:77-128, 201-206).
THEOREM InvHolds == Spec => []Inv
<1>1. Init => Inv
  BY InitInv
<1>2. Inv /\ [Next]_vars => Inv'
  <2> SUFFICES ASSUME Inv, [Next]_vars
               PROVE  Inv'
    OBVIOUS
  <2>1. CASE UNCHANGED vars
    BY <2>1 DEF vars, Inv
  <2>2. ASSUME NEW r \in Names, NEW tag \in Tags, Push(r, tag)
        PROVE  Inv'
    BY <2>2, PushInv
  <2>3. ASSUME NEW r \in Names, NEW tag \in Tags, Ack(r, tag)
        PROVE  Inv'
    BY <2>3, AckInv
  <2> QED
    BY <2>1, <2>2, <2>3 DEF Next
<1> QED
  BY <1>1, <1>2, PTL DEF Spec

\* A set of as many entries as there are messages.
LEMMA InvHoldsQueue == Inv => TreesHoldQueue
<1> SUFFICES ASSUME Inv
             PROVE  TreesHoldQueue
  OBVIOUS
<1>1. {e.value : e \in messages} = queue
  <2>1. \A m \in queue : MessageEntry(m) \in messages /\ MessageEntry(m).value = m
    BY DEF Inv, MessageEntry
  <2>2. \A e \in messages : \E m \in queue : e = MessageEntry(m)
    BY DEF Inv
  <2> QED
    BY <2>1, <2>2
<1>2. {<<e.key, e.value>> : e \in index} = {<<IndexKey(m.to, m.tag), m.seq>> : m \in queue}
  <2>1. \A m \in queue : /\ IndexEntry(m) \in index
                         /\ IndexEntry(m).key = IndexKey(m.to, m.tag)
                         /\ IndexEntry(m).value = m.seq
    BY DEF Inv, IndexEntry
  <2>2. \A e \in index : \E m \in queue : e = IndexEntry(m)
    BY DEF Inv
  <2> QED
    BY <2>1, <2>2
<1>3. Cardinality(messages) = Cardinality(queue)
  <2> DEFINE f == [m \in queue |-> MessageEntry(m)]
  <2>1. f \in Bijection(queue, messages)
    <3>1. \A m, n \in queue : MessageEntry(m) = MessageEntry(n) => m = n
      BY DEF MessageEntry
    <3> QED
      BY <3>1 DEF Inv, Bijection, Injection, Surjection, IsInjective
  <2> QED
    BY <2>1, FS_Bijection DEF Inv, ExistsBijection
<1>4. Cardinality(index) = Cardinality(queue)
  <2> DEFINE f == [m \in queue |-> IndexEntry(m)]
  <2>1. f \in Bijection(queue, index)
    <3>1. \A m, n \in queue : IndexEntry(m) = IndexEntry(n) => m = n
      BY EntriesDiffer DEF Inv
    <3> QED
      BY <3>1 DEF Inv, Bijection, Injection, Surjection, IsInjective
  <2> QED
    BY <2>1, FS_Bijection DEF Inv, ExistsBijection
<1> QED
  BY <1>1, <1>2, <1>3, <1>4 DEF TreesHoldQueue

\* KeySpace!TreesHoldQueue for any names and tags (store_sled.rs:201-206): no
\* insertion overwrites another entry, and an ack removes the entries of the
\* message it names and no others.
THEOREM TreesCorrect == Spec => []TreesHoldQueue
BY InvHolds, InvHoldsQueue, PTL

-----------------------------------------------------------------------------
(* Where everything stands in a key and in a cursor. *)

\* Byte by byte.
LEMMA JoinAt ==
  \A a, b \in Texts :
    /\ Join(a, b) \in Texts
    /\ Len(a) \in Nat /\ Len(b) \in Nat /\ Len(Join(a, b)) = Len(a) + Len(b)
    /\ \A i \in 1..Len(a) : Join(a, b)[i] = a[i]
    /\ \A i \in 1..Len(b) : Join(a, b)[Len(a) + i] = b[i]
<1> TAKE a, b \in Texts
<1>1. Join(a, b) \in Texts /\ Len(a) \in Nat /\ Len(b) \in Nat /\ Len(Join(a, b)) = Len(a) + Len(b)
  BY JoinLaws, LenProperties DEF Texts
<1>2. \A i \in 1..(Len(a) + Len(b)) :
        Join(a, b)[i] = IF i <= Len(a) THEN a[i] ELSE b[i - Len(a)]
  BY ConcatProperties DEF Texts, Join
<1>3. \A i \in 1..Len(a) : Join(a, b)[i] = a[i]
  BY <1>1, <1>2
<1>4. ASSUME NEW i \in 1..Len(b)
      PROVE  Join(a, b)[Len(a) + i] = b[i]
  <2>1. /\ Len(a) + i \in 1..(Len(a) + Len(b)) /\ ~(Len(a) + i <= Len(a))
        /\ (Len(a) + i) - Len(a) = i
    BY <1>1
  <2> QED
    BY <1>2, <2>1
<1> QED
  BY <1>1, <1>3, <1>4

LEMMA SeparatorAdded ==
  \A a \in Texts :
    /\ Join(a, <<Sep>>) \in Texts /\ Len(Join(a, <<Sep>>)) = Len(a) + 1
    /\ \A i \in 1..Len(a) : Join(a, <<Sep>>)[i] = a[i]
    /\ Join(a, <<Sep>>)[Len(a) + 1] = Sep
<1> TAKE a \in Texts
<1>1. PICK b \in Texts : b = <<Sep>> /\ Len(b) = 1 /\ b[1] = Sep
  <2>1. <<Sep>> \in Texts /\ Len(<<Sep>>) = 1 /\ <<Sep>>[1] = Sep
    BY PartsAreTexts
  <2> QED
    BY <2>1
<1>2. /\ Join(a, b) \in Texts /\ Len(Join(a, b)) = Len(a) + Len(b)
      /\ \A i \in 1..Len(a) : Join(a, b)[i] = a[i]
      /\ \A i \in 1..Len(b) : Join(a, b)[Len(a) + i] = b[i]
  BY JoinAt
<1>3. Join(a, b)[Len(a) + 1] = Sep
  BY <1>1, <1>2
<1> QED
  BY <1>1, <1>2, <1>3

\* A text is a prefix of another one if they agree on its bytes.
LEMMA StartsWithAt ==
  \A a, p \in Texts :
    StartsWith(a, p) <=> Len(p) <= Len(a) /\ \A i \in 1..Len(p) : a[i] = p[i]
<1> SUFFICES ASSUME NEW a \in Texts, NEW p \in Texts, Len(p) <= Len(a)
             PROVE  SubSeq(a, 1, Len(p)) = p <=> \A i \in 1..Len(p) : a[i] = p[i]
  BY DEF StartsWith
<1>1. Len(p) \in Nat /\ Len(a) \in Nat
  BY LenProperties DEF Texts
<1>2. /\ SubSeq(a, 1, Len(p)) \in Texts /\ Len(SubSeq(a, 1, Len(p))) = Len(p)
      /\ \A i \in 1..Len(p) : SubSeq(a, 1, Len(p))[i] = a[i]
  <2>1. \A i \in 1..Len(p) : i \in 1..Len(a)
    BY <1>1
  <2> QED
    BY <1>1, <2>1, SubSeqProperties DEF Texts
<1> QED
  BY <1>2, SeqEqual DEF Texts

\* A text that begins with a recipient's prefix, byte by byte.
Begins(text, r) ==
  /\ text[1] = 109 /\ text[2] = 115 /\ text[3] = 103 /\ text[4] = Sep
  /\ \A i \in 1..Len(r) : text[4 + i] = r[i]
  /\ text[Len(r) + 5] = Sep

LEMMA SameBeginning ==
  \A r \in Names : \A a, b \in Texts :
    Begins(a, r) /\ Begins(b, r) => \A i \in 1..(Len(r) + 5) : a[i] = b[i]
<1> SUFFICES ASSUME NEW r \in Names, NEW a \in Texts, NEW b \in Texts,
                    Begins(a, r), Begins(b, r), NEW i \in 1..(Len(r) + 5)
             PROVE  a[i] = b[i]
  OBVIOUS
<1>1. Len(r) \in Nat
  BY PartsAreTexts, LenProperties DEF Texts
<1>2. i \in {1, 2, 3, 4} \/ i = Len(r) + 5 \/ (i - 4 \in 1..Len(r) /\ i = 4 + (i - 4))
  BY <1>1
<1>3. CASE i \in {1, 2, 3, 4}
  <2>1. a[1] = b[1] /\ a[2] = b[2] /\ a[3] = b[3] /\ a[4] = b[4]
    BY DEF Begins
  <2> QED
    BY <1>3, <2>1
<1>4. CASE i = Len(r) + 5
  <2>1. a[Len(r) + 5] = Sep /\ b[Len(r) + 5] = Sep
    BY DEF Begins
  <2> QED
    BY <1>4, <2>1
<1>5. CASE i - 4 \in 1..Len(r) /\ i = 4 + (i - 4)
  <2>1. PICK k \in 1..Len(r) : i = 4 + k
    BY <1>5
  <2>2. a[4 + k] = r[k] /\ b[4 + k] = r[k]
    BY DEF Begins
  <2> QED
    BY <2>1, <2>2
<1> QED
  BY <1>2, <1>3, <1>4, <1>5

LEMMA PrefixLayout ==
  \A r \in Names :
    /\ MessagePrefix(r) \in Texts /\ Len(r) \in Nat
    /\ Len(MessagePrefix(r)) = Len(r) + 5 /\ Begins(MessagePrefix(r), r)
<1> TAKE r \in Names
<1> DEFINE a == Join(MessageStart, r)
           p == Join(a, <<Sep>>)
<1>1. MessagePrefix(r) = p
  BY Zenon DEF MessagePrefix, MessageStart, Join
<1>2. /\ r \in Texts /\ <<Sep>> \in Texts /\ MessageStart \in Texts
      /\ Len(<<Sep>>) = 1 /\ <<Sep>>[1] = Sep /\ Len(r) \in Nat
  BY PartsAreTexts, LenProperties DEF Texts
<1>3. /\ Len(MessageStart) = 4 /\ MessageStart[1] = 109 /\ MessageStart[2] = 115
      /\ MessageStart[3] = 103 /\ MessageStart[4] = Sep
  <2>1. PICK m \in Texts : /\ m = Msg /\ Len(m) = 3
                           /\ m[1] = 109 /\ m[2] = 115 /\ m[3] = 103
    <3>1. /\ Msg \in Texts /\ Len(Msg) = 3
          /\ Msg[1] = 109 /\ Msg[2] = 115 /\ Msg[3] = 103
      BY DEF Msg, Texts
    <3> QED
      BY <3>1
  <2>2. MessageStart = Join(m, <<Sep>>)
    BY <2>1, Zenon DEF MessageStart, Join
  <2>3. /\ Len(MessageStart) = Len(m) + 1 /\ \A i \in 1..Len(m) : MessageStart[i] = m[i]
        /\ MessageStart[Len(m) + 1] = Sep
    BY <2>2, SeparatorAdded
  <2> QED
    BY <2>1, <2>3
<1>4. /\ a \in Texts /\ Len(a) = 4 + Len(r) /\ \A i \in 1..4 : a[i] = MessageStart[i]
      /\ \A i \in 1..Len(r) : a[4 + i] = r[i]
  <2>1. /\ a \in Texts /\ Len(a) = Len(MessageStart) + Len(r)
        /\ \A i \in 1..Len(MessageStart) : a[i] = MessageStart[i]
        /\ \A i \in 1..Len(r) : a[Len(MessageStart) + i] = r[i]
    BY <1>2, JoinLaws, JoinAt
  <2> QED
    BY <1>3, <2>1
<1> HIDE DEF a
<1>5. /\ p \in Texts /\ Len(p) = Len(a) + 1 /\ \A i \in 1..Len(a) : p[i] = a[i]
      /\ p[Len(a) + 1] = Sep
  BY <1>4, SeparatorAdded
<1> HIDE DEF p
<1>6. p[1] = 109 /\ p[2] = 115 /\ p[3] = 103 /\ p[4] = Sep
  <2>1. 1 \in 1..Len(a) /\ 2 \in 1..Len(a) /\ 3 \in 1..Len(a) /\ 4 \in 1..Len(a)
    BY <1>2, <1>4
  <2> QED
    BY <1>3, <1>4, <1>5, <2>1
<1>7. \A i \in 1..Len(r) : p[4 + i] = r[i]
  <2> TAKE i \in 1..Len(r)
  <2>1. 4 + i \in 1..Len(a)
    BY <1>2, <1>4
  <2> QED
    BY <1>4, <1>5, <2>1
<1>8. Len(p) = Len(r) + 5 /\ p[Len(r) + 5] = Sep
  <2>1. Len(a) + 1 = Len(r) + 5
    BY <1>2, <1>4
  <2> QED
    BY <1>5, <2>1
<1> QED
  BY <1>1, <1>2, <1>5, <1>6, <1>7, <1>8 DEF Begins

LEMMA KeyLayout ==
  \A r \in Names, s \in Nat, tag \in Tags :
    /\ MessageKey(r, s, tag) \in Texts /\ Len(tag) \in Nat
    /\ Len(MessageKey(r, s, tag)) = Len(r) + Width + 6 + Len(tag)
    /\ Begins(MessageKey(r, s, tag), r)
    /\ \A i \in 1..Width : MessageKey(r, s, tag)[Len(r) + 5 + i] = Pad(s)[i]
    /\ MessageKey(r, s, tag)[Len(r) + Width + 6] = Sep
<1> TAKE r \in Names, s \in Nat, tag \in Tags
<1>1. PICK p \in Texts : p = MessagePrefix(r) /\ Len(p) = Len(r) + 5 /\ Begins(p, r)
  BY PrefixLayout
<1> DEFINE c == Join(p, Pad(s))
           d == Join(c, <<Sep>>)
           key == Join(d, tag)
<1>2. MessageKey(r, s, tag) = key
  BY <1>1, Zenon DEF MessageKey, Join
<1>3. /\ tag \in Texts /\ Pad(s) \in Texts /\ Len(Pad(s)) = Width
      /\ <<Sep>> \in Texts /\ Len(<<Sep>>) = 1 /\ <<Sep>>[1] = Sep
      /\ Width \in Nat /\ Len(r) \in Nat /\ Len(tag) \in Nat
  BY PartsAreTexts, PadLength, NumbersAssumption, LenProperties DEF Texts
<1>4. /\ c \in Texts /\ Len(c) = Len(r) + 5 + Width
      /\ \A i \in 1..(Len(r) + 5) : c[i] = p[i]
      /\ \A i \in 1..Width : c[Len(r) + 5 + i] = Pad(s)[i]
  <2>1. /\ c \in Texts /\ Len(c) = Len(p) + Len(Pad(s)) /\ \A i \in 1..Len(p) : c[i] = p[i]
        /\ \A i \in 1..Len(Pad(s)) : c[Len(p) + i] = Pad(s)[i]
    BY <1>3, JoinLaws, JoinAt
  <2> QED
    BY <1>1, <1>3, <2>1
<1> HIDE DEF c
<1>5. /\ d \in Texts /\ Len(d) = Len(c) + 1 /\ \A i \in 1..Len(c) : d[i] = c[i]
      /\ d[Len(c) + 1] = Sep
  BY <1>4, SeparatorAdded
<1> HIDE DEF d
<1>6. /\ key \in Texts /\ Len(key) = Len(d) + Len(tag)
      /\ \A i \in 1..Len(d) : key[i] = d[i]
  BY <1>3, <1>5, JoinLaws, JoinAt
<1> HIDE DEF key
<1>7. Len(d) = Len(r) + Width + 6 /\ key[Len(r) + Width + 6] = Sep
  <2>1. Len(c) + 1 = Len(r) + Width + 6 /\ Len(r) + Width + 6 \in 1..(Len(r) + Width + 6)
    BY <1>3, <1>4
  <2> QED
    BY <1>5, <1>6, <2>1
<1>8. \A i \in 1..(Len(r) + 5 + Width) : key[i] = c[i]
  <2> TAKE i \in 1..(Len(r) + 5 + Width)
  <2>1. i \in 1..Len(c) /\ i \in 1..Len(d)
    BY <1>3, <1>4, <1>7
  <2> QED
    BY <1>5, <1>6, <2>1
<1>9. \A i \in 1..(Len(r) + 5) : key[i] = p[i]
  <2> TAKE i \in 1..(Len(r) + 5)
  <2>1. i \in 1..(Len(r) + 5 + Width)
    BY <1>3
  <2> QED
    BY <1>4, <1>8, <2>1
<1>10. Begins(key, r)
  <2>1. \A i \in 1..4 : i \in 1..(Len(r) + 5)
    BY <1>3
  <2>2. \A i \in 1..Len(r) : 4 + i \in 1..(Len(r) + 5)
    BY <1>3
  <2>3. Len(r) + 5 \in 1..(Len(r) + 5)
    BY <1>3
  <2> QED
    BY <1>1, <1>9, <2>1, <2>2, <2>3 DEF Begins
<1>11. \A i \in 1..Width : key[Len(r) + 5 + i] = Pad(s)[i]
  <2> TAKE i \in 1..Width
  <2>1. Len(r) + 5 + i \in 1..(Len(r) + 5 + Width)
    BY <1>3
  <2> QED
    BY <1>4, <1>8, <2>1
<1> QED
  BY <1>2, <1>3, <1>6, <1>7, <1>10, <1>11

-----------------------------------------------------------------------------
(* Reading keys and cursors. *)

\* A text begins with the prefix of one unambiguous name at most, and that
\* name's key is the only one that does.
LEMMA BeginsOnce ==
  \A r, q \in Names : \A text \in Texts :
    Unambiguous(r) /\ Begins(text, r) /\ Begins(text, q) => r = q
<1> SUFFICES ASSUME NEW r \in Names, NEW q \in Names, NEW text \in Texts,
                    Unambiguous(r), Begins(text, r), Begins(text, q)
             PROVE  r = q
  OBVIOUS
<1>1. /\ r \in Texts /\ q \in Texts /\ Len(r) \in Nat /\ Len(q) \in Nat
      /\ DOMAIN r = 1..Len(r)
  BY PartsAreTexts, LenProperties DEF Texts
<1>2. /\ \A i \in 1..Len(r) : text[4 + i] = r[i]
      /\ \A i \in 1..Len(q) : text[4 + i] = q[i]
      /\ text[Len(r) + 5] = Sep /\ text[Len(q) + 5] = Sep
  BY DEF Begins
<1>3. CASE Len(q) = Len(r)
  <2>1. \A i \in 1..Len(r) : r[i] = q[i]
    BY <1>2, <1>3
  <2> QED
    BY <1>1, <1>3, <2>1, SeqEqual DEF Texts
<1>4. CASE Len(q) < Len(r)
  <2>1. Len(q) + 1 \in 1..Len(r) /\ 4 + (Len(q) + 1) = Len(q) + 5
    BY <1>1, <1>4
  <2>2. r[Len(q) + 1] = Sep
    BY <1>2, <2>1
  <2>3. Len(q) + 1 \in Separators(r)
    BY <1>1, <2>1, <2>2 DEF Separators
  <2> QED
    BY <2>3 DEF Unambiguous
<1>5. CASE Len(q) > Len(r)
  <2> DEFINE p == Join(r, <<Sep>>)
  <2>1. /\ p \in Texts /\ Len(p) = Len(r) + 1 /\ \A i \in 1..Len(r) : p[i] = r[i]
        /\ p[Len(r) + 1] = Sep
    BY <1>1, SeparatorAdded
  <2>2. p = r \o <<Sep>>
    BY DEF Join
  <2> HIDE DEF p
  <2>3. q[Len(r) + 1] = Sep
    <3>1. Len(r) + 1 \in 1..Len(q) /\ 4 + (Len(r) + 1) = Len(r) + 5
      BY <1>1, <1>5
    <3> QED
      BY <1>2, <3>1
  <2>4. \A i \in 1..Len(r) : q[i] = r[i]
    <3>1. \A i \in 1..Len(r) : i \in 1..Len(q)
      BY <1>1, <1>5
    <3> QED
      BY <1>2, <3>1
  <2>5. \A i \in 1..Len(p) : q[i] = p[i]
    <3>1. \A i \in 1..Len(p) : i \in 1..Len(r) \/ i = Len(r) + 1
      BY <1>1, <2>1
    <3> QED
      BY <2>1, <2>3, <2>4, <3>1
  <2>6. Len(p) <= Len(q)
    BY <1>1, <1>5, <2>1
  <2>7. StartsWith(q, p)
    BY <1>1, <2>1, <2>5, <2>6, StartsWithAt
  <2> QED
    BY <2>2, <2>7 DEF Unambiguous
<1> QED
  BY <1>1, <1>3, <1>4, <1>5

\* The prefix of an unambiguous name finds the keys of that name and no others.
LEMMA PrefixFinds ==
  \A r, q \in Names, s \in Nat, tag \in Tags :
    Unambiguous(r) => (StartsWith(MessageKey(q, s, tag), MessagePrefix(r)) <=> q = r)
<1> SUFFICES ASSUME NEW r \in Names, NEW q \in Names, NEW s \in Nat, NEW tag \in Tags,
                    Unambiguous(r)
             PROVE  StartsWith(MessageKey(q, s, tag), MessagePrefix(r)) <=> q = r
  OBVIOUS
<1>1. PICK key \in Texts : /\ key = MessageKey(q, s, tag) /\ Begins(key, q)
                           /\ Len(key) = Len(q) + Width + 6 + Len(tag)
                           /\ Len(tag) \in Nat
  BY KeyLayout
<1>2. PICK prefix \in Texts : /\ prefix = MessagePrefix(r) /\ Begins(prefix, r)
                              /\ Len(prefix) = Len(r) + 5
                              /\ Len(r) \in Nat
  BY PrefixLayout
<1>3. StartsWith(key, prefix) <=>
        Len(prefix) <= Len(key) /\ \A i \in 1..Len(prefix) : key[i] = prefix[i]
  BY StartsWithAt
<1>4. ASSUME StartsWith(key, prefix)
      PROVE  q = r
  <2>1. /\ \A i \in 1..4 : i \in 1..Len(prefix)
        /\ \A i \in 1..Len(r) : 4 + i \in 1..Len(prefix)
        /\ Len(r) + 5 \in 1..Len(prefix)
    BY <1>2
  <2>2. Begins(key, r)
    BY <1>2, <1>3, <1>4, <2>1 DEF Begins
  <2> QED
    BY <1>1, <2>2, BeginsOnce
<1>5. ASSUME q = r
      PROVE  StartsWith(key, prefix)
  <2>1. Len(prefix) <= Len(key)
    BY <1>1, <1>2, <1>5, NumbersAssumption
  <2>2. \A i \in 1..Len(prefix) : key[i] = prefix[i]
    BY <1>1, <1>2, <1>5, SameBeginning
  <2> QED
    BY <1>3, <2>1, <2>2
<1> QED
  BY <1>1, <1>2, <1>4, <1>5

\* The n-th separator is the one with n separators up to and including itself.
IsSeparator(text, i, n) ==
  /\ text \in Texts /\ n \in Nat \ {0} /\ i \in Separators(text)
  /\ Cardinality(Separators(text) \cap 1..i) = n

LEMMA SeparatorFound ==
  \A text, i, n :
    IsSeparator(text, i, n) => SeparatorAt(text, n) = i /\ ~(Cardinality(Separators(text)) < n)
<1> SUFFICES ASSUME NEW text \in Texts, NEW n \in Nat \ {0}, NEW i \in Separators(text),
                    Cardinality(Separators(text) \cap 1..i) = n
             PROVE  SeparatorAt(text, n) = i /\ ~(Cardinality(Separators(text)) < n)
  BY DEF IsSeparator
<1> DEFINE S == Separators(text)
<1>1. S \subseteq 1..Len(text) /\ Len(text) \in Nat
  BY LenProperties DEF Texts, Separators
<1>2. IsFiniteSet(S) /\ \A T \in SUBSET S : IsFiniteSet(T)
  <2>1. IsFiniteSet(1..Len(text))
    BY <1>1, FS_Interval
  <2>2. IsFiniteSet(S)
    BY <1>1, <2>1, FS_Subset
  <2> HIDE DEF S
  <2> QED
    BY <2>2, FS_Subset
<1> HIDE DEF S
<1>3. Cardinality(S \cap 1..i) <= Cardinality(S)
  BY <1>2, FS_Subset
<1>4. ASSUME NEW j \in S, Cardinality(S \cap 1..j) = n
      PROVE  i = j
  <2>1. i \in S /\ i \in 1..Len(text) /\ j \in 1..Len(text)
    BY <1>1, <1>4 DEF S
  <2>2. ASSUME NEW k \in S, NEW l \in S, k < l,
               Cardinality(S \cap 1..k) = Cardinality(S \cap 1..l)
        PROVE  FALSE
    <3>1. k \in Nat /\ l \in Nat \ {0}
      BY <1>1
    <3>2. S \cap 1..k \subseteq S \cap 1..l /\ l \in S \cap 1..l /\ l \notin S \cap 1..k
      BY <2>2, <3>1
    <3>3. IsFiniteSet(S \cap 1..l)
      BY <1>2
    <3>4. S \cap 1..k = S \cap 1..l
      BY <2>2, <3>2, <3>3, FS_Subset
    <3> QED
      BY <3>2, <3>4
  <2>3. Cardinality(S \cap 1..i) = n
    BY DEF S
  <2>4. ~(i < j) /\ ~(j < i)
    BY <1>4, <2>1, <2>2, <2>3
  <2> QED
    BY <1>1, <2>1, <2>4
<1>5. i \in S /\ Cardinality(S \cap 1..i) = n
  BY DEF S
<1>6. i = CHOOSE j \in S : Cardinality(S \cap 1..j) = n
  BY <1>4, <1>5
<1>7. ~(Cardinality(S) < n)
  BY <1>2, <1>3, <1>5, FS_CardinalityType
<1>8. SeparatorAt(text, n) = CHOOSE j \in S : Cardinality(S \cap 1..j) = n
  BY <1>7 DEF SeparatorAt, S
<1> QED
  BY <1>6, <1>7, <1>8 DEF S

\* A part of a text, byte by byte.
Stands(part, text, m, n) ==
  /\ text \in Texts /\ part \in Texts /\ m \in Nat \ {0} /\ n \in Nat
  /\ n + 1 = m + Len(part) /\ n <= Len(text)
  /\ \A i \in 1..Len(part) : text[m + i - 1] = part[i]

LEMMA PartIs ==
  \A t, text, m, n : Stands(t, text, m, n) => SubSeq(text, m, n) = t
<1> SUFFICES ASSUME NEW text \in Texts, NEW t \in Texts, NEW m \in Nat \ {0}, NEW n \in Nat,
                    n + 1 = m + Len(t), n <= Len(text),
                    \A i \in 1..Len(t) : text[m + i - 1] = t[i]
             PROVE  SubSeq(text, m, n) = t
  BY DEF Stands
<1>1. Len(t) \in Nat /\ Len(text) \in Nat /\ n - m + 1 = Len(t)
  BY LenProperties DEF Texts
<1>2. \A i \in m..n : text[i] \in Nat
  <2> TAKE i \in m..n
  <2>1. i \in 1..Len(text)
    BY <1>1
  <2> QED
    BY <2>1, ElementOfSeq DEF Texts
<1>3. /\ SubSeq(text, m, n) \in Texts
      /\ Len(SubSeq(text, m, n)) = IF m <= n THEN n - m + 1 ELSE 0
      /\ \A i \in 1..(n - m + 1) : SubSeq(text, m, n)[i] = text[m + i - 1]
  BY <1>2, SubSeqProperties DEF Texts
<1>4. Len(SubSeq(text, m, n)) = Len(t)
  BY <1>1, <1>3
<1>5. \A i \in 1..Len(t) : SubSeq(text, m, n)[i] = t[i]
  BY <1>1, <1>3
<1> QED
  BY <1>3, <1>4, <1>5, SeqEqual DEF Texts

LEMMA DigitsAreNoSeparators ==
  \A n \in Nat, i \in 1..Width : Pad(n)[i] \in Nat /\ Pad(n)[i] # Sep
<1> TAKE n \in Nat, i \in 1..Width
<1>1. Pad(n)[i] \in Digits
  BY PadLaws, ElementOfSeq
<1> QED
  BY <1>1, NumbersAssumption DEF Digits, Zero, Sep

\* The first three separators of the key of a name that has none.
LEMMA KeySeparators ==
  \A r \in Names, s \in Nat, tag \in Tags :
    Separators(r) = {} =>
      /\ SeparatorAt(MessageKey(r, s, tag), 1) = 4
      /\ SeparatorAt(MessageKey(r, s, tag), 2) = Len(r) + 5
      /\ SeparatorAt(MessageKey(r, s, tag), 3) = Len(r) + Width + 6
      /\ ~(Cardinality(Separators(MessageKey(r, s, tag))) < 2)
<1> SUFFICES ASSUME NEW r \in Names, NEW s \in Nat, NEW tag \in Tags, Separators(r) = {},
                    NEW key, key = MessageKey(r, s, tag)
             PROVE  /\ SeparatorAt(key, 1) = 4 /\ SeparatorAt(key, 2) = Len(r) + 5
                    /\ SeparatorAt(key, 3) = Len(r) + Width + 6
                    /\ ~(Cardinality(Separators(key)) < 2)
  BY Zenon
<1> DEFINE L == Len(r)  S == Separators(key)
<1>1. /\ key \in Texts /\ Len(key) = L + Width + 6 + Len(tag) /\ Begins(key, r)
      /\ \A i \in 1..Width : key[L + 5 + i] = Pad(s)[i]
      /\ key[L + Width + 6] = Sep /\ Len(tag) \in Nat
      /\ L \in Nat /\ Width \in Nat \ {0}
  <2>1. L \in Nat /\ Width \in Nat \ {0}
    BY PartsAreTexts, LenProperties, NumbersAssumption DEF Texts
  <2> QED
    BY <2>1, KeyLayout
<1>2. \A i \in 1..L : r[i] # Sep
  <2>1. DOMAIN r = 1..L
    BY PartsAreTexts, LenProperties DEF Texts
  <2> QED
    BY <2>1 DEF Separators
<1> HIDE DEF L
<1>3. \A i : i \in S <=> i \in 1..(L + Width + 6 + Len(tag)) /\ key[i] = Sep
  <2>1. DOMAIN key = 1..(L + Width + 6 + Len(tag))
    BY <1>1, LenProperties DEF Texts
  <2> QED
    BY <2>1 DEF Separators
<1>4. PICK second \in Nat, third \in Nat : second = L + 5 /\ third = L + Width + 6
  <2>1. L + 5 \in Nat /\ L + Width + 6 \in Nat
    BY <1>1
  <2> QED
    BY <2>1
<1>5. 4 \in S /\ second \in S /\ third \in S
  <2>1. key[4] = Sep /\ key[second] = Sep /\ key[third] = Sep
    BY <1>1, <1>4 DEF Begins, L
  <2>2. /\ 4 \in 1..(L + Width + 6 + Len(tag)) /\ second \in 1..(L + Width + 6 + Len(tag))
        /\ third \in 1..(L + Width + 6 + Len(tag))
    BY <1>1, <1>4
  <2> QED
    BY <1>3, <2>1, <2>2
<1>6. 1 \notin S /\ 2 \notin S /\ 3 \notin S
  BY <1>1, <1>3 DEF Begins, Sep
<1>7. \A i \in 1..L : 4 + i \notin S
  <2> TAKE i \in 1..L
  <2>1. key[4 + i] = r[i]
    BY <1>1 DEF Begins, L
  <2>2. r[i] # Sep
    BY <1>2
  <2> QED
    BY <1>3, <2>1, <2>2
<1>8. \A i \in 1..Width : second + i \notin S
  <2> TAKE i \in 1..Width
  <2>1. key[second + i] # Sep
    <3>1. second + i = L + 5 + i
      BY <1>1, <1>4
    <3>2. key[L + 5 + i] = Pad(s)[i]
      BY <1>1
    <3>3. Pad(s)[i] # Sep
      BY DigitsAreNoSeparators
    <3> QED
      BY <3>1, <3>2, <3>3
  <2> QED
    BY <1>3, <2>1
<1>9. 4 < second /\ second < third /\ \A i \in S : i \in Nat \ {0}
  BY <1>1, <1>3, <1>4
<1> HIDE DEF S
<1>10. S \cap 1..4 = {4}
  BY <1>5, <1>6
<1>11. S \cap 1..second = {4} \cup {second}
  <2>1. ASSUME NEW i \in S, i <= second
        PROVE  i \in {4, second}
    <3>1. CASE i <= 4
      BY <1>9, <1>10, <3>1
    <3>2. CASE 4 < i /\ i < second
      <4>1. PICK k \in 1..L : i = 4 + k
        <5>1. i - 4 \in 1..L /\ i = 4 + (i - 4)
          BY <1>1, <1>4, <1>9, <3>2
        <5> QED
          BY <5>1
      <4> QED
        BY <1>7, <4>1
    <3>3. CASE i = second
      BY <3>3
    <3> QED
      BY <1>9, <2>1, <3>1, <3>2, <3>3
  <2> QED
    BY <1>5, <1>9, <2>1
<1>12. S \cap 1..third = {4} \cup {second} \cup {third}
  <2>1. ASSUME NEW i \in S, i <= third
        PROVE  i \in {4, second, third}
    <3>1. CASE i <= second
      BY <1>9, <1>11, <3>1
    <3>2. CASE second < i /\ i < third
      <4>1. PICK k \in 1..Width : i = second + k
        <5>1. i - second \in 1..Width /\ i = second + (i - second)
          BY <1>1, <1>4, <1>9, <3>2
        <5> QED
          BY <5>1
      <4> QED
        BY <1>8, <4>1
    <3>3. CASE i = third
      BY <3>3
    <3> QED
      BY <1>9, <2>1, <3>1, <3>2, <3>3
  <2> QED
    BY <1>5, <1>9, <2>1
<1>13. /\ Cardinality(S \cap 1..4) = 1 /\ Cardinality(S \cap 1..second) = 2
       /\ Cardinality(S \cap 1..third) = 3
  <2> DEFINE A == {4}  B == A \cup {second}  C == B \cup {third}
  <2>1. second \notin A /\ third \notin B
    <3>1. second # 4 /\ third # 4 /\ third # second
      BY <1>9
    <3> QED
      BY <3>1
  <2>2. IsFiniteSet(A) /\ Cardinality(A) = 1
    BY FS_Singleton
  <2> HIDE DEF A
  <2>3. IsFiniteSet(B) /\ Cardinality(B) = 2
    BY <2>1, <2>2, FS_AddElement
  <2> HIDE DEF B
  <2>4. Cardinality(C) = 3
    <3>1. third \notin B
      BY <2>1
    <3> HIDE DEF C
    <3>2. Cardinality(B \cup {third}) = Cardinality(B) + 1
      BY <2>3, <3>1, FS_AddElement
    <3>3. C = B \cup {third}
      BY DEF C
    <3> QED
      BY <2>3, <3>2, <3>3
  <2> QED
    BY <1>10, <1>11, <1>12, <2>2, <2>3, <2>4 DEF A, B
<1>14. /\ IsSeparator(key, 4, 1) /\ IsSeparator(key, second, 2) /\ IsSeparator(key, third, 3)
  BY <1>1, <1>5, <1>13 DEF IsSeparator, S
<1>15. /\ SeparatorAt(key, 1) = 4 /\ SeparatorAt(key, 2) = second
       /\ SeparatorAt(key, 3) = third /\ ~(Cardinality(Separators(key)) < 2)
  BY <1>14, SeparatorFound, Zenon
<1> QED
  BY <1>4, <1>15 DEF L

\* The number a key was made of is read back from it.
LEMMA KeyParses ==
  \A r \in Names, s \in Nat, tag \in Tags :
    Separators(r) = {} /\ Cut(s)[Width] = 0 => ParseSeq(MessageKey(r, s, tag)) = s
<1> SUFFICES ASSUME NEW r \in Names, NEW s \in Nat, NEW tag \in Tags,
                    Separators(r) = {}, Cut(s)[Width] = 0,
                    NEW key, key = MessageKey(r, s, tag)
             PROVE  ParseSeq(key) = s
  BY Zenon
<1>1. /\ key \in Texts /\ Len(key) = Len(r) + Width + 6 + Len(tag) /\ Begins(key, r)
      /\ \A i \in 1..Width : key[Len(r) + 5 + i] = Pad(s)[i]
      /\ Len(tag) \in Nat /\ Len(r) \in Nat /\ Width \in Nat \ {0}
  <2>1. Len(r) \in Nat /\ Width \in Nat \ {0}
    BY PartsAreTexts, LenProperties, NumbersAssumption DEF Texts
  <2>2. /\ key \in Texts /\ Len(key) = Len(r) + Width + 6 + Len(tag) /\ Begins(key, r)
        /\ Len(tag) \in Nat
    BY KeyLayout
  <2>3. \A i \in 1..Width : key[Len(r) + 5 + i] = Pad(s)[i]
    BY KeyLayout
  <2> QED
    BY <2>1, <2>2, <2>3
<1>2. /\ SeparatorAt(key, 0) = 0 /\ SeparatorAt(key, 1) = 4
      /\ SeparatorAt(key, 2) = Len(r) + 5 /\ SeparatorAt(key, 3) = Len(r) + Width + 6
      /\ ~(Cardinality(Separators(key)) < 2)
  <2>1. SeparatorAt(key, 0) = 0
    BY DEF SeparatorAt
  <2> QED
    BY <2>1, KeySeparators
<1>3. Part(key, 1) = SubSeq(key, 1, 3)
  <2>1. Part(key, 1) = SubSeq(key, 0 + 1, 4 - 1)
    BY <1>2 DEF Part
  <2> QED
    BY <2>1
<1>4. SubSeq(key, 1, 3) = Msg
  <2>1. /\ Msg \in Texts /\ Len(Msg) = 3 /\ Msg[1] = 109 /\ Msg[2] = 115 /\ Msg[3] = 103
    BY DEF Msg, Texts
  <2>2. \A i \in 1..3 : key[1 + i - 1] = Msg[i]
    BY <1>1, <2>1 DEF Begins
  <2>3. 3 <= Len(key)
    BY <1>1
  <2>4. key \in Texts /\ 1 \in Nat \ {0} /\ 3 \in Nat
    BY <1>1
  <2>5. Stands(Msg, key, 1, 3)
    BY <2>1, <2>2, <2>3, <2>4 DEF Stands
  <2> QED
    BY <2>5, PartIs, Zenon
<1>5. Part(key, 3) = Pad(s)
  <2> DEFINE m == Len(r) + 5 + 1  n == Len(r) + Width + 6 - 1
  <2>1. Part(key, 3) = SubSeq(key, m, n)
    <3>1. PICK from \in Nat, to \in Nat : from = Len(r) + 5 /\ to = Len(r) + Width + 6
      BY <1>1
    <3>2. SeparatorAt(key, 3 - 1) = from
      <4>1. 3 - 1 = 2
        OBVIOUS
      <4> QED
        BY <1>2, <3>1, <4>1
    <3>3. SeparatorAt(key, 3) = to
      BY <1>2, <3>1
    <3>4. Part(key, 3) = SubSeq(key, from + 1, to - 1)
      BY <3>2, <3>3, Zenon DEF Part
    <3>5. from + 1 = m /\ to - 1 = n
      <4>1. Len(r) \in Nat /\ Width \in Nat
        BY <1>1
      <4> QED
        BY <3>1, <4>1
    <3> QED
      BY <3>4, <3>5, Zenon
  <2>2. /\ m \in Nat \ {0} /\ n \in Nat /\ n + 1 = m + Width /\ n <= Len(key)
        /\ \A i \in 1..Width : m + i - 1 = Len(r) + 5 + i
    BY <1>1
  <2> HIDE DEF m, n
  <2>3. Pad(s) \in Texts /\ Len(Pad(s)) = Width /\ key \in Texts
    BY <1>1, PadLength
  <2>4. Stands(Pad(s), key, m, n)
    BY <1>1, <2>2, <2>3 DEF Stands
  <2>5. SubSeq(key, m, n) = Pad(s)
    BY <2>4, PartIs, Zenon
  <2> QED
    BY <2>1, <2>5
<1>6. Part(key, 1) = Msg /\ ParseSeq(key) = Parse(Part(key, 3))
  BY <1>2, <1>3, <1>4 DEF ParseSeq
<1> QED
  BY <1>5, <1>6, PadParses

\* A cursor is read back as the name and the number it was made of.
LEMMA CursorDecodes ==
  \A r \in Names, s \in Nat :
    Separators(r) = {} /\ Cut(s)[Width] = 0 =>
      /\ DecodeCursor(EncodeCursor(r, s)) = [to |-> r, seq |-> s]
      /\ EncodeCursor(r, s) \in Texts
<1> SUFFICES ASSUME NEW r \in Names, NEW s \in Nat, Separators(r) = {}, Cut(s)[Width] = 0,
                    NEW text, text = EncodeCursor(r, s)
             PROVE  DecodeCursor(text) = [to |-> r, seq |-> s] /\ text \in Texts
  BY Zenon
<1> DEFINE head == Join(r, <<Sep>>)
<1>1. text = Join(head, Pad(s))
  BY Zenon DEF EncodeCursor, Join
<1>2. /\ r \in Texts /\ Pad(s) \in Texts /\ Len(Pad(s)) = Width
      /\ <<Sep>> \in Texts /\ Len(<<Sep>>) = 1 /\ <<Sep>>[1] = Sep
      /\ Width \in Nat \ {0} /\ Len(r) \in Nat /\ DOMAIN r = 1..Len(r)
  BY PartsAreTexts, PadLength, NumbersAssumption, LenProperties DEF Texts
<1>3. /\ head \in Texts /\ Len(head) = Len(r) + 1
      /\ \A i \in 1..Len(r) : head[i] = r[i] /\ r[i] # Sep
      /\ head[Len(r) + 1] = Sep
  <2>1. /\ head \in Texts /\ Len(head) = Len(r) + 1 /\ \A i \in 1..Len(r) : head[i] = r[i]
        /\ head[Len(r) + 1] = Sep
    BY <1>2, SeparatorAdded
  <2>2. \A i \in 1..Len(r) : r[i] # Sep
    BY <1>2 DEF Separators
  <2> QED
    BY <2>1, <2>2
<1> HIDE DEF head
<1>4. /\ text \in Texts /\ Len(text) = Len(r) + 1 + Width
      /\ \A i \in 1..(Len(r) + 1) : text[i] = head[i]
      /\ \A i \in 1..Width : text[Len(r) + 1 + i] = Pad(s)[i]
  <2>1. /\ text \in Texts /\ Len(text) = Len(head) + Len(Pad(s))
        /\ \A i \in 1..Len(head) : text[i] = head[i]
        /\ \A i \in 1..Len(Pad(s)) : text[Len(head) + i] = Pad(s)[i]
    <3>1. /\ Join(head, Pad(s)) \in Texts
          /\ Len(Join(head, Pad(s))) = Len(head) + Len(Pad(s))
          /\ \A i \in 1..Len(head) : Join(head, Pad(s))[i] = head[i]
          /\ \A i \in 1..Len(Pad(s)) : Join(head, Pad(s))[Len(head) + i] = Pad(s)[i]
      <4>1. head \in Texts /\ Pad(s) \in Texts
        BY <1>2, <1>3
      <4> QED
        BY <4>1, JoinLaws, JoinAt
    <3> QED
      BY <1>1, <3>1
  <2> QED
    BY <1>2, <1>3, <2>1
<1>5. SeparatorAt(text, 1) = Len(r) + 1 /\ Separators(text) # {}
  <2> DEFINE S == Separators(text)
  <2>1. \A i : i \in S <=> i \in 1..(Len(r) + 1 + Width) /\ text[i] = Sep
    BY <1>4, LenProperties DEF Separators, Texts
  <2>2. Len(r) + 1 \in S
    BY <1>2, <1>3, <1>4, <2>1
  <2>3. \A i \in 1..Len(r) : i \notin S
    BY <1>2, <1>3, <1>4, <2>1
  <2> HIDE DEF S
  <2>4. S \cap 1..(Len(r) + 1) = {Len(r) + 1}
    BY <1>2, <2>2, <2>3
  <2>5. Cardinality(S \cap 1..(Len(r) + 1)) = 1
    BY <2>4, FS_Singleton
  <2>6. IsSeparator(text, Len(r) + 1, 1)
    BY <1>4, <2>2, <2>5 DEF S, IsSeparator
  <2>7. SeparatorAt(text, 1) = Len(r) + 1
    BY <2>6, SeparatorFound, Zenon
  <2> QED
    BY <2>2, <2>7 DEF S
<1>6. SubSeq(text, 1, (Len(r) + 1) - 1) = r
  <2>1. PICK m \in Nat \ {0}, n \in Nat : m = 1 /\ n = (Len(r) + 1) - 1
    <3>1. (Len(r) + 1) - 1 \in Nat /\ 1 \in Nat \ {0}
      BY <1>2
    <3> QED
      BY <3>1
  <2>2. \A i \in 1..Len(r) : m + i - 1 = i /\ text[i] = r[i]
    BY <1>2, <1>3, <1>4, <2>1
  <2>3. r \in Texts /\ text \in Texts /\ n + 1 = m + Len(r) /\ n <= Len(text)
    BY <1>2, <1>4, <2>1
  <2>4. Stands(r, text, m, n)
    BY <2>2, <2>3 DEF Stands
  <2>5. SubSeq(text, m, n) = r
    BY <2>4, PartIs, Zenon
  <2> QED
    BY <2>1, <2>5
<1>7. SubSeq(text, (Len(r) + 1) + 1, Len(text)) = Pad(s)
  <2> DEFINE m == (Len(r) + 1) + 1  n == Len(text)
  <2>1. /\ m \in Nat \ {0} /\ n \in Nat /\ n + 1 = m + Width /\ n <= Len(text)
        /\ \A i \in 1..Width : m + i - 1 = Len(r) + 1 + i
    BY <1>2, <1>4
  <2> HIDE DEF m, n
  <2>2. Pad(s) \in Texts /\ Len(Pad(s)) = Width /\ text \in Texts
    BY <1>2, <1>4
  <2>3. Stands(Pad(s), text, m, n)
    BY <1>4, <2>1, <2>2 DEF Stands
  <2>4. SubSeq(text, m, n) = Pad(s)
    BY <2>3, PartIs, Zenon
  <2> QED
    BY <2>4 DEF m, n
<1>8. Parse(SubSeq(text, (Len(r) + 1) + 1, Len(text))) = s /\ s # Invalid
  BY <1>7, PadParses, OptionsAssumption
<1>9. DecodeCursor(text) = [to |-> SubSeq(text, 1, (Len(r) + 1) - 1), seq |-> s]
  BY <1>5, <1>8 DEF DecodeCursor
<1> QED
  BY <1>4, <1>6, <1>9

\* A text that has a smaller byte where two texts first differ is the lesser one.
LEMMA LessAt ==
  \A a, b \in Texts : \A i \in 1..Len(a) \cap 1..Len(b) :
    a[i] < b[i] /\ (\A j \in 1..(i - 1) : a[j] = b[j]) => Less(a, b) /\ ~Less(b, a)
<1> SUFFICES ASSUME NEW a \in Texts, NEW b \in Texts, NEW i \in 1..Len(a) \cap 1..Len(b),
                    a[i] < b[i], \A j \in 1..(i - 1) : a[j] = b[j]
             PROVE  Less(a, b) /\ ~Less(b, a)
  OBVIOUS
<1>1. /\ DOMAIN a = 1..Len(a) /\ DOMAIN b = 1..Len(b) /\ Len(a) \in Nat /\ Len(b) \in Nat
      /\ \A j \in 1..Len(a) : a[j] \in Nat
      /\ \A j \in 1..Len(b) : b[j] \in Nat
  BY LenProperties, ElementOfSeq DEF Texts
<1>2. Less(a, b)
  BY <1>1 DEF Less
<1>3. ~StartsWith(a, b)
  BY <1>1, StartsWithAt
<1>4. ASSUME NEW j \in DOMAIN b \cap DOMAIN a, b[j] < a[j],
             \A k \in 1..(j - 1) : b[k] = a[k]
      PROVE  FALSE
  <2>1. i \in Nat \ {0} /\ j \in Nat \ {0}
    BY <1>1
  <2>2. a[j] \in Nat /\ b[j] \in Nat /\ a[i] \in Nat /\ b[i] \in Nat
    BY <1>1
  <2>3. CASE j < i
    <3>1. a[j] = b[j]
      BY <2>1, <2>3
    <3> QED
      BY <1>4, <2>2, <3>1
  <2>4. CASE i < j
    <3>1. b[i] = a[i]
      BY <1>4, <2>1, <2>4
    <3> QED
      BY <2>2, <3>1
  <2>5. CASE i = j
    BY <1>4, <2>2, <2>5
  <2> QED
    BY <2>1, <2>3, <2>4, <2>5
<1> QED
  BY <1>2, <1>3, <1>4 DEF Less

\* The keys of a recipient are in the order of their numbers.
LEMMA KeysOrdered ==
  \A r \in Names, s, t \in Nat, tag, other \in Tags :
    s < t /\ Cut(s)[Width] = 0 /\ Cut(t)[Width] = 0 =>
      /\ Less(MessageKey(r, s, tag), MessageKey(r, t, other))
      /\ ~Less(MessageKey(r, t, other), MessageKey(r, s, tag))
<1> SUFFICES ASSUME NEW r \in Names, NEW s \in Nat, NEW t \in Nat, NEW tag \in Tags,
                    NEW other \in Tags, s < t, Cut(s)[Width] = 0, Cut(t)[Width] = 0,
                    NEW a, a = MessageKey(r, s, tag), NEW b, b = MessageKey(r, t, other)
             PROVE  Less(a, b) /\ ~Less(b, a)
  BY Zenon
<1> DEFINE L == Len(r)
<1>1. /\ a \in Texts /\ Len(a) = L + Width + 6 + Len(tag) /\ Begins(a, r)
      /\ \A i \in 1..Width : a[L + 5 + i] = Pad(s)[i]
      /\ Len(tag) \in Nat
  BY KeyLayout
<1>2. /\ b \in Texts /\ Len(b) = L + Width + 6 + Len(other) /\ Begins(b, r)
      /\ \A i \in 1..Width : b[L + 5 + i] = Pad(t)[i]
      /\ Len(other) \in Nat
  BY KeyLayout
<1>3. L \in Nat /\ Width \in Nat
  BY PartsAreTexts, LenProperties, NumbersAssumption DEF Texts
<1>4. PICK i \in 1..Width : Pad(s)[i] < Pad(t)[i] /\ \A j \in 1..(i - 1) : Pad(s)[j] = Pad(t)[j]
  BY PadOrder
<1>5. \A j \in 1..(L + 5) : a[j] = b[j]
  BY <1>1, <1>2, SameBeginning
<1> HIDE DEF L
<1>6. a[L + 5 + i] < b[L + 5 + i]
  BY <1>1, <1>2, <1>4
<1>7. L + 5 + i \in 1..Len(a) \cap 1..Len(b)
  BY <1>1, <1>2, <1>3, <1>4
<1>8. \A j \in 1..((L + 5 + i) - 1) : a[j] = b[j]
  <2> TAKE j \in 1..((L + 5 + i) - 1)
  <2>1. \/ j \in 1..(L + 5)
        \/ /\ j - (L + 5) \in 1..(i - 1) /\ j - (L + 5) \in 1..Width
           /\ j = L + 5 + (j - (L + 5))
    BY <1>3, <1>4
  <2> QED
    BY <1>1, <1>2, <1>4, <1>5, <2>1
<1>9. PICK k \in 1..Len(a) \cap 1..Len(b) : k = L + 5 + i
  BY <1>7
<1>10. a[k] < b[k] /\ \A j \in 1..(k - 1) : a[j] = b[j]
  BY <1>6, <1>8, <1>9
<1>11. a \in Texts /\ b \in Texts
  BY <1>1, <1>2
<1> QED
  BY <1>10, <1>11, LessAt

LEMMA NotLessItself ==
  \A a \in Texts : ~Less(a, a)
<1> TAKE a \in Texts
<1>1. DOMAIN a = 1..Len(a) /\ \A j \in 1..Len(a) : a[j] \in Nat
  BY LenProperties, ElementOfSeq DEF Texts
<1> QED
  BY <1>1 DEF Less

-----------------------------------------------------------------------------
(* A pull. *)

\* The arrival numbers of a recipient are below its counter and used once.
Numbered ==
  /\ \A r \in Names : seq[r] <= MaxSeq
  /\ \A m \in queue : m.seq < seq[m.to]
  /\ \A m, n \in queue : m.to = n.to /\ m.seq = n.seq => m = n

LEMMA PushNumbered ==
  ASSUME Inv, Numbered, NEW r \in Names, NEW tag \in Tags, Push(r, tag)
  PROVE  Numbered'
<1> DEFINE m == [to |-> r, seq |-> seq[r], tag |-> tag]
<1>1. /\ m \in Stored /\ queue \subseteq Stored /\ m.to = r /\ m.seq = seq[r]
      /\ seq \in [Names -> Nat] /\ MaxSeq \in Nat
  BY BoundsAssumption DEF Inv, Stored
<1>2. queue' = queue \cup {m} /\ seq' = [seq EXCEPT ![r] = @ + 1] /\ seq[r] < MaxSeq
  BY DEF Push
<1> HIDE DEF m
<1>3. \A q \in Names : seq'[q] <= MaxSeq
  BY <1>1, <1>2 DEF Numbered
<1>4. \A n \in queue : n.to \in Names /\ n.seq \in Nat /\ n.seq < seq[n.to]
  BY <1>1 DEF Stored, Numbered
<1>5. \A n \in queue' : n.seq < seq'[n.to]
  BY <1>1, <1>2, <1>4
<1>6. \A n, o \in queue' : n.to = o.to /\ n.seq = o.seq => n = o
  <2>1. \A n \in queue : n.to = r => n.seq # m.seq
    BY <1>1, <1>4
  <2> QED
    BY <1>1, <1>2, <2>1 DEF Numbered
<1> QED
  BY <1>3, <1>5, <1>6 DEF Numbered

LEMMA NumberedHolds == Spec => []Numbered
<1>1. Init => Numbered
  BY BoundsAssumption DEF Init, Numbered
<1>2. Inv /\ Numbered /\ [Next]_vars => Numbered'
  <2> SUFFICES ASSUME Inv, Numbered, [Next]_vars
               PROVE  Numbered'
    OBVIOUS
  <2>1. CASE UNCHANGED vars
    BY <2>1 DEF vars, Numbered
  <2>2. ASSUME NEW r \in Names, NEW tag \in Tags, Push(r, tag)
        PROVE  Numbered'
    BY <2>2, PushNumbered
  <2>3. ASSUME NEW r \in Names, NEW tag \in Tags, Ack(r, tag)
        PROVE  Numbered'
    <3>1. queue' \subseteq queue /\ seq' = seq
      BY <2>3 DEF Ack
    <3> QED
      BY <3>1 DEF Numbered
  <2> QED
    BY <2>1, <2>2, <2>3 DEF Next
<1> QED
  BY <1>1, <1>2, InvHolds, PTL DEF Spec

\* What a scan looks at, what it may return, and what of that is ahead of an entry.
Found(r) == {e \in messages : StartsWith(e.key, MessagePrefix(r))}
Live(r, start) ==
  {e \in Found(r) : LET s == ParseSeq(e.key)
                    IN  s \notin {None, Invalid} /\ (start = None \/ s > start)}
Ahead(L, e) == Cardinality({f \in L : Less(f.key, e.key)})

\* What it should return.
Rest(r, start) == {m \in queue : m.to = r /\ (start = None \/ m.seq > start)}
Before(R, m) == Cardinality({n \in R : n.seq < m.seq})

\* The messages of one recipient, in a finite set.
Mine(r) == {R \in SUBSET queue : \A m \in R : m.to = r}

LEMMA MineAre ==
  ASSUME Inv, Numbered, NEW r \in Names, NEW R \in Mine(r)
  PROVE  /\ IsFiniteSet(R) /\ R \subseteq queue
         /\ \A m \in R : /\ m.to = r /\ m.seq \in Nat /\ m.tag \in Tags
                         /\ Cut(m.seq)[Width] = 0
         /\ \A m, n \in R : m.seq = n.seq => m = n
<1>1. R \subseteq queue /\ IsFiniteSet(queue) /\ \A m \in R : m.to = r
  BY DEF Mine, Inv
<1>2. IsFiniteSet(R)
  BY <1>1, FS_Subset
<1>3. ASSUME NEW m \in R
      PROVE  m.seq \in Nat /\ m.tag \in Tags /\ Cut(m.seq)[Width] = 0
  <2>1. m.seq \in Nat /\ m.tag \in Tags
    BY <1>1 DEF Inv, Stored
  <2>2. m.seq < seq[r] /\ seq[r] <= MaxSeq /\ seq[r] \in Nat
    BY <1>1 DEF Inv, Numbered
  <2>3. m.seq \in 0..(MaxSeq - 1)
    BY <2>1, <2>2, BoundsAssumption
  <2> QED
    BY <2>1, <2>3, BoundsAssumption
<1>4. \A m, n \in R : m.seq = n.seq => m = n
  BY <1>1 DEF Numbered
<1> QED
  BY <1>1, <1>2, <1>3, <1>4

\* Every rank from 0 up to the number of messages is the rank of exactly one of them.
LEMMA RanksAreTaken ==
  ASSUME Inv, Numbered, NEW r \in Names, NEW R \in Mine(r)
  PROVE  /\ Cardinality(R) \in Nat
         /\ \A m, n \in R : Before(R, m) = Before(R, n) => m = n
         /\ \A i \in 0..(Cardinality(R) - 1) : \E m \in R : Before(R, m) = i
<1> DEFINE Smaller(m) == {n \in R : n.seq < m.seq}
           N == Cardinality(R)
<1>1. /\ IsFiniteSet(R) /\ \A m \in R : m.seq \in Nat
      /\ \A m, n \in R : m.seq = n.seq => m = n
  BY MineAre
<1>2. \A m \in R : /\ Smaller(m) \subseteq R /\ IsFiniteSet(Smaller(m)) /\ m \notin Smaller(m)
                   /\ Before(R, m) = Cardinality(Smaller(m))
  <2> TAKE m \in R
  <2>1. Smaller(m) \subseteq R /\ m \notin Smaller(m)
    BY <1>1
  <2>2. Before(R, m) = Cardinality(Smaller(m))
    BY DEF Before
  <2> QED
    BY <1>1, <2>1, <2>2, FS_Subset
<1>3. \A m, n \in R : m.seq < n.seq => Smaller(m) \subseteq Smaller(n) /\ m \in Smaller(n)
  BY <1>1
<1> HIDE DEF Smaller
<1>4. N \in Nat /\ \A m \in R : Before(R, m) \in 0..(N - 1)
  <2>1. N \in Nat
    BY <1>1, FS_CardinalityType
  <2>2. ASSUME NEW m \in R
        PROVE  Cardinality(Smaller(m)) \in 0..(N - 1)
    <3>1. Cardinality(Smaller(m)) \in Nat /\ Cardinality(Smaller(m)) <= N
      BY <1>1, <1>2, FS_Subset, FS_CardinalityType
    <3>2. Cardinality(Smaller(m)) # N
      BY <1>1, <1>2, FS_Subset
    <3> QED
      BY <2>1, <3>1, <3>2
  <2> QED
    BY <1>2, <2>1, <2>2
<1>5. ASSUME NEW m \in R, NEW n \in R, m.seq < n.seq
      PROVE  Before(R, m) # Before(R, n)
  <2>1. Smaller(m) \subseteq Smaller(n) /\ m \in Smaller(n) /\ m \notin Smaller(m)
    BY <1>2, <1>3, <1>5
  <2>2. Cardinality(Smaller(m)) # Cardinality(Smaller(n))
    BY <1>2, <2>1, FS_Subset
  <2> QED
    BY <1>2, <2>2
<1>6. \A m, n \in R : Before(R, m) = Before(R, n) => m = n
  <2> SUFFICES ASSUME NEW m \in R, NEW n \in R, Before(R, m) = Before(R, n)
               PROVE  m = n
    OBVIOUS
  <2>1. ~(m.seq < n.seq) /\ ~(n.seq < m.seq)
    BY <1>5
  <2>2. m.seq = n.seq
    BY <1>1, <2>1
  <2> QED
    BY <1>1, <2>2
<1> DEFINE f == [m \in R |-> Before(R, m)]
<1>7. f \in Injection(R, 0..(N - 1))
  BY <1>4, <1>6 DEF Injection, IsInjective
<1>8. IsFiniteSet(0..(N - 1)) /\ Cardinality(0..(N - 1)) = N
  BY <1>4, FS_Interval
<1>9. f \in Surjection(R, 0..(N - 1))
  <2> HIDE DEF f
  <2> QED
    BY <1>7, <1>8, FS_Injection
<1>10. \A i \in 0..(N - 1) : \E m \in R : Before(R, m) = i
  BY <1>9 DEF Surjection
<1> QED
  BY <1>4, <1>6, <1>10

\* As many messages as entries, with the same ranks.
LEMMA EntriesRanked ==
  ASSUME Inv, Numbered, NEW r \in Names, NEW R \in Mine(r),
         NEW L, L = {MessageEntry(m) : m \in R}
  PROVE  /\ Cardinality(L) = Cardinality(R)
         /\ \A m \in R : Ahead(L, MessageEntry(m)) = Before(R, m)
<1>1. /\ IsFiniteSet(R) /\ \A m, n \in R : m.seq = n.seq => m = n
      /\ \A m \in R : m.to = r /\ m.seq \in Nat /\ m.tag \in Tags /\ Cut(m.seq)[Width] = 0
  BY MineAre
<1>2. \A m, n \in R : MessageEntry(m) = MessageEntry(n) => m = n
  BY DEF MessageEntry
<1>3. \A P \in SUBSET R : Cardinality({MessageEntry(m) : m \in P}) = Cardinality(P)
  <2> TAKE P \in SUBSET R
  <2> DEFINE T == {MessageEntry(m) : m \in P}
             f == [m \in P |-> MessageEntry(m)]
  <2>1. f \in Bijection(P, T)
    BY <1>2 DEF Bijection, Injection, Surjection, IsInjective
  <2>2. IsFiniteSet(P)
    BY <1>1, FS_Subset
  <2> HIDE DEF f, T
  <2>3. Cardinality(T) = Cardinality(P)
    BY <2>1, <2>2, FS_Bijection DEF ExistsBijection
  <2> QED
    BY <2>3 DEF T
<1>4. \A m, n \in R : Less(MessageEntry(m).key, MessageEntry(n).key) <=> m.seq < n.seq
  <2> TAKE m, n \in R
  <2>1. /\ MessageEntry(m).key = MessageKey(r, m.seq, m.tag)
        /\ MessageEntry(n).key = MessageKey(r, n.seq, n.tag)
    BY <1>1 DEF MessageEntry
  <2>2. CASE m.seq < n.seq
    BY <1>1, <2>1, <2>2, KeysOrdered
  <2>3. CASE n.seq < m.seq
    BY <1>1, <2>1, <2>3, KeysOrdered
  <2>4. CASE m.seq = n.seq
    <3>1. m = n /\ MessageEntry(m).key \in Texts
      BY <1>1, <2>1, <2>4, KeyLayout
    <3> QED
      BY <1>1, <3>1, NotLessItself
  <2> QED
    BY <1>1, <2>2, <2>3, <2>4
<1>5. ASSUME NEW m \in R
      PROVE  Ahead(L, MessageEntry(m)) = Before(R, m)
  <2> DEFINE P == {n \in R : n.seq < m.seq}
  <2>1. {f \in L : Less(f.key, MessageEntry(m).key)} = {MessageEntry(n) : n \in P}
    <3>1. \A n \in R : Less(MessageEntry(n).key, MessageEntry(m).key) <=> n \in P
      BY <1>4
    <3> HIDE DEF P
    <3>2. P \subseteq R
      BY DEF P
    <3> QED
      BY <3>1, <3>2
  <2>2. P \in SUBSET R
    OBVIOUS
  <2> QED
    BY <1>3, <2>1, <2>2 DEF Ahead, Before
<1> QED
  BY <1>3, <1>5

\* For an unambiguous name the scan looks at the name's messages, understands
\* each of their keys, and returns those it should.
LEMMA LiveIsRest ==
  ASSUME Inv, Numbered, NEW r \in Names, Unambiguous(r), NEW start \in Nat \cup {None}
  PROVE  /\ Live(r, start) = {MessageEntry(m) : m \in Rest(r, start)}
         /\ Rest(r, start) \in Mine(r)
         /\ \A e \in Found(r) : ParseSeq(e.key) # Invalid
<1> DEFINE R == {m \in queue : m.to = r}
<1>1. R \in Mine(r) /\ Rest(r, start) \in Mine(r) /\ Rest(r, start) \subseteq R
  BY DEF Mine, Rest
<1>2. \A m \in R : /\ m \in queue /\ m.to = r /\ m.seq \in Nat /\ m.tag \in Tags
                   /\ Cut(m.seq)[Width] = 0
  BY <1>1, MineAre
<1>3. Found(r) = {MessageEntry(m) : m \in R}
  <2>1. ASSUME NEW m \in queue
        PROVE  StartsWith(MessageEntry(m).key, MessagePrefix(r)) <=> m \in R
    <3>1. m.to \in Names /\ m.seq \in Nat /\ m.tag \in Tags
      BY DEF Inv, Stored
    <3>2. MessageEntry(m).key = MessageKey(m.to, m.seq, m.tag)
      BY DEF MessageEntry
    <3>3. StartsWith(MessageEntry(m).key, MessagePrefix(r)) <=> m.to = r
      BY <3>1, <3>2, PrefixFinds
    <3> QED
      BY <3>3
  <2>2. messages = {MessageEntry(m) : m \in queue} /\ R \subseteq queue
    BY DEF Inv
  <2> HIDE DEF R
  <2> QED
    BY <2>1, <2>2 DEF Found
<1> HIDE DEF R
<1>4. \A m \in R : ParseSeq(MessageEntry(m).key) = m.seq
  <2> TAKE m \in R
  <2>1. MessageEntry(m).key = MessageKey(r, m.seq, m.tag)
    BY <1>2 DEF MessageEntry
  <2>2. Separators(r) = {}
    BY DEF Unambiguous
  <2> QED
    BY <1>2, <2>1, <2>2, KeyParses
<1>5. \A m \in R : m.seq \notin {None, Invalid}
  BY <1>2, OptionsAssumption
<1>6. \A e \in Found(r) : ParseSeq(e.key) # Invalid
  BY <1>3, <1>4, <1>5
<1>7. Rest(r, start) = {m \in R : start = None \/ m.seq > start}
  BY DEF Rest, R
<1>8. Live(r, start) = {MessageEntry(m) : m \in Rest(r, start)}
  <2>1. \A m \in R : MessageEntry(m) \in Live(r, start) <=> m \in Rest(r, start)
    BY <1>3, <1>4, <1>5, <1>7 DEF Live
  <2>2. Live(r, start) \subseteq Found(r)
    BY DEF Live
  <2> QED
    BY <1>1, <1>3, <2>1, <2>2
<1> QED
  BY <1>1, <1>6, <1>8

LEMMA ScanIsOwed ==
  ASSUME Inv, Numbered, NEW r \in Names, Unambiguous(r), NEW start \in Nat \cup {None},
         NEW limit \in Nat
  PROVE  Scan(r, start, limit) = Owed(r, start, limit)
<1> DEFINE L == Live(r, start)
           R == Rest(r, start)
           page == [i \in 1..AtMost(limit, Cardinality(L)) |->
                      (CHOOSE e \in L : Ahead(L, e) = i - 1).value]
           items == [i \in 1..AtMost(limit, Cardinality(R)) |->
                       CHOOSE m \in R : Before(R, m) = i - 1]
<1>1. /\ L = {MessageEntry(m) : m \in R} /\ R \in Mine(r)
      /\ \A e \in Found(r) : ParseSeq(e.key) # Invalid
  BY LiveIsRest
<1>2. Scan(r, start, limit) =
        [error |-> None, items |-> page,
         next |-> IF Cardinality(L) > limit THEN EncodeCursor(r, Last(page).seq) ELSE None]
  <2>1. ~ \E e \in Found(r) : ParseSeq(e.key) = Invalid /\ Ahead(L, e) <= limit
    BY <1>1
  <2> QED
    BY <2>1, Zenon DEF Scan, Found, Live, Ahead
<1>3. Owed(r, start, limit) =
        [error |-> None, items |-> items,
         next |-> IF Cardinality(R) > limit THEN EncodeCursor(r, Last(items).seq) ELSE None]
  BY Zenon DEF Owed, Rest, Before
<1>4. /\ Cardinality(L) = Cardinality(R)
      /\ \A m \in R : Ahead(L, MessageEntry(m)) = Before(R, m)
  <2> HIDE DEF L, R
  <2> QED
    BY <1>1, EntriesRanked
<1>5. /\ Cardinality(R) \in Nat
      /\ \A m, n \in R : Before(R, m) = Before(R, n) => m = n
      /\ \A i \in 0..(Cardinality(R) - 1) : \E m \in R : Before(R, m) = i
  <2> HIDE DEF L, R
  <2> QED
    BY <1>1, RanksAreTaken
<1> HIDE DEF L, R
<1>6. ASSUME NEW i \in 1..AtMost(limit, Cardinality(R))
      PROVE  (CHOOSE e \in L : Ahead(L, e) = i - 1).value = CHOOSE m \in R : Before(R, m) = i - 1
  <2>1. i - 1 \in 0..(Cardinality(R) - 1)
    BY <1>5 DEF AtMost
  <2>2. PICK m \in R : Before(R, m) = i - 1
    BY <1>5, <2>1
  <2>3. (CHOOSE n \in R : Before(R, n) = i - 1) = m
    BY <1>5, <2>2
  <2>4. MessageEntry(m) \in L /\ Ahead(L, MessageEntry(m)) = i - 1
    BY <1>1, <1>4, <2>2
  <2>5. \A e \in L : Ahead(L, e) = i - 1 => e = MessageEntry(m)
    BY <1>1, <1>4, <1>5, <2>2
  <2>6. (CHOOSE e \in L : Ahead(L, e) = i - 1) = MessageEntry(m)
    BY <2>4, <2>5
  <2>7. MessageEntry(m).value = m
    BY DEF MessageEntry
  <2> QED
    BY <2>3, <2>6, <2>7
<1>7. page = items
  BY <1>4, <1>6
<1> HIDE DEF page, items
<1> QED
  BY <1>2, <1>3, <1>4, <1>7

\* KeySpace!PullIsExact for any names, tags, Base and Width (store_sled.rs:149-195,
\* 315-388; store.rs:80-102): a pull of an unambiguous name returns the first messages
\* of its queue in the order of arrival, and its cursor resumes where the page ended.
THEOREM PullsCorrect == Spec => []PullIsExact
<1>1. Inv /\ Numbered => PullIsExact
  <2> SUFFICES ASSUME Inv, Numbered, NEW r \in Names, NEW limit \in 1..PullMax, Unambiguous(r)
               PROVE  /\ Pull(r, None, limit) = Owed(r, None, limit)
                      /\ \A s \in 0..(MaxSeq - 1) :
                           Pull(r, EncodeCursor(r, s), limit) = Owed(r, s, limit)
    BY DEF PullIsExact
  <2>1. limit \in Nat
    BY BoundsAssumption
  <2>2. Pull(r, None, limit) = Owed(r, None, limit)
    <3>1. Pull(r, None, limit) = Scan(r, None, limit)
      BY DEF Pull
    <3> QED
      BY <2>1, <3>1, ScanIsOwed
  <2>3. ASSUME NEW s \in 0..(MaxSeq - 1)
        PROVE  Pull(r, EncodeCursor(r, s), limit) = Owed(r, s, limit)
    <3>1. s \in Nat /\ Cut(s)[Width] = 0 /\ Separators(r) = {} /\ r \in Seq(Nat)
      BY BoundsAssumption, TextsAssumption DEF Unambiguous
    <3>2. /\ EncodeCursor(r, s) \in Seq(Nat)
          /\ DecodeCursor(EncodeCursor(r, s)) = [to |-> r, seq |-> s]
      BY <3>1, CursorDecodes DEF Texts
    <3>3. [to |-> r, seq |-> s] \in [to : Seq(Nat), seq : Nat]
      BY <3>1
    <3>4. EncodeCursor(r, s) # None /\ [to |-> r, seq |-> s] \notin {None, Invalid}
      BY <3>2, <3>3, OptionsAssumption
    <3>5. Pull(r, EncodeCursor(r, s), limit) = Scan(r, s, limit)
      BY <3>2, <3>4 DEF Pull
    <3> QED
      BY <2>1, <3>1, <3>5, ScanIsOwed
  <2> QED
    BY <2>2, <2>3
<1> QED
  BY <1>1, InvHolds, NumberedHolds, PTL
=============================================================================
