-------------------------------- MODULE Codec --------------------------------
(***************************************************************************)
(* The texts the sled store files things under, and the text of a pull     *)
(* cursor (store_sled.rs:315-388, store.rs:80-102).                        *)
(*                                                                         *)
(* A text is the sequence of its bytes.  Numbers have Base digits, 10 in   *)
(* the code, and are padded with zeros to Width of them, 20 there.  A tag  *)
(* is the text "{message_id}:{chunk}" of a message; all tags have the same *)
(* length.  The Base64 around a cursor is left out: it can be undone, and  *)
(* tells nothing apart.                                                    *)
(***************************************************************************)
EXTENDS Naturals, Sequences, FiniteSets

CONSTANTS
  Base,      \* the base numbers are written in
  Width,     \* the digits of an arrival_seq
  None,      \* Option::None
  Invalid    \* Err of a decoder

ASSUME NumbersAssumption == Base \in 2..10 /\ Width \in Nat \ {0}

\* An Option or a Result is told apart from what it could hold.
ASSUME OptionsAssumption ==
  \A nothing \in {None, Invalid} :
    nothing \notin Nat /\ nothing \notin Seq(Nat) /\ nothing \notin [to : Seq(Nat), seq : Nat]

\* The bytes the decoders look for.
Plus == 43
Zero == 48
Sep == 58
Digits == Zero..(Zero + Base - 1)

\* n without its last k digits, for k up to Width.
Cut(n) == LET cut[k \in 0..Width] == IF k = 0 THEN n ELSE cut[k - 1] \div Base IN cut

\* {:020}, of a number with no more digits than that.
Pad(n) == [i \in 1..Width |-> Zero + (Cut(n)[Width - i] % Base)]

-----------------------------------------------------------------------------
(* Texts and their parts between separators. *)

Separators(text) == {i \in DOMAIN text : text[i] = Sep}

\* Where the n-th separator stands; one past the end when there are fewer.
SeparatorAt(text, n) ==
  IF n = 0 THEN 0
  ELSE IF Cardinality(Separators(text)) < n THEN Len(text) + 1
  ELSE CHOOSE i \in Separators(text) : Cardinality(Separators(text) \cap 1..i) = n

\* str::split(':'), its n-th part.
Part(text, n) == SubSeq(text, SeparatorAt(text, n - 1) + 1, SeparatorAt(text, n) - 1)

StartsWith(text, prefix) ==
  Len(prefix) <= Len(text) /\ SubSeq(text, 1, Len(prefix)) = prefix

\* The order of sled's keys: byte by byte.
Less(a, b) ==
  \/ a # b /\ StartsWith(b, a)
  \/ \E i \in DOMAIN a \cap DOMAIN b :
       a[i] < b[i] /\ \A j \in 1..(i - 1) : a[j] = b[j]

\* str::parse::<u64>: an optional plus sign and at least one digit.  The texts
\* here are too short for an overflow.
Number(digits) ==
  LET value[i \in 0..Len(digits)] ==
        IF i = 0 THEN 0 ELSE Base * value[i - 1] + (digits[i] - Zero)
  IN  value[Len(digits)]

Parse(text) ==
  LET digits == IF text # <<>> /\ Head(text) = Plus THEN Tail(text) ELSE text
  IN  IF digits # <<>> /\ \A i \in DOMAIN digits : digits[i] \in Digits THEN Number(digits) ELSE Invalid

-----------------------------------------------------------------------------
(* Keys of the trees. *)

Msg == <<109, 115, 103>>
Idx == <<105, 100, 120>>

MessagePrefix(r) == Msg \o <<Sep>> \o r \o <<Sep>>

\* A mistake to check against: the number is not padded.
MessageKeyUnpadded(r, s, tag) ==
  LET zeros == {i \in 1..(Width - 1) : \A j \in 1..i : Pad(s)[j] = Zero}
  IN  MessagePrefix(r) \o SubSeq(Pad(s), Cardinality(zeros) + 1, Width) \o <<Sep>> \o tag

MessageKey(r, s, tag) == MessagePrefix(r) \o Pad(s) \o <<Sep>> \o tag

\* A mistake to check against: the key of an entry does not hold the recipient.
IndexKeyShared(r, tag) == Idx \o <<Sep>> \o tag

IndexKey(r, tag) == Idx \o <<Sep>> \o r \o <<Sep>> \o tag

\* parse_seq_from_key: the third part, whatever the name before it looks like.
ParseSeq(key) ==
  IF Part(key, 1) # Msg \/ Cardinality(Separators(key)) < 2 THEN None ELSE Parse(Part(key, 3))

-----------------------------------------------------------------------------
(* Cursors. *)

EncodeCursor(r, s) == r \o <<Sep>> \o Pad(s)

\* splitn(2, ':'): the name ends at the first separator.
DecodeCursor(text) ==
  LET at == SeparatorAt(text, 1)
      s == Parse(SubSeq(text, at + 1, Len(text)))
  IN  IF Separators(text) = {} \/ s = Invalid THEN Invalid
      ELSE [to |-> SubSeq(text, 1, at - 1), seq |-> s]
=============================================================================
