-------------------------------- MODULE ByteRange --------------------------------
(***************************************************************************)
(* internal/stream/range.go: what a Range header asks of a representation  *)
(* of known size (ParseRange).                                             *)
(*                                                                         *)
(* A header is what the parser tells apart: its unit, whether it has a     *)
(* comma, and the fields between the dashes, each empty, a number or junk  *)
(* (a sign, letters, inner blanks). A number beyond Limit does not fit an  *)
(* int64.                                                                  *)
(***************************************************************************)
EXTENDS Integers, Sequences

CONSTANTS
  Limit,     \* the largest int64
  Numbers,   \* the numbers a header may hold
  Lengths,   \* of the representation
  Empty, Junk

ASSUME LimitAssumption == Limit \in Nat /\ Numbers \subseteq Nat
ASSUME LengthsAssumption == Lengths \subseteq Int /\ \A n \in Lengths : n <= Limit
ASSUME FieldsAssumption == Empty \notin Int /\ Junk \notin Int /\ Empty # Junk

VARIABLES
  raw,       \* the header
  size,
  got        \* a range or an error, or "unread" yet

rangeVars == <<raw, size, got>>

Fields == Numbers \cup {Empty, Junk}
Headers == [bytes : BOOLEAN, comma : BOOLEAN, parts : UNION {[1..n -> Fields] : n \in 1..3}]

ByteRange(s, e) == [is |-> "range", start |-> s, end |-> e]
Fails(e) == [is |-> e]

\* nonNegativeInt and positiveInt.
IsNumber(f) == f \in Numbers /\ f <= Limit
IsPositive(f) == IsNumber(f) /\ f # 0

\* Slip: a suffix longer than the representation starts before it.
SlipSuffix(n, m) == ByteRange(m - n, m - 1)

\* "-n": the last n bytes.
Suffix(n, m) == ByteRange(IF n >= m THEN 0 ELSE m - n, m - 1)

\* "s-" and "s-e".
Bounded(s, f, m) ==
  IF f = Empty THEN ByteRange(s, m - 1)
  ELSE IF ~IsNumber(f) \/ f < s THEN Fails("invalid")
  ELSE ByteRange(s, IF f >= m THEN m - 1 ELSE f)

ParseRange(h, m) ==
  IF m < 0 THEN Fails("unsatisfiable")
  ELSE IF ~h.bytes \/ h.comma \/ Len(h.parts) # 2 THEN Fails("invalid")
  ELSE IF m = 0 THEN Fails("unsatisfiable")
  ELSE IF h.parts[1] = Empty
         THEN IF IsPositive(h.parts[2]) THEN Suffix(h.parts[2], m) ELSE Fails("invalid")
  ELSE IF ~IsNumber(h.parts[1]) THEN Fails("invalid")
  ELSE IF h.parts[1] >= m THEN Fails("unsatisfiable")
  ELSE Bounded(h.parts[1], h.parts[2], m)

RangeInit == raw \in Headers /\ size \in Lengths /\ got = Fails("unread")

Parse ==
  /\ got.is = "unread"
  /\ got' = ParseRange(raw, size)
  /\ UNCHANGED <<raw, size>>

RangeSpec == RangeInit /\ [][Parse]_rangeVars

---------------------------------------------------------------------------
(* What RFC 7233 says of one byte range. It knows no largest number: an end    *)
(* or a suffix beyond the representation, however far, is cut to it, and a     *)
(* suffix of no bytes is a range that selects nothing.                         *)

FirstPos == raw.parts[1]
LastPos == raw.parts[2]

WellFormed ==
  /\ raw.bytes /\ ~raw.comma /\ Len(raw.parts) = 2
  /\ \/ FirstPos = Empty /\ LastPos \in Numbers
     \/ FirstPos \in Numbers /\ LastPos = Empty
     \/ FirstPos \in Numbers /\ LastPos \in Numbers /\ FirstPos <= LastPos

Selected ==
  {p \in 0..(size - 1) :
     IF FirstPos = Empty THEN p >= size - LastPos
                      ELSE p >= FirstPos /\ (LastPos = Empty \/ p <= LastPos)}

\* What the parser refuses of what the RFC allows: a number that fits no int64
\* (75-78), and a suffix of no bytes (82-88).
Oversized == \E f \in {FirstPos, LastPos} : f \in Numbers /\ f > Limit
NoSuffix == FirstPos = Empty /\ LastPos = 0

\* The range is exactly the bytes the RFC selects, and there is one, for every
\* header; a header is refused as unsatisfiable only when it is not well formed
\* or selects nothing, and as invalid only when it is not well formed, or has a
\* number beyond int64 or a suffix of no bytes (range.go:21-88).
RangeExact ==
  /\ got.is = "range" => WellFormed /\ got.start <= got.end /\ got.start..got.end = Selected
  /\ got.is = "unsatisfiable" => (WellFormed => Selected = {})
  /\ got.is = "invalid" => (WellFormed => Oversized \/ NoSuffix)

---------------------------------------------------------------------------
(* What the code does not keep: see the README.                            *)

\* ParseRange "accepts exactly one RFC 7233 byte range" (range.go:21): a well-formed
\* header is never called invalid.
RangeComplete == got.is = "invalid" => ~WellFormed
=================================================================================
