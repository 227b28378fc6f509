--------------------------- MODULE AnnexBFraming ---------------------------
(***************************************************************************)
(* AnnexBNalIterator (parser/nal_framer.hpp): the units of a byte stream   *)
(* with start codes.  One step is one turn of a loop of locate_next(): of  *)
(* the search by lanes, of the search by bytes, or of the removal of       *)
(* trailing zeros.  The buffer is data, indexed from 0.                    *)
(***************************************************************************)
EXTENDS Naturals, Sequences, FiniteSets, FiniteSetsExt, SequencesExt

CONSTANTS
  LaneBytes   \* bytes in a machine word of the search: 8 in the code

ASSUME LaneBytesAssumption == LaneBytes \in Nat /\ LaneBytes >= 3

VARIABLES
  data,      \* the buffer: a function from 0 .. n - 1 to bytes
  pc,        \* "start", "end": searching; "trim"; "ready"; "finished"
  i,         \* where the search is
  current,   \* current_: where the next search begins
  begin,     \* nal_begin_ and the local of locate_next()
  end,       \* nal_end_ and the local of locate_next()
  units,     \* history: the units of the buffer
  handed     \* history: what nal() has returned so far

framer == <<pc, i, current, begin, end>>
vars   == <<data, units, framer, handed>>

Size == Cardinality(DOMAIN data)

-----------------------------------------------------------------------------
(* The units of a byte stream, as the comment of the module declares them. *)

ShortCode(d, p) == {p, p + 1, p + 2} \subseteq DOMAIN d /\ d[p] = 0 /\ d[p + 1] = 0 /\ d[p + 2] = 1

(* From a start code to the next one or the end of the buffer, without the *)
(* zeros before that.  A four-byte start code is a short one after a zero. *)
IsUnit(d, b, e) ==
  \E n \in {Cardinality(DOMAIN d)} :
    /\ b >= 3 /\ ShortCode(d, b - 3)
    /\ b < e /\ d[e - 1] # 0
    /\ \E m \in e .. n :
         /\ m = n \/ ShortCode(d, m)
         /\ \A k \in e .. (m - 1) : d[k] = 0
         /\ \A k \in b .. (m - 1) : ~ShortCode(d, k)

Spans(d) == {s \in (0 .. Cardinality(DOMAIN d)) \X (0 .. Cardinality(DOMAIN d)) : s[1] <= s[2]}

UnitSpans(d) == {s \in Spans(d) : IsUnit(d, s[1], s[2])}

(* The spans of a set, no two of which begin together: the kth is the one  *)
(* that k - 1 others begin before.                                         *)
InOrder(spans) ==
  [k \in 1 .. Cardinality(spans) |->
     CHOOSE s \in spans : Cardinality({t \in spans : t[1] < s[1]}) = k - 1]

-----------------------------------------------------------------------------
(* The search for a start code. *)

StartCodeSize(p) ==
  CASE p + 4 <= Size /\ data[p] = 0 /\ ShortCode(data, p + 1) -> 4
    [] p + 3 <= Size /\ ShortCode(data, p)                    -> 3
    [] OTHER                                                  -> 0

(* Words are functions from bit positions, the lowest first, to BOOLEAN. *)
Bits   == 0 .. (8 * LaneBytes - 1)
Lanes  == 0 .. (LaneBytes - 1)

Word(p) == [b \in Bits |-> (data[p + b \div 8] \div 2^(b % 8)) % 2 = 1]

FlipOnes(w) == [b \in Bits |-> IF b % 8 = 0 THEN ~w[b] ELSE w[b]]

(* v |= (v << k) & mask, where the mask drops what crosses a byte border. *)
Smear(w, k) == [b \in Bits |-> w[b] \/ (b % 8 >= k /\ w[b - k])]

(* sw_allzero(): the lanes whose byte is zero. *)
ZeroLanes(w) == LET s == Smear(Smear(Smear(w, 1), 2), 4) IN {j \in Lanes : ~s[8 * j + 7]}

(* The lanes that end a start code which lies within the word at p. *)
Matches(p) ==
  LET zero == ZeroLanes(Word(p))
      one  == ZeroLanes(FlipOnes(Word(p)))
  IN {j \in one : j >= 2 /\ j - 1 \in zero /\ j - 2 \in zero}

(* Fault: words overlap by one byte instead of two. *)
StrideOfOverlapOne == LaneBytes - 1

Stride == LaneBytes - 2

Searching == pc \in {"start", "end"}

(* What locate_next() does with the position the search returns. *)
Located(p) ==
  \/ /\ pc = "start" /\ p = Size
     /\ pc' = "finished" /\ begin' = Size /\ end' = Size
     /\ UNCHANGED <<i, current>>
  \/ /\ pc = "start" /\ p # Size
     /\ begin' = p + StartCodeSize(p)
     /\ i' = p + StartCodeSize(p)
     /\ pc' = "end"
     /\ UNCHANGED <<current, end>>
  \/ /\ pc = "end"
     /\ end' = p /\ current' = p
     /\ pc' = "trim"
     /\ UNCHANGED <<i, begin>>

ScanLanes ==
  /\ Searching
  /\ i + LaneBytes <= Size
  /\ IF Matches(i) = {}
       THEN i' = i + Stride /\ UNCHANGED <<pc, current, begin, end>>
       ELSE Located(i + Min(Matches(i)) - 2)
  /\ UNCHANGED <<data, units, handed>>

ScanBytes ==
  /\ Searching
  /\ i + LaneBytes > Size /\ i + 3 <= Size
  /\ IF StartCodeSize(i) = 0
       THEN i' = i + 1 /\ UNCHANGED <<pc, current, begin, end>>
       ELSE Located(i)
  /\ UNCHANGED <<data, units, handed>>

NotFound ==
  /\ Searching
  /\ i + 3 > Size
  /\ Located(Size)
  /\ UNCHANGED <<data, units, handed>>

-----------------------------------------------------------------------------
(* Fault: the zeros before the next start code stay with the unit. *)
NothingToTrim == FALSE

TrailingZero == end > begin /\ data[end - 1] = 0

Trim ==
  /\ pc = "trim"
  /\ TrailingZero
  /\ end' = end - 1
  /\ UNCHANGED <<data, units, pc, i, current, begin, handed>>

(* An empty unit: the loop of locate_next() goes round again. *)
SkipEmpty ==
  /\ pc = "trim"
  /\ ~TrailingZero
  /\ begin >= end
  /\ pc' = "start" /\ i' = current
  /\ UNCHANGED <<data, units, current, begin, end, handed>>

(* locate_next() returns, and the caller takes nal(). *)
Yield ==
  /\ pc = "trim"
  /\ ~TrailingZero
  /\ begin < end
  /\ pc' = "ready"
  /\ handed' = Append(handed, <<begin, end>>)
  /\ UNCHANGED <<data, units, i, current, begin, end>>

(* next() of a caller that goes on while valid(). *)
Advance ==
  /\ pc = "ready"
  /\ pc' = "start" /\ i' = current
  /\ UNCHANGED <<data, units, current, begin, end, handed>>

Locate == ScanLanes \/ ScanBytes \/ NotFound \/ Trim \/ SkipEmpty \/ Yield \/ Advance
=============================================================================
