----------------------------- MODULE NalFraming -----------------------------
(***************************************************************************)
(* The framers behind NalFramingMode, as split_nal_units() and bs::parse() *)
(* drive them: start codes (AnnexBFraming), lengths before the units, AV1  *)
(* open bitstream units in both of their forms, and IVF frames.            *)
(*                                                                         *)
(* Buffers come from a muxer that writes whole units, and may be cut off   *)
(* anywhere.  Widths are scaled: see LengthBase, LebBase, FileHeader.      *)
(***************************************************************************)
EXTENDS AnnexBFraming

CONSTANTS
  Bytes,        \* the bytes of the buffers of the searching framers
  MaxSize,      \* the size of the largest of them
  Payloads,     \* sizes of payloads the muxers write
  MaxUnits,     \* units in one buffer
  LengthSize,   \* length_size_: bytes of a length prefix
  LengthBase,   \* values of a byte of a length: 256 in the code
  LebBase,      \* values of a byte of a ULEB128 size: 128 in the code
  LebBytes,     \* the bytes a ULEB128 size may have: 8 in the code
  FileHeader,   \* bytes of the IVF file header: 32 in the code
  FrameHeader   \* bytes of the IVF frame header: 12 in the code

ASSUME WidthsAssumption ==
  /\ {LengthSize, LebBytes} \subseteq 1 .. 8
  /\ {LengthBase, LebBase} \subseteq Nat \ {0, 1}
  /\ FileHeader \in Nat /\ FrameHeader \in Nat /\ FrameHeader >= LengthSize

ASSUME BuffersAssumption ==
  /\ Bytes \subseteq 0 .. 255
  /\ {MaxSize, MaxUnits} \subseteq Nat
  /\ Payloads \subseteq Nat

VARIABLES
  mode,   \* the framer: "AnnexB", "LengthPrefixed", "Obu", "ObuStartCodes" or "Ivf"
  cut     \* history: the buffer ends inside a unit

allVars == <<vars, mode, cut>>

-----------------------------------------------------------------------------
(* The muxers: what one unit of a size looks like, and where it begins.    *)

(* Arbitrary buffers for the searching framers.                            *)
Buffers == UNION {[0 .. (n - 1) -> Bytes] : n \in 0 .. MaxSize}

(* The number with the given n digits, the highest first.                  *)
Number(digits, n, base) ==
  LET value[k \in 0 .. n] == IF k = 0 THEN 0 ELSE value[k - 1] * base + digits[k]
  IN value[n]

Total(s) == Number(s, Len(s), 1)

(* The lowest n digits of x, the lowest first.                             *)
Digits(x, base, n) ==
  LET rest[k \in 0 .. n] == IF k = 0 THEN x ELSE rest[k - 1] \div base
  IN [k \in 1 .. n |-> rest[k - 1] % base]

Filled(n, byte) == [k \in 1 .. n |-> byte]

Fits(x, base, n) == x <= Number(Filled(n, base - 1), n, base)

(* The muxers write only sizes that the bytes of a length can hold.        *)
ASSUME PayloadsAssumption == \A p \in Payloads : Fits(p, LengthBase, LengthSize)

(* The bytes before a unit that are not of it: its size or a start code.   *)
Skip(m) ==
  CASE m = "LengthPrefixed" -> LengthSize
    [] m = "Ivf"            -> FrameHeader
    [] m = "Obu"            -> 0
    [] OTHER                -> 3

(* A unit as the muxer writes it; open says that its size is not written.  *)
Prefixed(n) ==
  [bytes |-> Reverse(Digits(n, LengthBase, LengthSize)) \o Filled(n, 1), open |-> FALSE]

Frame(n) ==
  [bytes |-> Digits(n, LengthBase, LengthSize) \o Filled(FrameHeader - LengthSize, 0) \o Filled(n, 1),
   open |-> FALSE]

(* obu_header: the extension flag is worth 4, the size flag 2; the type is *)
(* not 0.  A size may be written with more bytes than it needs.            *)
ObuHeader(extension, sized) ==
  <<8 + (IF extension THEN 4 ELSE 0) + (IF sized THEN 2 ELSE 0)>> \o (IF extension THEN <<1>> ELSE <<>>)

Leb(n, len) ==
  [k \in 1 .. len |-> Digits(n, LebBase, len)[k] + (IF k < len THEN LebBase ELSE 0)]

SizedObu(n, extension, len) ==
  [bytes |-> ObuHeader(extension, TRUE) \o Leb(n, len) \o Filled(n, 1), open |-> FALSE]

OpenObu(n, extension) ==
  [bytes |-> ObuHeader(extension, FALSE) \o Filled(n, 1), open |-> TRUE]

SizedObus(len) ==
  UNION {{SizedObu(n, x, len) : x \in BOOLEAN} : n \in {p \in Payloads : Fits(p, LebBase, len)}}

OpenObus == UNION {{OpenObu(n, x) : x \in BOOLEAN} : n \in Payloads}

WrittenUnits(m) ==
  CASE m = "LengthPrefixed" -> {Prefixed(n) : n \in Payloads}
    [] m = "Ivf"            -> {Frame(n) : n \in Payloads}
    [] m = "Obu"            -> OpenObus \cup UNION {SizedObus(len) : len \in 1 .. LebBytes}

(* Only the last unit of a buffer may leave its size out. *)
Streams(m) ==
  {s \in UNION {[1 .. k -> WrittenUnits(m)] : k \in 0 .. MaxUnits} :
     \A k \in 1 .. (Len(s) - 1) : ~s[k].open}

FileStart(m) == IF m = "Ivf" THEN FileHeader ELSE 0

(* Bytes and places of what is written, cut off after n bytes. *)
Written(m, s) == Filled(FileStart(m), 0) \o FlattenSeq([k \in 1 .. Len(s) |-> s[k].bytes])

EndOf(m, s, k) == FileStart(m) + Total([j \in 1 .. k |-> Len(s[j].bytes)])

WholeUnits(m, s, n) ==
  LET From(k) == EndOf(m, s, k - 1) + Skip(m)
      Whole   == {k \in 1 .. Len(s) : EndOf(m, s, k) <= n \/ (s[k].open /\ From(k) < n)}
      End(k)  == IF EndOf(m, s, k) <= n THEN EndOf(m, s, k) ELSE n
      Kept    == {k \in Whole : m = "LengthPrefixed" => From(k) < End(k)}
  IN {<<From(k), End(k)>> : k \in Kept}

IsCut(m, s, n) == n < FileStart(m) \/ ~\E k \in 0 .. Len(s) : n = EndOf(m, s, k)

(* OBUs after start codes reach to the next start code, zeros included.    *)
ObusBetweenStartCodes(d) ==
  {s \in Spans(d) :
    /\ s[1] >= 3 /\ ShortCode(d, s[1] - 3) /\ s[1] < s[2]
    /\ s[2] = Cardinality(DOMAIN d) \/ ShortCode(d, s[2])
    /\ \A k \in s[1] .. (s[2] - 1) : ~ShortCode(d, k)}

ByteFunction(s) == [p \in 0 .. (Len(s) - 1) |-> s[p + 1]]

InitSearched ==
  /\ data \in Buffers
  /\ cut = FALSE
  /\ \/ mode = "AnnexB" /\ units = InOrder(UnitSpans(data))
     \/ mode = "ObuStartCodes" /\ ShortCode(data, 0) /\ units = InOrder(ObusBetweenStartCodes(data))

InitSized ==
  \E m \in {"LengthPrefixed", "Obu", "Ivf"} : \E s \in Streams(m) :
    \E n \in 0 .. Len(Written(m, s)) :
      /\ mode = m
      /\ data = ByteFunction(SubSeq(Written(m, s), 1, n))
      /\ units = InOrder(WholeUnits(m, s, n))
      /\ cut = IsCut(m, s, n)

(* The constructors; IVF begins after the file header. *)
Init ==
  /\ InitSearched \/ InitSized
  /\ pc = "start" /\ i = 0 /\ begin = 0 /\ end = 0 /\ handed = <<>>
  /\ current = FileStart(mode)

-----------------------------------------------------------------------------
(* One turn of locate_next() of the framers that do not search. *)

YieldSpan(b, e) ==
  /\ begin' = b /\ end' = e /\ current' = e
  /\ pc' = "ready"
  /\ handed' = Append(handed, <<b, e>>)

FinishWith(b, e) ==
  /\ begin' = b /\ end' = e
  /\ pc' = "finished"
  /\ UNCHANGED <<current, handed>>

Finish == FinishWith(begin, end)
Throw  == pc' = "failed" /\ UNCHANGED <<begin, end, current, handed>>

BigEndian(p, n)    == Number([k \in 1 .. n |-> data[p + k - 1]], n, LengthBase)
LittleEndian(p, n) == Number([k \in 1 .. n |-> data[p + n - k]], n, LengthBase)

(* Fault: a buffer that ends inside a length or a unit just ends. *)
EndsQuietly ==
  LET b   == current + LengthSize
      len == BigEndian(current, LengthSize)
  IN \/ b > Size /\ FinishWith(Size, Size)
     \/ b <= Size /\ b + len > Size /\ FinishWith(Size, Size)
     \/ b <= Size /\ b + len <= Size /\ YieldSpan(b, b + len)

LocateLengthPrefixed ==
  LET b   == current + LengthSize
      len == BigEndian(current, LengthSize)
  IN \/ current >= Size /\ FinishWith(Size, Size)
     \/ current < Size /\ b > Size /\ Throw
     \/ b <= Size /\ b + len > Size /\ Throw
     \/ /\ b <= Size /\ b + len <= Size /\ len = 0
        /\ current' = b
        /\ UNCHANGED <<pc, begin, end, handed>>
     \/ b <= Size /\ b + len <= Size /\ len > 0 /\ YieldSpan(b, b + len)

(* Fault: the size is trusted. *)
IvfSizeUnchecked ==
  LET b   == current + FrameHeader
      len == LittleEndian(current, LengthSize)
  IN \/ b > Size /\ Finish
     \/ b <= Size /\ YieldSpan(b, b + len)

LocateIvf ==
  LET b   == current + FrameHeader
      len == LittleEndian(current, LengthSize)
  IN \/ b > Size /\ Finish
     \/ b <= Size /\ b + len > Size /\ FinishWith(b, b + len)
     \/ b <= Size /\ b + len <= Size /\ YieldSpan(b, b + len)

(* read_size(): the bytes from p to the first without a continuation bit;  *)
(* 0 when the buffer ends or LebBytes bytes pass before there is one.      *)
LebLength(p) ==
  LET ends == {k \in 1 .. LebBytes : p + k <= Size /\ data[p + k - 1] < LebBase}
  IN IF ends = {} THEN 0 ELSE Min(ends)

LebValue(p, n) == Number([k \in 1 .. n |-> data[p + n - k] % LebBase], n, LebBase)

HasExtension(hdr) == (hdr \div 4) % 2 = 1
HasSize(hdr)      == (hdr \div 2) % 2 = 1

SizePosition == IF HasExtension(data[current]) THEN current + 2 ELSE current + 1

(* Fault: the position moves on before the unit is known to be whole. *)
ObuMovesOnFirst ==
  \/ current >= Size /\ Finish
  \/ current < Size /\ ~HasSize(data[current]) /\ YieldSpan(current, Size)
  \/ /\ current < Size /\ HasSize(data[current])
     /\ LET p == SizePosition
            n == LebLength(p)
            e == p + n + LebValue(p, n)
        IN \/ n = 0 /\ Throw
           \/ n > 0 /\ e > Size /\ current' = p + n /\ pc' = "finished" /\ UNCHANGED <<begin, end, handed>>
           \/ n > 0 /\ e <= Size /\ YieldSpan(current, e)

LocateObu ==
  \/ current >= Size /\ Finish
  \/ current < Size /\ ~HasSize(data[current]) /\ YieldSpan(current, Size)
  \/ /\ current < Size /\ HasSize(data[current])
     /\ LET p == SizePosition
            n == LebLength(p)
            e == p + n + LebValue(p, n)
        IN \/ n = 0 /\ Throw
           \/ n > 0 /\ e > Size /\ FinishWith(current, e)
           \/ n > 0 /\ e <= Size /\ YieldSpan(current, e)

(* locate_next_annex_b() of the OBU framer, whose search has no loop state *)
(* worth telling apart.                                                    *)
FindShortCode(from) ==
  LET at == {p \in from .. Size : ShortCode(data, p)}
  IN IF at = {} THEN Size ELSE Min(at)

LocateObuStartCodes ==
  LET start == FindShortCode(current)
      next  == FindShortCode(start + 3)
  IN \/ start = Size /\ Finish
     \/ /\ start < Size /\ start + 3 >= next
        /\ current' = next
        /\ UNCHANGED <<pc, begin, end, handed>>
     \/ start < Size /\ start + 3 < next /\ YieldSpan(start + 3, next)

(* The OBU framer chooses its form by the first three bytes; split and     *)
(* parse choose the framer by the mode.                                    *)
LowOverhead == ~ShortCode(data, 0)

LocateSized ==
  /\ \/ mode = "LengthPrefixed" /\ LocateLengthPrefixed
     \/ mode = "Ivf" /\ LocateIvf
     \/ mode \in {"Obu", "ObuStartCodes"} /\ LowOverhead /\ LocateObu
     \/ mode \in {"Obu", "ObuStartCodes"} /\ ~LowOverhead /\ LocateObuStartCodes
  /\ UNCHANGED <<data, units, i, mode, cut>>

SearchAnnexB == mode = "AnnexB" /\ Locate /\ UNCHANGED <<mode, cut>>

LocateNext == mode # "AnnexB" /\ pc = "start" /\ LocateSized

NextUnit ==
  /\ mode # "AnnexB"
  /\ pc = "ready"
  /\ pc' = "start"
  /\ UNCHANGED <<data, units, i, current, begin, end, handed, mode, cut>>

(* next() at the end: the NAL iterators return; the OBU and IVF framers,   *)
(* which have no such test, look again where they stopped.                 *)
NextAtEnd ==
  /\ pc = "finished"
  /\ IF mode \in {"AnnexB", "LengthPrefixed"} THEN UNCHANGED allVars ELSE LocateSized

(* The exception has left the caller's loop. *)
GivenUp == pc = "failed" /\ UNCHANGED allVars

Next == SearchAnnexB \/ LocateNext \/ NextUnit \/ NextAtEnd \/ GivenUp

(* The caller drives the framer as long as it is valid. *)
Spec == Init /\ [][Next]_allVars /\ WF_allVars(Next)

-----------------------------------------------------------------------------
(* The framer's state has its types, and the span it has ready lies within *)
(* the buffer, whatever sizes the buffer claims (nal(), obu(), frame() do  *)
(* not check it again).  (units, which no step changes, is typed by the    *)
(* initial condition of UnitStream.)                                       *)
TypeOK ==
  /\ mode \in {"AnnexB", "LengthPrefixed", "Obu", "ObuStartCodes", "Ivf"}
  /\ cut \in BOOLEAN
  /\ pc \in {"start", "end", "trim", "ready", "finished", "failed"}
  /\ pc \in {"end", "trim"} => mode = "AnnexB"
  /\ i \in 0 .. Size /\ begin \in Nat /\ end \in Nat
  /\ pc = "ready" => begin <= end /\ end <= Size
  /\ current \in 0 .. Max({Size, FileHeader})
  /\ handed \in Seq(Spans(data))

(* No start code is stepped over: every position of the search's range     *)
(* that it has left behind has none, whether it went by lanes or by bytes. *)
NoStartCodeMissed ==
  mode = "AnnexB" =>
    /\ pc = "start" => \A p \in current .. (i - 1) : ~ShortCode(data, p)
    /\ pc = "end" => \A p \in begin .. (i - 1) : ~ShortCode(data, p)

(* A buffer of length-prefixed units that is cut off is reported, never    *)
(* taken for a complete one (nal_framer.hpp:411, 421); the OBU and IVF     *)
(* framers do not promise that.                                            *)
CutIsReported == mode = "LengthPrefixed" /\ pc = "finished" => ~cut

(* Whatever next() does after the end, no framer comes back to life. *)
FinishedForGood == [][pc = "finished" => pc' = "finished"]_allVars

Stream == INSTANCE UnitStream WITH
  status <- CASE pc = "finished" -> "stopped" [] pc = "failed" -> "failed" [] OTHER -> "open"

(* The framers hand out exactly the units of the buffer, in order, and the *)
(* loop that drives them ends.                                             *)
ImplementsUnitStream == Stream!Spec
-----------------------------------------------------------------------------
(* What holds between two turns, inductively.                              *)

(* The buffer is bytes, and as many as Size says.                          *)
DataTyped ==
  /\ Size \in Nat
  /\ data \in [0 .. (Size - 1) -> Nat]
  /\ mode = "AnnexB" => data \in [0 .. (Size - 1) -> 0 .. 255]

(* The search by start codes stays within the buffer.                      *)
SearchPlace ==
  mode = "AnnexB" =>
    /\ pc # "failed"
    /\ current <= Size
    /\ pc \in {"end", "trim"} => begin <= Size
    /\ pc = "trim" => end <= Size

(* Looking again where the framer stopped would find what made it stop.    *)
Ended ==
  /\ mode = "Ivf" =>
       \/ current + FrameHeader > Size
       \/ current + FrameHeader + LittleEndian(current, LengthSize) > Size
  /\ mode \in {"Obu", "ObuStartCodes"} /\ LowOverhead =>
       \/ current >= Size
       \/ /\ HasSize(data[current])
          /\ LET p == SizePosition
                 n == LebLength(p)
             IN n > 0 /\ p + n + LebValue(p, n) > Size
  /\ mode \in {"Obu", "ObuStartCodes"} /\ ~LowOverhead => FindShortCode(current) = Size

NothingMore == pc = "finished" => Ended

IInv ==
  /\ DataTyped
  /\ TypeOK
  /\ SearchPlace
  /\ NoStartCodeMissed
  /\ NothingMore

(* What is left to hand out begins at Mark or behind it.                   *)
Mark == IF pc \in {"end", "trim"} THEN begin ELSE current + Skip(mode)

Counted(spans) ==
  /\ units = InOrder(spans)
  /\ Len(handed) = Cardinality({u \in spans : u[1] < Mark})

(* From the start code that was found to the next there is no other, and   *)
(* what was trimmed is zeros.                                              *)
BetweenStartCodes ==
  /\ pc = "start" => current <= i
  /\ pc \in {"end", "trim"} => begin >= 3 /\ ShortCode(data, begin - 3)
  /\ pc = "end" => begin <= i
  /\ pc = "trim" =>
       /\ begin <= end /\ end <= current
       /\ current = Size \/ StartCodeSize(current) # 0
       /\ \A p \in begin .. (current - 1) : ~ShortCode(data, p)
       /\ \A p \in end .. (current - 1) : data[p] = 0

AtStartCode == mode = "AnnexB" => Counted(UnitSpans(data)) /\ BetweenStartCodes

AtObu ==
  mode = "ObuStartCodes" => ShortCode(data, 0) /\ Counted(ObusBetweenStartCodes(data))

(* The framers that read sizes stand where the muxer began a unit or was   *)
(* done, or where the buffer ends.                                         *)
AtUnit ==
  mode \in {"LengthPrefixed", "Obu", "Ivf"} =>
    \E s \in Streams(mode) :
      /\ Size <= Len(Written(mode, s))
      /\ data = ByteFunction(SubSeq(Written(mode, s), 1, Size))
      /\ cut <=> IsCut(mode, s, Size)
      /\ Counted(WholeUnits(mode, s, Size))
      /\ \/ \E k \in 0 .. Len(s) : current = EndOf(mode, s, k)
         \/ mode = "Obu" /\ current = Size
      /\ mode # "Ivf" => current <= Size
      /\ mode = "LengthPrefixed" /\ pc = "finished" => current = Size

Places == AtStartCode /\ AtObu /\ AtUnit
=============================================================================
