---------------------------- MODULE AvcPocTracker ----------------------------
(***************************************************************************)
(* avc::PocState (parser/avc_poc.hpp) as pure operators: what one call of  *)
(* derive() returns for a slice header h and an SPS s, and what it leaves  *)
(* in the tracker's four members p.                                        *)
(***************************************************************************)
EXTENDS Integers, Sequences

CONSTANT MinLsbPeriod   \* the smallest MaxPicOrderCntLsb the syntax can express (16)

Structures == {"frame", "top", "bottom"}

(* maxFrameNum and maxLsb are the powers of two of the two log2 members.   *)
Sps == [type : 0 .. 2, refOffsets : Seq(Int), nonRefOffset : Int,
        topToBottom : Int, maxFrameNum : Nat \ {0}, maxLsb : Nat \ {0}]

Prev == [frameNum : Nat, frameNumOffset : Int, msb : Int, lsb : Nat]
NoPrevious == [frameNum |-> 0, frameNumOffset |-> 0, msb |-> 0, lsb |-> 0]

-----------------------------------------------------------------------------
(* derive() on one slice header h, with the state p and the SPS s.         *)
SmallerOf(a, b) == IF a < b THEN a ELSE b

(* Fault: an equal frame number counts as a wrap.                          *)
FrameNumOffsetOnEqual(p, s, h) ==
  p.frameNumOffset + (IF p.frameNum >= h.frameNum THEN s.maxFrameNum ELSE 0)

FrameNumOffset(p, s, h) ==
  p.frameNumOffset + (IF p.frameNum > h.frameNum THEN s.maxFrameNum ELSE 0)

(* Fault: an LSB half a period back does not wrap.                         *)
PocMsbStrict(p, s, h) ==
  IF h.lsb < p.lsb /\ p.lsb - h.lsb > s.maxLsb \div 2 THEN p.msb + s.maxLsb
  ELSE IF h.lsb > p.lsb /\ h.lsb - p.lsb > s.maxLsb \div 2 THEN p.msb - s.maxLsb
  ELSE p.msb

PocMsb(p, s, h) ==
  IF s.maxLsb < MinLsbPeriod /\ p.msb - MinLsbPeriod >= p.lsb THEN p.msb - s.maxLsb
  ELSE IF h.lsb < p.lsb /\ p.lsb - h.lsb >= s.maxLsb \div 2 THEN p.msb + s.maxLsb
  ELSE IF h.lsb > p.lsb /\ h.lsb - p.lsb > s.maxLsb \div 2 THEN p.msb - s.maxLsb
  ELSE p.msb

(* The sum of the first n entries of a sequence of offsets.                *)
SumOfFirst(offsets, n) ==
  LET sum[i \in 0 .. n] == IF i = 0 THEN 0 ELSE sum[i - 1] + offsets[i]
  IN sum[n]

(* ExpectedPicOrderCnt by whole cycles and a rest, as the code computes it. *)
ExpectedCount(s, absFrameNum) ==
  LET cycle == Len(s.refOffsets)
  IN IF absFrameNum > 0 /\ cycle # 0
     THEN ((absFrameNum - 1) \div cycle) * SumOfFirst(s.refOffsets, cycle)
          + SumOfFirst(s.refOffsets, ((absFrameNum - 1) % cycle) + 1)
     ELSE 0

AbsFrameNum(p, s, h) ==
  LET n == IF Len(s.refOffsets) = 0 THEN 0 ELSE FrameNumOffset(p, s, h) + h.frameNum
  IN IF ~ h.reference /\ n > 0 THEN n - 1 ELSE n

TopFieldCount(p, s, h) ==
  CASE s.type = 0 -> PocMsb(p, s, h) + h.lsb
    [] s.type = 1 -> ExpectedCount(s, AbsFrameNum(p, s, h)) + h.delta[1]
                     + (IF h.reference THEN 0 ELSE s.nonRefOffset)
    [] s.type = 2 -> 2 * (FrameNumOffset(p, s, h) + h.frameNum)
                     - (IF h.reference THEN 0 ELSE 1)

BottomFieldCount(p, s, h) ==
  LET whole == h.structure = "frame"
  IN TopFieldCount(p, s, h) +
     CASE s.type = 0 -> IF whole THEN h.deltaBottom ELSE 0
       [] s.type = 1 -> s.topToBottom + (IF whole THEN h.delta[2] ELSE 0)
       [] s.type = 2 -> 0

Derived(p, s, h) ==
  LET top == TopFieldCount(p, s, h)
      bottom == BottomFieldCount(p, s, h)
  IN IF h.idr THEN 0
     ELSE CASE h.structure = "frame"  -> SmallerOf(top, bottom)
            [] h.structure = "bottom" -> bottom
            [] h.structure = "top"    -> top

(* Faults: the members take the whole counter, or also that of a           *)
(* non-reference picture.                                                  *)
AdvancedToWholeCount(p, s, h) ==
  IF h.idr THEN NoPrevious
  ELSE IF ~ h.reference THEN p
  ELSE IF s.type = 0 THEN [p EXCEPT !.lsb = PocMsb(p, s, h) + h.lsb]
  ELSE [p EXCEPT !.frameNum = FrameNumOffset(p, s, h) + h.frameNum]

AdvancedAlways(p, s, h) ==
  IF h.idr THEN NoPrevious
  ELSE IF s.type = 0 THEN [p EXCEPT !.msb = PocMsb(p, s, h), !.lsb = h.lsb]
  ELSE [p EXCEPT !.frameNum = h.frameNum,
                 !.frameNumOffset = FrameNumOffset(p, s, h)]

Advanced(p, s, h) ==
  IF h.idr THEN NoPrevious
  ELSE IF ~ h.reference THEN p
  ELSE IF s.type = 0 THEN [p EXCEPT !.msb = PocMsb(p, s, h), !.lsb = h.lsb]
  ELSE [p EXCEPT !.frameNum = h.frameNum,
                 !.frameNumOffset = FrameNumOffset(p, s, h)]
=============================================================================
