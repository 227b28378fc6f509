--------------------------- MODULE HevcPocTracker ---------------------------
(***************************************************************************)
(* bs::HevcPocState (parser/hevc_poc.hpp) as pure operators: what one call *)
(* of derive() returns and what it leaves in the tracker's four members.   *)
(***************************************************************************)
EXTENDS Integers

CONSTANT Int32Max    \* INT32_MAX

ASSUME Int32MaxAssumption == Int32Max \in Nat

Int32Min == - Int32Max - 1
Int32 == Int32Min .. Int32Max

(* The members prev_valid_, prev_reference_, prev_msb_ and prev_lsb_.      *)
Tracker == [valid : BOOLEAN, reference : BOOLEAN, msb : Int, lsb : Nat]

(* The initial value of the members, which reset() restores.               *)
NoPrevious == [valid |-> FALSE, reference |-> FALSE, msb |-> 0, lsb |-> 0]

-----------------------------------------------------------------------------
(* NAL unit types (H.265 table 7-1) as the tracker classifies them.        *)
IsIdr(nut) == nut \in {19, 20}

IsRaslOrRadl(nut) == nut \in 6 .. 9

IsReferenceVcl(nut) == nut \in 16 .. 23 \/ nut % 2 = 1

IsSubLayerNonReference(nut) ==
  nut \in {0, 2, 4, 6, 8, 10, 12, 14, 24, 26, 28, 30}

(* Fault: leading pictures are not excluded.                               *)
BecomesPreviousIfLeading(nut, tid) == tid = 0 /\ ~ IsSubLayerNonReference(nut)

BecomesPrevious(nut, tid) ==
  /\ tid = 0
  /\ ~ IsRaslOrRadl(nut)
  /\ ~ IsSubLayerNonReference(nut)

-----------------------------------------------------------------------------
(* The 64-bit sum is clamped into a 32-bit member ...                      *)
Saturate(v) ==
  IF v > Int32Max THEN Int32Max ELSE IF v < Int32Min THEN Int32Min ELSE v

(* ... but MSB + LSB is added in 32 bits.  Overflowing that addition is    *)
(* undefined in C++; the machine addition it compiles to wraps around.     *)
AddInt32(a, b) ==
  IF a + b > Int32Max THEN a + b - 2 * (Int32Max + 1) ELSE a + b

(* Fault: an LSB exactly half a period back does not wrap.                 *)
MsbStepStrict(prevLsb, lsb, maxLsb) ==
  IF lsb < prevLsb /\ prevLsb - lsb > maxLsb \div 2 THEN maxLsb
  ELSE IF lsb > prevLsb /\ lsb - prevLsb > maxLsb \div 2 THEN - maxLsb
  ELSE 0

MsbStep(prevLsb, lsb, maxLsb) ==
  IF lsb < prevLsb /\ prevLsb - lsb >= maxLsb \div 2 THEN maxLsb
  ELSE IF lsb > prevLsb /\ lsb - prevLsb > maxLsb \div 2 THEN - maxLsb
  ELSE 0

DerivePocMsb(prevMsb, prevLsb, lsb, maxLsb) ==
  IF maxLsb = 0 THEN prevMsb
  ELSE Saturate(prevMsb + MsbStep(prevLsb, lsb, maxLsb))

(* Fault: an IDR picture continues the MSB.                                *)
PocMsbThroughIdr(t, nut, lsb, maxLsb) ==
  IF ~ t.valid THEN 0 ELSE DerivePocMsb(t.msb, t.lsb, lsb, maxLsb)

(* The PicOrderCntMsb of the current picture.                              *)
PocMsb(t, nut, lsb, maxLsb) ==
  IF IsIdr(nut) \/ ~ t.valid THEN 0
  ELSE IF t.reference THEN DerivePocMsb(t.msb, t.lsb, lsb, maxLsb)
  ELSE DerivePocMsb(0, 0, lsb, maxLsb)

(* The value derive() returns ...                                          *)
Derived(t, nut, lsb, maxLsb) ==
  IF IsIdr(nut) THEN 0 ELSE AddInt32(PocMsb(t, nut, lsb, maxLsb), lsb)

(* Faults: prev_lsb_ is given the whole count, or not updated.             *)
AdvancedToWholeCount(t, nut, tid, lsb, maxLsb) ==
  IF BecomesPrevious(nut, tid)
  THEN [valid |-> TRUE, reference |-> IsReferenceVcl(nut),
        msb |-> PocMsb(t, nut, lsb, maxLsb), lsb |-> Derived(t, nut, lsb, maxLsb)]
  ELSE t

AdvancedWithoutLsb(t, nut, tid, lsb, maxLsb) ==
  IF BecomesPrevious(nut, tid)
  THEN [valid |-> TRUE, reference |-> IsReferenceVcl(nut),
        msb |-> PocMsb(t, nut, lsb, maxLsb), lsb |-> t.lsb]
  ELSE t

(* ... and the tracker it leaves behind.                                   *)
Advanced(t, nut, tid, lsb, maxLsb) ==
  IF BecomesPrevious(nut, tid)
  THEN [valid |-> TRUE, reference |-> IsReferenceVcl(nut),
        msb |-> PocMsb(t, nut, lsb, maxLsb), lsb |-> lsb]
  ELSE t
=============================================================================
