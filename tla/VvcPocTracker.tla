--------------------------- MODULE VvcPocTracker ---------------------------
(***************************************************************************)
(* vvc::PocState (parser/vvc_poc.hpp) as pure operators: what one call of  *)
(* derive() returns and what it leaves in the tracker's three members.     *)
(* A picture h is the slice's NAL type and temporal id with the fields of  *)
(* its picture header that derive() reads.                                 *)
(***************************************************************************)
EXTENDS Integers

CONSTANT Int32Max    \* INT32_MAX

ASSUME Int32MaxAssumption == Int32Max \in Nat

Int32Min == - Int32Max - 1
Int32 == Int32Min .. Int32Max

(* The members prev_valid_, prev_msb_ and prev_lsb_.                       *)
Tracker == [valid : BOOLEAN, msb : Int, lsb : Nat]

NoPrevious == [valid |-> FALSE, msb |-> 0, lsb |-> 0]

NoCycle == -1        \* ph_poc_msb_cycle_present_flag is 0

(* recovery says that ph_recovery_poc_cnt is not zero.                     *)
IsClvss(h) == h.nut \in {7, 8, 9, 11} \/ (h.nut = 10 /\ ~ h.recovery)

(* Fault: non-reference pictures are not excluded.                         *)
BecomesPreviousIfUnused(h) == h.tid = 0 /\ h.nut \notin {2, 3}

BecomesPrevious(h) == h.tid = 0 /\ ~ h.nonRef /\ h.nut \notin {2, 3}

Saturate(v) ==
  IF v > Int32Max THEN Int32Max ELSE IF v < Int32Min THEN Int32Min ELSE v

(* Fault: an LSB exactly half a period back does not wrap.                 *)
MsbStepStrict(prevLsb, lsb, maxLsb) ==
  IF lsb < prevLsb /\ prevLsb - lsb > maxLsb \div 2 THEN maxLsb
  ELSE IF lsb > prevLsb /\ lsb - prevLsb > maxLsb \div 2 THEN - maxLsb
  ELSE 0

MsbStep(prevLsb, lsb, maxLsb) ==
  IF lsb < prevLsb /\ prevLsb - lsb >= maxLsb \div 2 THEN maxLsb
  ELSE IF lsb > prevLsb /\ lsb - prevLsb > maxLsb \div 2 THEN - maxLsb
  ELSE 0

(* Fault: the transmitted cycle is ignored.                                *)
PocMsbWithoutCycle(t, h, maxLsb) ==
  IF IsClvss(h) \/ ~ t.valid \/ maxLsb = 0 THEN 0
  ELSE Saturate(t.msb + MsbStep(t.lsb, h.lsb, maxLsb))

PocMsb(t, h, maxLsb) ==
  IF h.cycle # NoCycle THEN h.cycle * maxLsb
  ELSE IF IsClvss(h) \/ ~ t.valid \/ maxLsb = 0 THEN 0
  ELSE Saturate(t.msb + MsbStep(t.lsb, h.lsb, maxLsb))

(* The value derive() returns ...                                          *)
Derived(t, h, maxLsb) == PocMsb(t, h, maxLsb) + h.lsb

(* Faults: prev_lsb_ is given the whole count, or not updated.             *)
AdvancedToWholeCount(t, h, maxLsb) ==
  IF BecomesPrevious(h)
  THEN [valid |-> TRUE, msb |-> PocMsb(t, h, maxLsb), lsb |-> Derived(t, h, maxLsb)]
  ELSE t

AdvancedWithoutLsb(t, h, maxLsb) ==
  IF BecomesPrevious(h)
  THEN [valid |-> TRUE, msb |-> PocMsb(t, h, maxLsb), lsb |-> t.lsb]
  ELSE t

(* ... and the tracker it leaves behind.                                   *)
Advanced(t, h, maxLsb) ==
  IF BecomesPrevious(h)
  THEN [valid |-> TRUE, msb |-> PocMsb(t, h, maxLsb), lsb |-> h.lsb]
  ELSE t
=============================================================================
