------------------------------- MODULE HevcPoc -------------------------------
(***************************************************************************)
(* The HEVC order-count tracker fed by an encoder.                         *)
(*                                                                         *)
(* The tracker is the code's; the encoder (started, poc, anchor, skew) is  *)
(* the environment: it chooses pictures that respect H.265's constraints   *)
(* and knows their true order count, which the tracker must rebuild from   *)
(* the LSBs alone.  One step is one slice header handed to derive().       *)
(***************************************************************************)
EXTENDS HevcPocTracker

CONSTANTS
  MaxLsb,       \* MaxPicOrderCntLsb (16 .. 65536 in the code)
  HalfCycles,   \* 32 bits hold order counts of 2 * HalfCycles LSB periods
  TemporalIds   \* the temporal sub-layers, 0 .. 6

ASSUME MaxLsbAssumption ==
  MaxLsb \in Nat /\ MaxLsb > 0 /\ MaxLsb % 2 = 0

ASSUME CyclesAssumption ==
  /\ HalfCycles \in Nat \ {0}
  /\ Int32Max + 1 = HalfCycles * MaxLsb

ASSUME TemporalIdsAssumption == 0 \in TemporalIds /\ TemporalIds \subseteq Nat

VARIABLES
  tracker,      \* the HevcPocState
  derived,      \* derived_poc of the last slice
  nal,          \* NAL type, temporal id and LSB of that slice
  started,      \* has a picture been delivered since construction or clear()?
  poc,          \* true order count of the current picture
  anchor,       \* true order count of prevTid0Pic
  skew          \* what the tracker's time line is ahead of the true one

encoder == <<started, poc, anchor, skew>>
vars == <<tracker, derived, nal, started, poc, anchor, skew>>

Lsbs == 0 .. MaxLsb - 1

(* The LSB periods (PicOrderCntMsb / MaxLsb) that order counts lie in.     *)
Cycles == - HalfCycles .. HalfCycles - 1
SliceInfo == [nut : 0 .. 31, tid : TemporalIds, lsb : Lsbs]
NoSlice == [nut |-> 0, tid |-> 0, lsb |-> 0]

-----------------------------------------------------------------------------
(* The encoder's side, from H.265.                                         *)
IdrTypes == {19, 20}
BlaTypes == 16 .. 18
CraType == 21
TrailingTypes == 0 .. 5
LeadingTypes == 6 .. 9
AnchorTypes == {1, 3, 5} \union BlaTypes \union IdrTypes \union {CraType}

IsAnchor(nut, tid) == tid = 0 /\ nut \in AnchorTypes

(* IRAP pictures are in temporal layer 0, TSA and STSA pictures are not.   *)
TemporalIdAllowed(nut, tid) ==
  /\ nut = CraType => tid = 0
  /\ nut \in 2 .. 5 => tid > 0

(* The encoder may use a picture only if its LSB identifies it.            *)
Identifiable(p) ==
  /\ 2 * (p - anchor) > - MaxLsb
  /\ 2 * (p - anchor) <= MaxLsb

-----------------------------------------------------------------------------
(* derive() on one slice header.                                           *)
Deliver(nut, tid, lsb) ==
  /\ derived' = Derived(tracker, nut, lsb, MaxLsb)
  /\ tracker' = Advanced(tracker, nut, tid, lsb, MaxLsb)

Init ==
  /\ tracker = NoPrevious
  /\ derived = 0
  /\ nal = NoSlice
  /\ started = FALSE
  /\ poc = 0 /\ anchor = 0 /\ skew = 0

(* Decoding starts at a CRA or BLA picture, or in the middle of a coded    *)
(* video sequence at a picture others may refer to; q periods went by.     *)
TuneIn(nut, q, lsb) ==
  /\ ~ started
  /\ nut \in AnchorTypes \ IdrTypes
  /\ TemporalIdAllowed(nut, 0)
  /\ Deliver(nut, 0, lsb)
  /\ nal' = [nut |-> nut, tid |-> 0, lsb |-> lsb]
  /\ started' = TRUE
  /\ poc' = q * MaxLsb + lsb
  /\ anchor' = q * MaxLsb + lsb
  /\ skew' = - q * MaxLsb

(* An IDR picture: no LSB is transmitted, the order count is zero.         *)
IdrPicture(nut) ==
  /\ nut \in IdrTypes
  /\ Deliver(nut, 0, 0)
  /\ nal' = [nut |-> nut, tid |-> 0, lsb |-> 0]
  /\ started' = TRUE
  /\ poc' = 0 /\ anchor' = 0 /\ skew' = 0

(* A BLA picture, or a CRA picture after an end of sequence, starts a new  *)
(* coded video sequence with PicOrderCntMsb 0.  The tracker treats it as   *)
(* any other picture and continues its own time line.                      *)
SequenceStart(nut, lsb) ==
  /\ started
  /\ nut \in BlaTypes \union {CraType}
  /\ tracker.msb + MsbStep(tracker.lsb, lsb, MaxLsb) \in Int32
  /\ Deliver(nut, 0, lsb)
  /\ nal' = [nut |-> nut, tid |-> 0, lsb |-> lsb]
  /\ poc' = lsb
  /\ anchor' = lsb
  /\ skew' = derived' - lsb
  /\ UNCHANGED started

(* Any other picture of a coded video sequence.                            *)
CodedPicture(nut, tid, q, lsb) ==
  LET p == q * MaxLsb + lsb
  IN /\ started
     /\ nut \in TrailingTypes \union LeadingTypes \union {CraType}
     /\ TemporalIdAllowed(nut, tid)
     /\ Identifiable(p)
     /\ p + skew \in Int32
     /\ Deliver(nut, tid, lsb)
     /\ nal' = [nut |-> nut, tid |-> tid, lsb |-> lsb]
     /\ poc' = p
     /\ anchor' = IF IsAnchor(nut, tid) THEN p ELSE anchor
     /\ UNCHANGED <<started, skew>>

(* A further independent slice of the current picture.                     *)
RepeatSlice ==
  /\ started
  /\ Deliver(nal.nut, nal.tid, nal.lsb)
  /\ UNCHANGED <<nal, encoder>>

(* State::clear() between two streams.                                     *)
Clear ==
  /\ tracker' = NoPrevious
  /\ derived' = 0
  /\ nal' = NoSlice
  /\ started' = FALSE
  /\ poc' = 0 /\ anchor' = 0 /\ skew' = 0

Next ==
  \/ \E nut \in AnchorTypes, q \in Cycles, lsb \in Lsbs : TuneIn(nut, q, lsb)
  \/ \E nut \in IdrTypes : IdrPicture(nut)
  \/ \E nut \in BlaTypes \union {CraType}, lsb \in Lsbs :
       SequenceStart(nut, lsb)
  \/ \E nut \in TrailingTypes \union LeadingTypes \union {CraType},
        tid \in TemporalIds, q \in Cycles, lsb \in Lsbs :
       CodedPicture(nut, tid, q, lsb)
  \/ RepeatSlice
  \/ Clear

Spec == Init /\ [][Next]_vars

-----------------------------------------------------------------------------
(* Slice headers no encoder constraint holds for: any VCL type, temporal   *)
(* id and LSB.  The encoder's variables are not used.                      *)
AnySlice(nut, tid, lsb) ==
  /\ Deliver(nut, tid, lsb)
  /\ nal' = [nut |-> nut, tid |-> tid, lsb |-> lsb]
  /\ started' = TRUE
  /\ UNCHANGED <<poc, anchor, skew>>

NextAny ==
  \/ \E nut \in 0 .. 31, tid \in TemporalIds, lsb \in Lsbs :
       AnySlice(nut, tid, lsb)
  \/ RepeatSlice
  \/ Clear

SpecAny == Init /\ [][NextAny]_vars

-----------------------------------------------------------------------------
TypeOK ==
  /\ tracker \in [valid : BOOLEAN, reference : BOOLEAN, msb : Int32, lsb : Lsbs]
  /\ derived \in Int32
  /\ nal \in SliceInfo
  /\ started \in BOOLEAN
  /\ poc \in Int /\ anchor \in Int /\ skew \in Int

(* Every derived_poc is the picture's true order count moved by a constant *)
(* (zero after an IDR picture): whatever leading, disposable or            *)
(* higher-layer pictures come between, the tracker rebuilds the MSB the    *)
(* encoder had, up to both ends of the 32-bit range.                       *)
DerivedFollowsTimeline == started => derived = poc + skew

(* The tracker's previous picture is the encoder's prevTid0Pic, kept as a  *)
(* whole number of LSB periods and an LSB; the two time lines are a whole  *)
(* number of periods apart.                                                *)
TrackerHoldsAnchor ==
  started =>
    /\ tracker.valid /\ tracker.reference
    /\ tracker.msb + tracker.lsb = anchor + skew
    /\ tracker.msb % MaxLsb = 0
    /\ skew % MaxLsb = 0

(* Deriving again from the last slice header would change nothing.         *)
Settled ==
  started =>
    /\ Derived(tracker, nal.nut, nal.lsb, MaxLsb) = derived
    /\ Advanced(tracker, nal.nut, nal.tid, nal.lsb, MaxLsb) = tracker

(* The inductive invariant behind the theorems of HevcPocProofs.           *)
IInv ==
  /\ TypeOK
  /\ DerivedFollowsTimeline
  /\ TrackerHoldsAnchor
  /\ Settled
  /\ ~ started => tracker = NoPrevious

(* derive() is idempotent over the slices of one picture, for every input. *)
RepeatedSliceIsIdempotent ==
  [][RepeatSlice => UNCHANGED <<tracker, derived>>]_vars

(* The branch for a prevTid0Pic that is not a reference picture is dead:   *)
(* the pictures that become prevTid0Pic are all reference pictures.        *)
PreviousIsReference == tracker.valid => tracker.reference

Abstract == INSTANCE PictureOrder WITH
  live <- started,
  coded <- poc,
  anchor <- IF started THEN tracker.msb + tracker.lsb - skew ELSE 0,
  shift <- skew,
  shown <- derived

(* The tracker implements the promise common to all codecs.                *)
ImplementsPictureOrder == Abstract!Spec
=============================================================================
