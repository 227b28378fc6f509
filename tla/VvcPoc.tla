------------------------------- MODULE VvcPoc -------------------------------
(***************************************************************************)
(* The VVC order-count tracker, vvc::PocState (parser/vvc_poc.hpp), fed by *)
(* the encoder of a single-layer stream.                                   *)
(*                                                                         *)
(* A picture header transmits the LSB and, if the encoder wishes, the MSB  *)
(* cycle as well.  The encoder's variables (started, poc, anchor, skew)    *)
(* are history the code does not have.  One step is one slice handed to    *)
(* derive() with its picture header.                                       *)
(***************************************************************************)
EXTENDS VvcPocTracker

CONSTANTS
  MaxLsb,       \* 2 ^ ph.poc_lsb_bits
  HalfCycles,   \* 32 bits hold order counts of 2 * HalfCycles LSB periods
  TemporalIds   \* the temporal sub-layers

ASSUME MaxLsbAssumption == MaxLsb \in Nat /\ MaxLsb > 0 /\ MaxLsb % 2 = 0

ASSUME CyclesAssumption ==
  /\ HalfCycles \in Nat \ {0}
  /\ Int32Max + 1 = HalfCycles * MaxLsb

ASSUME TemporalIdsAssumption == 0 \in TemporalIds /\ TemporalIds \subseteq Nat

VARIABLES
  tracker,      \* the members prev_valid_, prev_msb_ and prev_lsb_
  derived,      \* derived_poc of the last slice
  pic,          \* what the last slice and its picture header say
  started,      \* has a picture been delivered since construction or clear()?
  poc,          \* true order count of the current picture
  anchor,       \* true order count of prevTid0Pic
  skew          \* what the tracker's time line is ahead of the true one

encoder == <<started, poc, anchor, skew>>
vars == <<tracker, derived, pic, started, poc, anchor, skew>>

Lsbs == 0 .. MaxLsb - 1

(* The LSB periods (PicOrderCntMsb / MaxLsb) that order counts lie in.     *)
Cycles == - HalfCycles .. HalfCycles - 1

Picture == [nut : 0 .. 11, tid : TemporalIds, nonRef : BOOLEAN,
            recovery : BOOLEAN, lsb : Lsbs, cycle : {NoCycle} \union Nat]

-----------------------------------------------------------------------------
(* The encoder's side, from H.266.                                         *)
TrailingTypes == {0, 1}         \* TRAIL, STSA
LeadingTypes == {2, 3}          \* RADL, RASL
IdrTypes == {7, 8}
RandomAccessTypes == {9, 10}    \* CRA, GDR

(* H.266 wants IRAP and GDR pictures in temporal layer 0 and STSA above it *)
(* (in a single-layer stream); IDR and CRA pictures may be referred to.    *)
Headers(q, lsb) ==
  {h \in [nut : TrailingTypes \union LeadingTypes \union IdrTypes
                \union RandomAccessTypes,
          tid : TemporalIds, nonRef : BOOLEAN, recovery : BOOLEAN,
          lsb : {lsb}, cycle : {NoCycle} \union ({q} \intersect Nat)] :
     /\ h.nut >= 7 => h.tid = 0 /\ ~ h.nonRef
     /\ h.nut = 1 => h.tid > 0
     /\ h.recovery => h.nut = 10}

(* The pictures that become prevTid0Pic.                                   *)
IsAnchor(h) == h.tid = 0 /\ ~ h.nonRef /\ h.nut \notin LeadingTypes

(* The pictures a coded layer video sequence may start with.               *)
MayStart(h) == h.nut \in IdrTypes \union RandomAccessTypes /\ ~ h.recovery

Identifiable(p) ==
  /\ 2 * (p - anchor) > - MaxLsb
  /\ 2 * (p - anchor) <= MaxLsb

Deliver(h) ==
  /\ derived' = Derived(tracker, h, MaxLsb)
  /\ tracker' = Advanced(tracker, h, MaxLsb)
  /\ pic' = h

NoPicture == [nut |-> 0, tid |-> 0, nonRef |-> FALSE, recovery |-> FALSE,
              lsb |-> 0, cycle |-> NoCycle]

Init ==
  /\ tracker = NoPrevious
  /\ derived = 0
  /\ pic = NoPicture
  /\ started = FALSE
  /\ poc = 0 /\ anchor = 0 /\ skew = 0

(* Decoding starts at any anchor picture but an IDR picture.               *)
TuneIn(h, q) ==
  /\ ~ started
  /\ IsAnchor(h) /\ h.nut \notin IdrTypes
  /\ Deliver(h)
  /\ started' = TRUE
  /\ poc' = q * MaxLsb + h.lsb
  /\ anchor' = poc'
  /\ skew' = derived' - poc'

(* A coded layer video sequence starts: its first picture has MSB 0 unless *)
(* its header states the cycle.                                            *)
SequenceStart(h, q) ==
  /\ MayStart(h)
  /\ h.cycle = NoCycle => q = 0
  /\ Deliver(h)
  /\ started' = TRUE
  /\ poc' = q * MaxLsb + h.lsb
  /\ anchor' = poc' /\ skew' = 0

(* Any other picture.  Those that could start a sequence but do not state  *)
(* their cycle are left out: after leading pictures their MSB is a guess.  *)
CodedPicture(h, q) ==
  LET p == q * MaxLsb + h.lsb
  IN /\ started
     /\ Identifiable(p)
     /\ MayStart(h) => h.nut \notin IdrTypes /\ h.cycle # NoCycle
     /\ h.cycle = NoCycle => p + skew \in Int32
     /\ Deliver(h)
     /\ poc' = p
     /\ anchor' = IF IsAnchor(h) THEN p ELSE anchor
     /\ skew' = IF IsAnchor(h) /\ h.cycle # NoCycle THEN 0 ELSE skew
     /\ UNCHANGED started

(* A further slice of the current picture.                                 *)
RepeatSlice ==
  /\ started
  /\ Deliver(pic)
  /\ UNCHANGED encoder

(* State::clear() between two streams.                                     *)
Clear ==
  /\ tracker' = NoPrevious
  /\ derived' = 0
  /\ pic' = NoPicture
  /\ started' = FALSE
  /\ poc' = 0 /\ anchor' = 0 /\ skew' = 0

Next ==
  \/ \E q \in Cycles, lsb \in Lsbs : \E h \in Headers(q, lsb) :
       \/ TuneIn(h, q)
       \/ SequenceStart(h, q)
       \/ CodedPicture(h, q)
  \/ RepeatSlice
  \/ Clear

Spec == Init /\ [][Next]_vars

-----------------------------------------------------------------------------
TypeOK ==
  /\ tracker \in [valid : BOOLEAN, msb : Int32, lsb : Lsbs]
  /\ derived \in Int32
  /\ pic \in Picture
  /\ started \in BOOLEAN
  /\ poc \in Int /\ anchor \in Int /\ skew \in Int

(* Every derived_poc is the true order count displaced by the skew, or the *)
(* true order count itself if the picture states its MSB cycle.            *)
DerivedFollowsTimeline ==
  started => derived = poc + (IF pic.cycle = NoCycle THEN skew ELSE 0)

(* The tracker holds the encoder's prevTid0Pic, displaced by the skew: a   *)
(* whole number of LSB periods.                                            *)
TrackerHoldsAnchor ==
  started =>
    /\ tracker.valid
    /\ tracker.msb + tracker.lsb = anchor + skew
    /\ tracker.msb % MaxLsb = 0
    /\ skew % MaxLsb = 0

(* Deriving again from the last slice would change nothing.                *)
Settled ==
  started =>
    /\ Derived(tracker, pic, MaxLsb) = derived
    /\ Advanced(tracker, pic, MaxLsb) = tracker

(* The inductive invariant behind the theorems of VvcPocProofs.            *)
IInv ==
  /\ TypeOK
  /\ DerivedFollowsTimeline
  /\ TrackerHoldsAnchor
  /\ Settled
  /\ ~ started => tracker = NoPrevious

(* Deriving again from a further slice of a picture changes nothing.       *)
RepeatedSliceIsIdempotent ==
  [][RepeatSlice => UNCHANGED <<tracker, derived>>]_vars

Abstract == INSTANCE PictureOrder WITH
  live <- started,
  coded <- poc,
  anchor <- IF started THEN tracker.msb + tracker.lsb - skew ELSE 0,
  shift <- skew,
  shown <- derived

(* The tracker implements the promise common to all codecs.                *)
ImplementsPictureOrder == Abstract!Spec
=============================================================================
