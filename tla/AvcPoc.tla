------------------------------- MODULE AvcPoc -------------------------------
(***************************************************************************)
(* The AVC order-count tracker, avc::PocState (parser/avc_poc.hpp), fed by *)
(* an encoder.                                                             *)
(*                                                                         *)
(* Whatever pic_order_cnt_type says, the encoder keeps one unbounded       *)
(* counter and transmits only its low part: the order count itself modulo  *)
(* MaxLsb (type 0) or the frame number modulo MaxFrameNum (types 1 and 2). *)
(* The tracker rebuilds the high part from the previous reference picture. *)
(* The encoder's variables (started, count, anchor, skew) are history the  *)
(* code does not have.  One step is one slice header handed to derive().   *)
(***************************************************************************)
EXTENDS AvcPocTracker

CONSTANTS
  MaxFrameNum,    \* 2 ^ log2_max_frame_num
  MaxLsb,         \* 2 ^ log2_max_pic_order_cnt_lsb
  SpsSet,         \* the sequence parameter sets in use
  Counts,         \* the values the encoder's counter takes
  Deltas          \* the values of delta_pic_order_cnt[_bottom]

ASSUME PeriodAssumption ==
  /\ MaxFrameNum \in Nat /\ MaxFrameNum > 0
  /\ MaxLsb \in Nat /\ MaxLsb > 0 /\ MaxLsb % 2 = 0
  /\ MinLsbPeriod \in Nat /\ MinLsbPeriod <= MaxLsb

ASSUME InputAssumption ==
  /\ SpsSet # {} /\ SpsSet \subseteq Sps
  /\ \A s \in SpsSet : s.maxFrameNum = MaxFrameNum /\ s.maxLsb = MaxLsb
  /\ Counts \subseteq Int
  /\ Deltas \subseteq Int /\ 0 \in Deltas

VARIABLES
  prev,           \* the four members of avc::PocState
  derived,        \* derived_poc of the last slice
  pic,            \* what the last slice header says
  sps,            \* the SPS that slice refers to
  started,        \* has a picture been delivered since construction or clear()?
  count,          \* the encoder's counter at the current picture
  anchor,         \* its value at the last reference picture
  skew            \* what the tracker's counter is ahead of it

encoder == <<started, count, anchor, skew>>
vars == <<prev, derived, pic, sps, started, count, anchor, skew>>

Picture == [idr : BOOLEAN, reference : BOOLEAN,
            frameNum : 0 .. MaxFrameNum - 1, lsb : 0 .. MaxLsb - 1,
            structure : Structures, deltaBottom : Int, delta : Int \X Int]

NoPicture == [idr |-> TRUE, reference |-> TRUE, frameNum |-> 0, lsb |-> 0,
              structure |-> "frame", deltaBottom |-> 0, delta |-> <<0, 0>>]

-----------------------------------------------------------------------------
(* The encoder's side, from H.264 8.2.1.                                   *)
Period(s) == IF s.type = 0 THEN MaxLsb ELSE MaxFrameNum

(* The low part of the counter identifies the picture.                     *)
Identifiable(s, n) ==
  IF s.type = 0
  THEN 2 * (n - anchor) > - MaxLsb /\ 2 * (n - anchor) <= MaxLsb
  ELSE n >= anchor /\ n - anchor < MaxFrameNum

(* ExpectedPicOrderCnt by adding one offset per frame.                     *)
ExpectedOneByOne(s, n) ==
  LET cycle == Len(s.refOffsets)
      sum[i \in 0 .. n] ==
        IF i = 0 THEN 0 ELSE sum[i - 1] + s.refOffsets[((i - 1) % cycle) + 1]
  IN IF n > 0 /\ cycle # 0 THEN sum[n] ELSE 0

(* The order count of a picture whose counter is n.                        *)
OrderCount(s, h, n) ==
  LET passed == IF h.reference \/ n = 0 THEN n ELSE n - 1
      top == CASE s.type = 0 -> n
               [] s.type = 1 -> ExpectedOneByOne(s, passed) + h.delta[1]
                                + (IF h.reference THEN 0 ELSE s.nonRefOffset)
               [] s.type = 2 -> IF h.reference THEN 2 * n ELSE 2 * n - 1
      bottom == CASE s.type = 0 -> top
                  [] s.type = 1 -> top + s.topToBottom
                  [] s.type = 2 -> top
      frameBottom == CASE s.type = 0 -> bottom + h.deltaBottom
                       [] s.type = 1 -> bottom + h.delta[2]
                       [] s.type = 2 -> bottom
  IN IF h.idr THEN 0
     ELSE CASE h.structure = "top"    -> top
            [] h.structure = "bottom" -> bottom
            [] h.structure = "frame"  -> SmallerOf(top, frameBottom)

(* The slice headers of a non-IDR picture whose counter is n.              *)
Headers(n) ==
  {h \in [idr : {FALSE}, reference : BOOLEAN,
          frameNum : {n % MaxFrameNum}, lsb : {n % MaxLsb},
          structure : Structures, deltaBottom : Deltas, delta : Deltas \X Deltas] :
     h.structure # "frame" => h.deltaBottom = 0 /\ h.delta[2] = 0}

(* The header uses the deltas of its type only.                            *)
DeltasOfType(s, h) ==
  /\ s.type # 0 => h.deltaBottom = 0
  /\ s.type # 1 => h.delta = <<0, 0>>

(* The counter the tracker has rebuilt.                                    *)
TrackedCount(p, s) ==
  IF s.type = 0 THEN p.msb + p.lsb ELSE p.frameNumOffset + p.frameNum

-----------------------------------------------------------------------------
Deliver(s, h) ==
  /\ derived' = Derived(prev, s, h)
  /\ prev' = Advanced(prev, s, h)
  /\ pic' = h
  /\ sps' = s

Init ==
  /\ prev = NoPrevious
  /\ derived = 0
  /\ pic = NoPicture
  /\ sps \in SpsSet
  /\ started = FALSE
  /\ count = 0 /\ anchor = 0 /\ skew = 0

(* Decoding starts at a reference picture that is not an IDR picture.      *)
TuneIn(s, h, n) ==
  /\ ~ started
  /\ h.reference
  /\ DeltasOfType(s, h)
  /\ s.type # 0 => n >= 0
  /\ Deliver(s, h)
  /\ started' = TRUE
  /\ count' = n /\ anchor' = n
  /\ skew' = TrackedCount(prev', s) - n

(* An IDR picture may bring a new SPS.  The smaller of its field order     *)
(* counts is zero, and so is its counter (its top field comes first).      *)
IdrPicture(s, structure) ==
  /\ Deliver(s, [NoPicture EXCEPT !.structure = structure])
  /\ started' = TRUE
  /\ count' = 0 /\ anchor' = 0 /\ skew' = 0

CodedPicture(h, n) ==
  /\ started
  /\ DeltasOfType(sps, h)
  /\ Identifiable(sps, n)
  /\ Deliver(sps, h)
  /\ count' = n
  /\ anchor' = IF h.reference THEN n ELSE anchor
  /\ UNCHANGED <<started, skew>>

(* A further slice of the current picture.                                 *)
RepeatSlice ==
  /\ started
  /\ Deliver(sps, pic)
  /\ UNCHANGED encoder

(* State::clear() between two streams.                                     *)
Clear ==
  /\ prev' = NoPrevious
  /\ derived' = 0
  /\ pic' = NoPicture
  /\ started' = FALSE
  /\ count' = 0 /\ anchor' = 0 /\ skew' = 0
  /\ UNCHANGED sps

Next ==
  \/ \E s \in SpsSet, n \in Counts : \E h \in Headers(n) : TuneIn(s, h, n)
  \/ \E s \in SpsSet, structure \in Structures : IdrPicture(s, structure)
  \/ \E n \in Counts : \E h \in Headers(n) : CodedPicture(h, n)
  \/ RepeatSlice
  \/ Clear

Spec == Init /\ [][Next]_vars

-----------------------------------------------------------------------------
TypeOK ==
  /\ prev \in Prev
  /\ prev.frameNum < MaxFrameNum /\ prev.lsb < MaxLsb
  /\ derived \in Int
  /\ pic \in Picture
  /\ sps \in SpsSet
  /\ started \in BOOLEAN
  /\ count \in Int /\ anchor \in Int /\ skew \in Int

(* Every derived_poc is the order count H.264 gives the encoder's counter, *)
(* displaced by the skew (zero from the first IDR picture on), for frames  *)
(* and fields, reference and non-reference pictures, and all three types.  *)
DerivedFollowsTimeline ==
  started => derived = OrderCount(sps, pic, count + skew)

(* The members hold the counter of the last reference picture, displaced   *)
(* by a whole number of periods; the members of the other order-count      *)
(* types are still zero, although an IDR picture may switch the type.      *)
TrackerHoldsAnchor ==
  started =>
    /\ TrackedCount(prev, sps) = anchor + skew
    /\ skew % Period(sps) = 0
    /\ IF sps.type = 0 THEN prev.frameNum = 0 /\ prev.frameNumOffset = 0
       ELSE prev.msb = 0 /\ prev.lsb = 0

(* Deriving again from a further slice of a picture changes nothing.       *)
RepeatedSliceIsIdempotent ==
  [][RepeatSlice => UNCHANGED <<prev, derived>>]_vars
-----------------------------------------------------------------------------
(* What the tracker keeps between slices, inductively: whole periods, no   *)
(* negative frame number offset, and nothing a further slice of the        *)
(* picture would change.                                                   *)
WholePeriods ==
  /\ prev.msb % MaxLsb = 0
  /\ prev.frameNumOffset % MaxFrameNum = 0 /\ prev.frameNumOffset >= 0

Settled ==
  /\ Derived(prev, sps, pic) = derived
  /\ Advanced(prev, sps, pic) = prev

IInv ==
  /\ TypeOK
  /\ ~ started => prev = NoPrevious
  /\ DerivedFollowsTimeline
  /\ TrackerHoldsAnchor
  /\ WholePeriods
  /\ Settled
=============================================================================
