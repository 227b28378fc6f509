--------------------------- MODULE HevcPocProofs ---------------------------
(***************************************************************************)
(* Proofs about the HEVC order-count tracker, for every LSB width, every   *)
(* 32-bit-like range that is a whole number of LSB periods and every set   *)
(* of pictures.                                                            *)
(***************************************************************************)
EXTENDS HevcPoc, TLAPS

(* What the constants are, in the form the arithmetic steps need.          *)
LEMMA Constants ==
  /\ Int32Max \in Nat /\ MaxLsb \in Nat /\ MaxLsb > 0
  /\ MaxLsb \div 2 \in Nat /\ 2 * (MaxLsb \div 2) = MaxLsb
  /\ HalfCycles \in Nat /\ HalfCycles > 0
  /\ Int32Max + 1 = HalfCycles * MaxLsb
  /\ MaxLsb <= Int32Max + 1
  /\ Cycles \subseteq Int
<1>1. /\ Int32Max \in Nat /\ MaxLsb \in Nat /\ MaxLsb > 0
      /\ MaxLsb \div 2 \in Nat /\ 2 * (MaxLsb \div 2) = MaxLsb
  BY Int32MaxAssumption, MaxLsbAssumption
<1>2. /\ HalfCycles \in Nat /\ HalfCycles > 0
      /\ Int32Max + 1 = HalfCycles * MaxLsb
  BY CyclesAssumption
<1>3. HalfCycles * MaxLsb >= MaxLsb
  BY <1>1, <1>2
<1>4. Cycles \subseteq Int
  BY <1>2 DEF Cycles
<1>. QED
  BY <1>1, <1>2, <1>3, <1>4

(* What % and * have to do with each other.                                *)
LEMMA Multiples ==
  ASSUME NEW m \in Nat, m > 0
  PROVE  /\ \A x \in Int : (x % m) = 0 => \E k \in Int : x = k * m
         /\ \A k \in Int : ((k * m) % m) = 0
<1>1. ASSUME NEW x \in Int, (x % m) = 0 PROVE \E k \in Int : x = k * m
  <2>1. x = m * (x \div m) + (x % m) /\ (x \div m) \in Int
    OBVIOUS
  <2>2. x = (x \div m) * m
    BY <2>1, <1>1
  <2>. QED
    BY <2>1, <2>2
<1>2. ASSUME NEW k \in Int PROVE ((k * m) % m) = 0
  OBVIOUS
<1>. QED
  BY <1>1, <1>2

(* The pictures that become prevTid0Pic are reference pictures.            *)
LEMMA PreviousTypes ==
  ASSUME NEW nut \in 0 .. 31, NEW tid, BecomesPrevious(nut, tid)
  PROVE  IsReferenceVcl(nut)
BY DEF BecomesPrevious, IsReferenceVcl, IsRaslOrRadl, IsSubLayerNonReference

(* The derived MSB is a 32-bit value.                                      *)
LEMMA PocMsbType ==
  ASSUME NEW t \in Tracker, NEW nut \in 0 .. 31, NEW lsb \in Lsbs,
         t.msb \in Int32
  PROVE  PocMsb(t, nut, lsb, MaxLsb) \in Int32
BY Constants, SMTT(30)
DEF PocMsb, DerivePocMsb, Saturate, MsbStep, Int32, Int32Min, Lsbs, Tracker,
    IsIdr

(* Deriving a second time from the tracker the first call left yields the  *)
(* same order count and the same tracker.                                  *)
LEMMA DeriveTwice ==
  ASSUME NEW t \in Tracker, t.msb \in Int32,
         NEW nut \in 0 .. 31, NEW tid \in TemporalIds, NEW lsb \in Lsbs
  PROVE  LET u == Advanced(t, nut, tid, lsb, MaxLsb)
         IN /\ Derived(u, nut, lsb, MaxLsb) = Derived(t, nut, lsb, MaxLsb)
            /\ Advanced(u, nut, tid, lsb, MaxLsb) = u
<1> DEFINE u == Advanced(t, nut, tid, lsb, MaxLsb)
           m == PocMsb(t, nut, lsb, MaxLsb)
<1>1. CASE ~ BecomesPrevious(nut, tid)
  BY <1>1 DEF Advanced
<1>2. CASE BecomesPrevious(nut, tid)
  <2>1. u = [valid |-> TRUE, reference |-> TRUE, msb |-> m, lsb |-> lsb]
    <3>1. IsReferenceVcl(nut) = TRUE
      BY <1>2, PreviousTypes, Zenon DEF IsReferenceVcl
    <3>. QED
      BY <1>2, <3>1 DEF Advanced
  <2>2. m \in Int32
    BY PocMsbType
  <2>3. PocMsb(u, nut, lsb, MaxLsb) = m
    <3>1. CASE IsIdr(nut)
      BY <3>1 DEF PocMsb
    <3>2. CASE ~ IsIdr(nut)
      <4> HIDE DEF m
      <4>1. MsbStep(lsb, lsb, MaxLsb) = 0
        BY DEF MsbStep, Lsbs
      <4>2. DerivePocMsb(m, lsb, lsb, MaxLsb) = m
        BY <2>2, <4>1, Constants DEF DerivePocMsb, Saturate, Int32, Int32Min
      <4>3. PocMsb(u, nut, lsb, MaxLsb) = DerivePocMsb(m, lsb, lsb, MaxLsb)
        BY <2>1, <3>2 DEF PocMsb
      <4>. QED
        BY <4>2, <4>3
    <3>. QED
      BY <3>1, <3>2
  <2>4. Derived(u, nut, lsb, MaxLsb) = Derived(t, nut, lsb, MaxLsb)
    BY <2>3 DEF Derived
  <2>5. Advanced(u, nut, tid, lsb, MaxLsb) = u
    BY <1>2, <2>3 DEF Advanced
  <2>. QED
    BY <2>4, <2>5
<1>. QED
  BY <1>1, <1>2

(* If a picture lies in the window around the anchor, MsbStep is exactly   *)
(* the distance between their LSB periods (n of them).                     *)
LEMMA StepIsDistance ==
  ASSUME NEW n \in Int, NEW prev \in Lsbs, NEW lsb \in Lsbs,
         2 * (n * MaxLsb + lsb - prev) > - MaxLsb,
         2 * (n * MaxLsb + lsb - prev) <= MaxLsb
  PROVE  MsbStep(prev, lsb, MaxLsb) = n * MaxLsb
<1>1. prev \in Int /\ lsb \in Int /\ 0 <= prev /\ prev < MaxLsb
      /\ 0 <= lsb /\ lsb < MaxLsb
  BY Constants DEF Lsbs
<1>2. n \in {-1, 0, 1}
  <2>1. ASSUME n >= 2 PROVE FALSE
    <3>1. n * MaxLsb >= 2 * MaxLsb
      BY <2>1, Constants
    <3>. QED
      BY <3>1, <1>1, Constants
  <2>2. ASSUME n <= -2 PROVE FALSE
    <3>1. n * MaxLsb <= -2 * MaxLsb
      BY <2>2, Constants
    <3>. QED
      BY <3>1, <1>1, Constants
  <2>. QED
    BY <2>1, <2>2
<1>. QED
  BY <1>1, <1>2, Constants DEF MsbStep

(* A whole number of LSB periods plus an LSB is a 32-bit value only if the *)
(* whole periods are, so neither the clamp nor the wrap-around happens.    *)
LEMMA WholePeriodsFit ==
  ASSUME NEW c \in Int, NEW lsb \in Lsbs
  PROVE  c * MaxLsb \in Int32 <=> c * MaxLsb + lsb \in Int32
<1>1. lsb \in Int /\ 0 <= lsb /\ lsb < MaxLsb
  BY Constants DEF Lsbs
<1>2. c * MaxLsb \in Int
  BY Constants
<1>3. ASSUME c * MaxLsb \in Int32 PROVE c * MaxLsb + lsb \in Int32
  <2>1. c * MaxLsb < HalfCycles * MaxLsb
    BY <1>3, <1>2, Constants DEF Int32, Int32Min
  <2>2. c <= HalfCycles - 1
    BY <2>1, Constants
  <2>3. c * MaxLsb <= (HalfCycles - 1) * MaxLsb
    BY <2>2, Constants
  <2>4. (HalfCycles - 1) * MaxLsb = HalfCycles * MaxLsb - MaxLsb
    BY Constants
  <2>. QED
    BY <1>1, <1>2, <1>3, <2>3, <2>4, Constants DEF Int32, Int32Min
<1>4. ASSUME c * MaxLsb + lsb \in Int32 PROVE c * MaxLsb \in Int32
  <2>1. - (HalfCycles * MaxLsb) <= c * MaxLsb + lsb
    BY <1>4, <1>2, <1>1, Constants DEF Int32, Int32Min
  <2>2. - ((HalfCycles + 1) * MaxLsb) < c * MaxLsb
    BY <2>1, <1>1, <1>2, Constants
  <2>3. -(HalfCycles + 1) < c
    BY <2>2, Constants
  <2>4. -HalfCycles <= c
    BY <2>3, Constants
  <2>5. (-HalfCycles) * MaxLsb <= c * MaxLsb
    BY <2>4, Constants
  <2>. QED
    BY <1>1, <1>2, <1>4, <2>5, Constants DEF Int32, Int32Min
<1>. QED
  BY <1>3, <1>4

-----------------------------------------------------------------------------
(* What one call of derive() leaves behind, whatever the slice header.     *)
LEMMA DeliverSettles ==
  ASSUME TypeOK, NEW nut \in 0 .. 31, NEW tid \in TemporalIds,
         NEW lsb \in Lsbs, Deliver(nut, tid, lsb)
  PROVE  /\ tracker' \in [valid : BOOLEAN, reference : BOOLEAN,
                           msb : Int32, lsb : Lsbs]
         /\ derived' \in Int32
         /\ Derived(tracker', nut, lsb, MaxLsb) = derived'
         /\ Advanced(tracker', nut, tid, lsb, MaxLsb) = tracker'
<1> DEFINE m == PocMsb(tracker, nut, lsb, MaxLsb)
<1>1. tracker \in Tracker /\ tracker.msb \in Int32
  BY Constants DEF TypeOK, Tracker, Int32, Int32Min, Lsbs
<1>2. m \in Int32
  BY <1>1, PocMsbType
<1>3. IsReferenceVcl(nut) \in BOOLEAN
  BY Zenon DEF IsReferenceVcl
<1> HIDE DEF m
<1>4. tracker' \in [valid : BOOLEAN, reference : BOOLEAN,
                    msb : Int32, lsb : Lsbs]
  BY <1>2, <1>3 DEF Deliver, Advanced, TypeOK, m
<1>5. AddInt32(m, lsb) \in Int32 /\ 0 \in Int32
  BY <1>2, Constants DEF AddInt32, Int32, Int32Min, Lsbs
<1>6. derived' \in Int32
  BY <1>5 DEF Deliver, Derived, m
<1>7. /\ Derived(tracker', nut, lsb, MaxLsb) = derived'
      /\ Advanced(tracker', nut, tid, lsb, MaxLsb) = tracker'
  BY <1>1, DeriveTwice DEF Deliver
<1>. QED
  BY <1>4, <1>6, <1>7

(* A picture the encoder's constraints allow is put where it belongs: the  *)
(* MSB is rebuilt exactly, and no clamp or wrap-around interferes.         *)
LEMMA OnTimeline ==
  ASSUME TypeOK, TrackerHoldsAnchor, started,
         NEW nut \in 0 .. 31, ~ IsIdr(nut), NEW q \in Int, NEW lsb \in Lsbs,
         Identifiable(q * MaxLsb + lsb),
         q * MaxLsb + lsb + skew \in Int32
  PROVE  /\ PocMsb(tracker, nut, lsb, MaxLsb) = q * MaxLsb + skew
         /\ Derived(tracker, nut, lsb, MaxLsb) = q * MaxLsb + lsb + skew
         /\ (q * MaxLsb + skew) % MaxLsb = 0
<1>1. /\ tracker.msb \in Int /\ tracker.lsb \in Lsbs /\ skew \in Int
      /\ anchor \in Int /\ lsb \in Int /\ tracker.lsb \in Int
      /\ q * MaxLsb \in Int
  BY Constants DEF TypeOK, Int32, Int32Min, Lsbs
<1>2. /\ tracker.valid /\ tracker.reference
      /\ tracker.msb + tracker.lsb = anchor + skew
      /\ tracker.msb % MaxLsb = 0 /\ skew % MaxLsb = 0
  BY DEF TrackerHoldsAnchor
<1>3. PICK k \in Int : tracker.msb = k * MaxLsb
  BY <1>1, <1>2, Constants, Multiples
<1>4. PICK j \in Int : skew = j * MaxLsb
  BY <1>1, <1>2, Constants, Multiples
<1>5. PICK c \in Int : c * MaxLsb = q * MaxLsb + skew
  <2>1. (q + j) * MaxLsb = q * MaxLsb + skew
    BY <1>4, Constants
  <2>. QED
    BY <2>1
<1>6. PICK n \in Int : n * MaxLsb = q * MaxLsb + skew - tracker.msb
  <2>1. (q + j - k) * MaxLsb = q * MaxLsb + skew - tracker.msb
    BY <1>3, <1>4, Constants
  <2>. QED
    BY <2>1
<1>7. MsbStep(tracker.lsb, lsb, MaxLsb) = n * MaxLsb
  <2>1. n * MaxLsb \in Int
    BY Constants
  <2>2. q * MaxLsb + lsb - anchor = n * MaxLsb + lsb - tracker.lsb
    BY <1>1, <1>2, <1>6, <2>1
  <2>3. /\ 2 * (n * MaxLsb + lsb - tracker.lsb) > - MaxLsb
        /\ 2 * (n * MaxLsb + lsb - tracker.lsb) <= MaxLsb
    BY <2>1, <2>2, <1>1, Constants DEF Identifiable
  <2>. QED
    BY <2>3, <1>1, StepIsDistance
<1>8. PocMsb(tracker, nut, lsb, MaxLsb) = q * MaxLsb + skew
  <2>1. c * MaxLsb \in Int32
    <3>1. c * MaxLsb + lsb = q * MaxLsb + lsb + skew
      BY <1>1, <1>5
    <3>. QED
      BY <3>1, WholePeriodsFit
  <2>2. tracker.msb + MsbStep(tracker.lsb, lsb, MaxLsb) = q * MaxLsb + skew
    BY <1>1, <1>6, <1>7
  <2>3. q * MaxLsb + skew \in Int32
    BY <2>1, <1>5
  <2>4. DerivePocMsb(tracker.msb, tracker.lsb, lsb, MaxLsb) = q * MaxLsb + skew
    BY <2>2, <2>3, Constants DEF DerivePocMsb, Saturate, Int32, Int32Min
  <2>. QED
    BY <2>4, <1>2 DEF PocMsb
<1>9. Derived(tracker, nut, lsb, MaxLsb) = q * MaxLsb + lsb + skew
  <2>1. q * MaxLsb + lsb + skew = (q * MaxLsb + skew) + lsb
    BY <1>1
  <2>2. (q * MaxLsb + skew) + lsb <= Int32Max
    BY <2>1, Constants DEF Int32
  <2>3. AddInt32(q * MaxLsb + skew, lsb) = (q * MaxLsb + skew) + lsb
    BY <2>2, <1>1, Constants DEF AddInt32
  <2>. QED
    BY <1>8, <2>1, <2>3 DEF Derived
<1>10. (q * MaxLsb + skew) % MaxLsb = 0
  <2>1. ((c * MaxLsb) % MaxLsb) = 0
    BY Constants, Multiples
  <2>. QED
    BY <2>1, <1>5
<1>. QED
  BY <1>8, <1>9, <1>10

-----------------------------------------------------------------------------
(* What a picture that becomes prevTid0Pic leaves in the tracker.          *)
LEMMA AnchorRemembered ==
  ASSUME NEW nut \in AnchorTypes, NEW lsb \in Lsbs, Deliver(nut, 0, lsb)
  PROVE  tracker' = [valid |-> TRUE, reference |-> TRUE,
                     msb |-> PocMsb(tracker, nut, lsb, MaxLsb), lsb |-> lsb]
<1>1. BecomesPrevious(nut, 0)
  BY DEF BecomesPrevious, AnchorTypes, BlaTypes, IdrTypes, CraType,
         IsRaslOrRadl, IsSubLayerNonReference
<1>2. nut \in 0 .. 31
  BY DEF AnchorTypes, BlaTypes, IdrTypes, CraType
<1>3. IsReferenceVcl(nut) = TRUE
  BY <1>1, <1>2, PreviousTypes, Zenon DEF IsReferenceVcl
<1>. QED
  BY <1>1, <1>3 DEF Deliver, Advanced

(* The part of the invariant every delivery establishes.                   *)
LEMMA DeliverTypes ==
  ASSUME TypeOK, NEW nut \in 0 .. 31, NEW tid \in TemporalIds,
         NEW lsb \in Lsbs, Deliver(nut, tid, lsb),
         nal' = [nut |-> nut, tid |-> tid, lsb |-> lsb], started' \in BOOLEAN,
         poc' \in Int, anchor' \in Int, skew' \in Int
  PROVE  TypeOK' /\ Settled'
<1>1. /\ tracker' \in [valid : BOOLEAN, reference : BOOLEAN,
                       msb : Int32, lsb : Lsbs]
      /\ derived' \in Int32
      /\ Derived(tracker', nut, lsb, MaxLsb) = derived'
      /\ Advanced(tracker', nut, tid, lsb, MaxLsb) = tracker'
  BY DeliverSettles
<1>2. nal' \in SliceInfo
  BY DEF SliceInfo
<1>. QED
  BY <1>1, <1>2 DEF TypeOK, Settled

(* The tracker and its user start from the same place.                     *)
LEMMA InvInit == Init => IInv
<1>. SUFFICES ASSUME Init PROVE IInv
  OBVIOUS
<1>1. /\ 0 \in Int32 /\ 0 \in Lsbs /\ 0 \in TemporalIds
  BY Constants, TemporalIdsAssumption DEF Int32, Int32Min, Lsbs
<1>2. NoPrevious \in [valid : BOOLEAN, reference : BOOLEAN,
                      msb : Int32, lsb : Lsbs]
  BY <1>1 DEF NoPrevious
<1>3. NoSlice \in SliceInfo
  BY <1>1 DEF NoSlice, SliceInfo
<1>4. TypeOK
  <2>1. started \in BOOLEAN
    BY Zenon DEF Init
  <2>2. tracker = NoPrevious /\ nal = NoSlice
    BY DEF Init
  <2>3. derived \in Int32 /\ poc \in Int /\ anchor \in Int /\ skew \in Int
    BY <1>1 DEF Init
  <2>. QED
    BY <1>2, <1>3, <2>1, <2>2, <2>3 DEF TypeOK
<1>. QED
  BY <1>4 DEF Init, IInv, DerivedFollowsTimeline, TrackerHoldsAnchor, Settled

(* Tuning in: the first picture gets MSB 0, whatever its true MSB.         *)
LEMMA InvTuneIn ==
  ASSUME IInv, NEW nut \in AnchorTypes, NEW q \in Int, NEW lsb \in Lsbs,
         TuneIn(nut, q, lsb)
  PROVE  IInv'
<1>1. /\ nut \in 0 .. 31 /\ ~ IsIdr(nut) /\ 0 \in TemporalIds
      /\ lsb \in Int /\ 0 <= lsb /\ lsb < MaxLsb /\ q * MaxLsb \in Int
  BY Constants, TemporalIdsAssumption
  DEF TuneIn, AnchorTypes, BlaTypes, IdrTypes, CraType, IsIdr, Lsbs
<1>2. /\ poc' = q * MaxLsb + lsb /\ anchor' = q * MaxLsb + lsb
      /\ skew' = - (q * MaxLsb) /\ started' = TRUE
  BY <1>1 DEF TuneIn
<1>3. PocMsb(tracker, nut, lsb, MaxLsb) = 0
  BY DEF IInv, TuneIn, PocMsb, NoPrevious
<1>4. derived' = lsb
  BY <1>1, <1>3, Constants DEF TuneIn, Deliver, Derived, AddInt32
<1>5. tracker' = [valid |-> TRUE, reference |-> TRUE, msb |-> 0, lsb |-> lsb]
  BY <1>3, AnchorRemembered DEF TuneIn
<1>6. TypeOK' /\ Settled'
  <2>1. /\ Deliver(nut, 0, lsb)
        /\ nal' = [nut |-> nut, tid |-> 0, lsb |-> lsb]
        /\ TypeOK
    BY DEF TuneIn, IInv
  <2>2. /\ started' \in BOOLEAN
        /\ poc' \in Int /\ anchor' \in Int /\ skew' \in Int
    BY <1>1, <1>2
  <2>. QED
    BY <1>1, <2>1, <2>2, DeliverTypes
<1>7. DerivedFollowsTimeline'
  BY <1>1, <1>2, <1>4 DEF DerivedFollowsTimeline
<1>8. TrackerHoldsAnchor'
  <2>1. (-q) * MaxLsb = - (q * MaxLsb)
    BY Constants
  <2>2. (((-q) * MaxLsb) % MaxLsb) = 0
    BY Constants, Multiples
  <2>3. (skew' % MaxLsb) = 0
    BY <2>1, <2>2, <1>2
  <2>4. (0 % MaxLsb) = 0
    BY Constants
  <2>. QED
    BY <1>1, <1>2, <1>5, <2>3, <2>4 DEF TrackerHoldsAnchor
<1>. QED
  BY <1>2, <1>6, <1>7, <1>8 DEF IInv

(* An IDR picture puts the tracker back on the true time line.             *)
LEMMA InvIdrPicture ==
  ASSUME IInv, NEW nut \in IdrTypes, IdrPicture(nut)
  PROVE  IInv'
<1>1. /\ nut \in 0 .. 31 /\ nut \in AnchorTypes /\ IsIdr(nut)
      /\ 0 \in TemporalIds /\ 0 \in Lsbs
  BY Constants, TemporalIdsAssumption DEF AnchorTypes, IdrTypes, IsIdr, Lsbs
<1>2. /\ derived' = 0
      /\ tracker' = [valid |-> TRUE, reference |-> TRUE, msb |-> 0, lsb |-> 0]
  BY <1>1, AnchorRemembered DEF IdrPicture, Deliver, Derived, PocMsb
<1>3. TypeOK' /\ Settled'
  <2>1. /\ Deliver(nut, 0, 0)
        /\ nal' = [nut |-> nut, tid |-> 0, lsb |-> 0]
        /\ started' \in BOOLEAN
        /\ poc' \in Int /\ anchor' \in Int /\ skew' \in Int
        /\ TypeOK
    BY DEF IdrPicture, IInv
  <2>. QED
    BY <1>1, <2>1, DeliverTypes
<1>4. DerivedFollowsTimeline' /\ TrackerHoldsAnchor'
  BY <1>2, Constants DEF IdrPicture, DerivedFollowsTimeline, TrackerHoldsAnchor
<1>. QED
  BY <1>3, <1>4 DEF IInv, IdrPicture

(* A new coded video sequence the tracker does not recognise: it goes on   *)
(* by at most one period, and the skew absorbs the difference.             *)
LEMMA InvSequenceStart ==
  ASSUME IInv, NEW nut \in BlaTypes \union {CraType}, NEW lsb \in Lsbs,
         SequenceStart(nut, lsb)
  PROVE  IInv'
<1> DEFINE m == tracker.msb + MsbStep(tracker.lsb, lsb, MaxLsb)
<1>1. /\ nut \in 0 .. 31 /\ nut \in AnchorTypes /\ ~ IsIdr(nut)
      /\ 0 \in TemporalIds /\ lsb \in Int
  BY Constants, TemporalIdsAssumption
  DEF AnchorTypes, BlaTypes, IdrTypes, CraType, IsIdr, Lsbs
<1>2. /\ tracker.msb \in Int /\ tracker.valid /\ tracker.reference
      /\ (tracker.msb % MaxLsb) = 0
  BY DEF IInv, TypeOK, TrackerHoldsAnchor, SequenceStart, Int32, Int32Min
<1>3. PICK k \in Int : m = k * MaxLsb
  <2>1. PICK j \in Int : tracker.msb = j * MaxLsb
    BY <1>2, Constants, Multiples
  <2>2. MsbStep(tracker.lsb, lsb, MaxLsb) \in {MaxLsb, - MaxLsb, 0}
    BY DEF MsbStep
  <2>3. /\ (j + 1) * MaxLsb = j * MaxLsb + MaxLsb
        /\ (j - 1) * MaxLsb = j * MaxLsb - MaxLsb
    BY Constants
  <2>4. \/ m = (j + 1) * MaxLsb
        \/ m = (j - 1) * MaxLsb
        \/ m = j * MaxLsb
    BY <2>1, <2>2, <2>3, <1>2, Constants
  <2>. QED
    BY <2>4
<1>4. m \in Int32
  BY DEF SequenceStart
<1>5. PocMsb(tracker, nut, lsb, MaxLsb) = m
  BY <1>1, <1>2, <1>4, Constants
  DEF PocMsb, DerivePocMsb, Saturate, Int32, Int32Min
<1> HIDE DEF m
<1>6. derived' = m + lsb
  <2>1. k * MaxLsb + lsb \in Int32
    BY <1>3, <1>4, WholePeriodsFit
  <2>2. m \in Int /\ m + lsb <= Int32Max
    BY <2>1, <1>3, <1>4, Constants DEF Int32, Int32Min
  <2>. QED
    BY <2>2, <1>1, <1>5, Constants
    DEF SequenceStart, Deliver, Derived, AddInt32
<1>7. tracker' = [valid |-> TRUE, reference |-> TRUE, msb |-> m, lsb |-> lsb]
  BY <1>1, <1>5, AnchorRemembered DEF SequenceStart
<1>8. m \in Int /\ skew' = m /\ poc' = lsb /\ anchor' = lsb
  BY <1>1, <1>4, <1>6, Constants DEF SequenceStart, Int32, Int32Min
<1>9. (m % MaxLsb) = 0
  BY <1>3, Constants, Multiples
<1>10. TypeOK' /\ Settled'
  <2>1. /\ Deliver(nut, 0, lsb)
        /\ nal' = [nut |-> nut, tid |-> 0, lsb |-> lsb]
        /\ started' \in BOOLEAN
        /\ TypeOK
    BY DEF SequenceStart, IInv, TypeOK
  <2>. QED
    BY <1>1, <1>8, <2>1, DeliverTypes
<1>11. DerivedFollowsTimeline' /\ TrackerHoldsAnchor'
  BY <1>1, <1>6, <1>7, <1>8, <1>9
  DEF DerivedFollowsTimeline, TrackerHoldsAnchor
<1>. QED
  BY <1>10, <1>11 DEF IInv, SequenceStart

(* The heart of the matter: an ordinary picture inside the anchor's window *)
(* keeps both time lines together.                                         *)
LEMMA InvCodedPicture ==
  ASSUME IInv,
         NEW nut \in TrailingTypes \union LeadingTypes \union {CraType},
         NEW tid \in TemporalIds, NEW q \in Int, NEW lsb \in Lsbs,
         CodedPicture(nut, tid, q, lsb)
  PROVE  IInv'
<1>1. /\ nut \in 0 .. 31 /\ ~ IsIdr(nut) /\ lsb \in Int
      /\ q * MaxLsb \in Int /\ tid \in Int
      /\ TypeOK /\ TrackerHoldsAnchor
  BY Constants, TemporalIdsAssumption
  DEF TrailingTypes, LeadingTypes, CraType, IsIdr, Lsbs, IInv
<1>2. /\ started /\ TemporalIdAllowed(nut, tid)
      /\ Identifiable(q * MaxLsb + lsb)
      /\ q * MaxLsb + lsb + skew \in Int32
      /\ Deliver(nut, tid, lsb)
      /\ nal' = [nut |-> nut, tid |-> tid, lsb |-> lsb]
      /\ poc' = q * MaxLsb + lsb
      /\ anchor' = IF IsAnchor(nut, tid) THEN q * MaxLsb + lsb ELSE anchor
      /\ started' = started /\ skew' = skew
  BY DEF CodedPicture
<1>3. /\ PocMsb(tracker, nut, lsb, MaxLsb) = q * MaxLsb + skew
      /\ Derived(tracker, nut, lsb, MaxLsb) = q * MaxLsb + lsb + skew
      /\ ((q * MaxLsb + skew) % MaxLsb) = 0
  BY <1>1, <1>2, OnTimeline
<1>4. /\ skew \in Int /\ anchor \in Int /\ started \in BOOLEAN
  BY <1>1 DEF TypeOK
<1>5. TypeOK' /\ Settled'
  <2>1. /\ started' \in BOOLEAN
        /\ poc' \in Int /\ anchor' \in Int /\ skew' \in Int
    BY <1>1, <1>2, <1>4
  <2>. QED
    BY <1>1, <1>2, <2>1, DeliverTypes
<1>6. DerivedFollowsTimeline'
  BY <1>1, <1>2, <1>3, <1>4 DEF Deliver, DerivedFollowsTimeline
<1>7. TrackerHoldsAnchor'
  <2>1. CASE IsAnchor(nut, tid)
    <3>1. tid = 0 /\ nut \in AnchorTypes
      BY <2>1 DEF IsAnchor
    <3>2. tracker' = [valid |-> TRUE, reference |-> TRUE,
                      msb |-> q * MaxLsb + skew, lsb |-> lsb]
      BY <1>2, <1>3, <3>1, AnchorRemembered
    <3>. QED
      BY <1>1, <1>2, <1>3, <1>4, <2>1, <3>2 DEF TrackerHoldsAnchor
  <2>2. CASE ~ IsAnchor(nut, tid)
    <3>1. ~ BecomesPrevious(nut, tid)
      BY <1>1, <1>2, <2>2
      DEF BecomesPrevious, IsAnchor, AnchorTypes, BlaTypes, IdrTypes, CraType,
          TrailingTypes, LeadingTypes, TemporalIdAllowed, IsRaslOrRadl,
          IsSubLayerNonReference
    <3>2. tracker' = tracker /\ anchor' = anchor
      BY <1>2, <2>2, <3>1 DEF Deliver, Advanced
    <3>. QED
      BY <1>1, <1>2, <3>2 DEF TrackerHoldsAnchor
  <2>. QED
    BY <2>1, <2>2
<1>. QED
  BY <1>2, <1>5, <1>6, <1>7 DEF IInv

(* Every step of the tracker and its user preserves the invariant.         *)
LEMMA InvNext == IInv /\ [Next]_vars => IInv'
<1>. SUFFICES ASSUME IInv, [Next]_vars PROVE IInv'
  OBVIOUS
<1>1. ASSUME NEW nut \in AnchorTypes, NEW q \in Cycles, NEW lsb \in Lsbs,
             TuneIn(nut, q, lsb)
      PROVE  IInv'
  BY <1>1, InvTuneIn, Constants
<1>2. ASSUME NEW nut \in IdrTypes, IdrPicture(nut) PROVE IInv'
  BY <1>2, InvIdrPicture
<1>3. ASSUME NEW nut \in BlaTypes \union {CraType}, NEW lsb \in Lsbs,
             SequenceStart(nut, lsb)
      PROVE  IInv'
  BY <1>3, InvSequenceStart
<1>4. ASSUME NEW nut \in TrailingTypes \union LeadingTypes \union {CraType},
             NEW tid \in TemporalIds, NEW q \in Cycles, NEW lsb \in Lsbs,
             CodedPicture(nut, tid, q, lsb)
      PROVE  IInv'
  BY <1>4, InvCodedPicture, Constants
<1>5. CASE RepeatSlice
  <2>1. tracker' = tracker /\ derived' = derived
    BY <1>5 DEF IInv, Settled, RepeatSlice, Deliver
  <2>. QED
    BY <1>5, <2>1
    DEF IInv, TypeOK, DerivedFollowsTimeline, TrackerHoldsAnchor, Settled,
        RepeatSlice, encoder
<1>6. CASE Clear
  <2>1. Init'
    BY <1>6 DEF Clear, Init
  <2>2. (Init => IInv)'
    BY InvInit, PTL
  <2>. QED
    BY <2>1, <2>2
<1>7. CASE UNCHANGED vars
  BY <1>7
  DEF IInv, TypeOK, DerivedFollowsTimeline, TrackerHoldsAnchor, Settled, vars
<1>. QED
  BY <1>1, <1>2, <1>3, <1>4, <1>5, <1>6, <1>7 DEF Next

(* The invariant holds of every behaviour.                                 *)
THEOREM Invariant == Spec => []IInv
BY InvInit, InvNext, PTL DEF Spec

(* Every member the tracker stores and every value derive() returns is a   *)
(* 32-bit one, and the LSB it keeps is below MaxPicOrderCntLsb.            *)
THEOREM TypeCorrect == Spec => []TypeOK
<1>1. IInv => TypeOK
  BY DEF IInv
<1>. QED
  BY <1>1, Invariant, PTL

(* derived_poc is the true order count moved by the skew, for every        *)
(* picture of every stream that keeps H.265's constraints.                 *)
THEOREM FollowsTimeline == Spec => []DerivedFollowsTimeline
<1>1. IInv => DerivedFollowsTimeline
  BY DEF IInv
<1>. QED
  BY <1>1, Invariant, PTL

(* The members the tracker keeps identify the encoder's prevTid0Pic.       *)
THEOREM HoldsAnchor == Spec => []TrackerHoldsAnchor
<1>1. IInv => TrackerHoldsAnchor
  BY DEF IInv
<1>. QED
  BY <1>1, Invariant, PTL

-----------------------------------------------------------------------------
(* The abstract anchor is the encoder's.                                   *)
LEMMA MappedAnchor ==
  ASSUME IInv, started
  PROVE  tracker.msb + tracker.lsb - skew = anchor
<1>1. /\ tracker.msb \in Int /\ tracker.lsb \in Int
      /\ anchor \in Int /\ skew \in Int
  BY Constants DEF IInv, TypeOK, Int32, Int32Min, Lsbs
<1>2. tracker.msb + tracker.lsb = anchor + skew
  BY DEF IInv, TrackerHoldsAnchor
<1>. QED
  BY <1>1, <1>2

(* Every step of the tracker is a step of PictureOrder, or a stutter.      *)
LEMMA StepSimulation ==
  ASSUME IInv, IInv', [Next]_vars
  PROVE  [Abstract!Next]_(Abstract!vars)
<1> DEFINE A == IF started THEN tracker.msb + tracker.lsb - skew ELSE 0
<1>1. /\ poc' \in Int /\ skew' \in Int /\ skew \in Int
      /\ started' => derived' = poc' + skew' /\ (skew' % MaxLsb) = 0
  BY DEF IInv, TypeOK, DerivedFollowsTimeline, TrackerHoldsAnchor
<1>2. started => A = anchor
  BY MappedAnchor
<1>3. started' => A' = anchor'
  <2>1. (IInv /\ started => tracker.msb + tracker.lsb - skew = anchor)'
    BY MappedAnchor, PTL
  <2>. QED
    BY <2>1
<1>4. ASSUME NEW nut \in AnchorTypes, NEW q \in Cycles, NEW lsb \in Lsbs,
             TuneIn(nut, q, lsb)
      PROVE  Abstract!Join
  BY <1>4, <1>1, <1>3 DEF TuneIn, Abstract!Join
<1>5. ASSUME NEW nut \in IdrTypes, IdrPicture(nut) PROVE Abstract!Refresh
  BY <1>5, <1>1, <1>3 DEF IdrPicture, Abstract!Refresh
<1>6. ASSUME NEW nut \in BlaTypes \union {CraType}, NEW lsb \in Lsbs,
             SequenceStart(nut, lsb)
      PROVE  Abstract!Join
  BY <1>6, <1>1, <1>3 DEF SequenceStart, Abstract!Join
<1>7. ASSUME NEW nut \in TrailingTypes \union LeadingTypes \union {CraType},
             NEW tid \in TemporalIds, NEW q \in Cycles, NEW lsb \in Lsbs,
             CodedPicture(nut, tid, q, lsb)
      PROVE  Abstract!Picture
  BY <1>7, <1>1, <1>2, <1>3
  DEF CodedPicture, Identifiable, Abstract!Picture, Abstract!Identifiable
<1>8. CASE RepeatSlice
  <2>1. tracker' = tracker /\ derived' = derived
    BY <1>8 DEF IInv, Settled, RepeatSlice, Deliver
  <2>. QED
    BY <1>8, <2>1 DEF RepeatSlice, encoder, Abstract!vars
<1>9. CASE Clear
  BY <1>9 DEF Clear, Abstract!Next, Abstract!Stop
<1>10. CASE UNCHANGED vars
  BY <1>10 DEF vars, Abstract!vars
<1>. QED
  BY <1>4, <1>5, <1>6, <1>7, <1>8, <1>9, <1>10 DEF Next, Abstract!Next

(* The HEVC tracker implements the promise common to all codecs.           *)
THEOREM Refinement == Spec => ImplementsPictureOrder
<1>1. Init => Abstract!Init
  BY DEF Init, Abstract!Init
<1>2. IInv /\ IInv' /\ [Next]_vars => [Abstract!Next]_(Abstract!vars)
  BY StepSimulation
<1>. QED
  BY <1>1, <1>2, Invariant, PTL DEF Spec, ImplementsPictureOrder, Abstract!Spec

-----------------------------------------------------------------------------
(* What holds of the tracker whatever slice headers it is given.           *)
AnyInv == TypeOK /\ Settled /\ PreviousIsReference

(* Any step on any input preserves it.                                     *)
LEMMA AnyNext == AnyInv /\ [NextAny]_vars => AnyInv'
<1>. SUFFICES ASSUME AnyInv, [NextAny]_vars PROVE AnyInv'
  OBVIOUS
<1>1. ASSUME NEW nut \in 0 .. 31, NEW tid \in TemporalIds, NEW lsb \in Lsbs,
             AnySlice(nut, tid, lsb)
      PROVE  AnyInv'
  <2>1. TypeOK' /\ Settled'
    <3>1. /\ Deliver(nut, tid, lsb)
          /\ nal' = [nut |-> nut, tid |-> tid, lsb |-> lsb]
          /\ started' \in BOOLEAN
          /\ poc' \in Int /\ anchor' \in Int /\ skew' \in Int
          /\ TypeOK
      BY <1>1 DEF AnySlice, AnyInv, TypeOK
    <3>. QED
      BY <3>1, DeliverTypes
  <2>2. PreviousIsReference'
    BY <1>1, PreviousTypes
    DEF AnyInv, PreviousIsReference, AnySlice, Deliver, Advanced
  <2>. QED
    BY <2>1, <2>2 DEF AnyInv
<1>2. CASE RepeatSlice
  <2>1. tracker' = tracker /\ derived' = derived
    BY <1>2 DEF AnyInv, Settled, RepeatSlice, Deliver
  <2>. QED
    BY <1>2, <2>1
    DEF AnyInv, TypeOK, Settled, PreviousIsReference, RepeatSlice, encoder
<1>3. CASE Clear
  <2>1. Init'
    BY <1>3 DEF Clear, Init
  <2>2. (Init => TypeOK /\ Settled)'
    BY InvInit, PTL DEF IInv
  <2>. QED
    BY <2>1, <2>2 DEF AnyInv, PreviousIsReference, Init, NoPrevious
<1>4. CASE UNCHANGED vars
  BY <1>4 DEF AnyInv, TypeOK, Settled, PreviousIsReference, vars
<1>. QED
  BY <1>1, <1>2, <1>3, <1>4 DEF NextAny

(* AnyInv holds of every behaviour on arbitrary slice headers.             *)
LEMMA AnyInvariant == SpecAny => []AnyInv
<1>1. Init => AnyInv
  BY InvInit DEF AnyInv, IInv, PreviousIsReference, Init, NoPrevious
<1>. QED
  BY <1>1, AnyNext, PTL DEF SpecAny

(* The tracker's branch for a previous picture that is not a reference     *)
(* picture can never be taken, whatever slice headers arrive.              *)
THEOREM AlwaysReference == SpecAny => []PreviousIsReference
<1>1. AnyInv => PreviousIsReference
  BY DEF AnyInv
<1>. QED
  BY <1>1, AnyInvariant, PTL

(* Deriving from a further slice of the same picture changes neither the   *)
(* order count nor the tracker, whatever slice headers came before.        *)
THEOREM Idempotence == SpecAny => RepeatedSliceIsIdempotent
<1>1. AnyInv /\ [NextAny]_vars => [RepeatSlice => UNCHANGED <<tracker, derived>>]_vars
  BY DEF AnyInv, Settled, RepeatSlice, Deliver
<1>. QED
  BY <1>1, AnyInvariant, PTL DEF SpecAny, RepeatedSliceIsIdempotent
=============================================================================
