---------------------------- MODULE VvcPocProofs ----------------------------
(***************************************************************************)
(* Proofs about the VVC order-count tracker, for every LSB width, every    *)
(* 32-bit-like range that is a whole number of LSB periods and every set   *)
(* of temporal sub-layers.                                                 *)
(***************************************************************************)
EXTENDS VvcPoc, TLAPS

(* What the constants are, in the form the arithmetic steps need.          *)
LEMMA Constants ==
  /\ Int32Max \in Nat /\ MaxLsb \in Nat /\ MaxLsb > 0
  /\ MaxLsb \div 2 \in Nat /\ 2 * (MaxLsb \div 2) = MaxLsb
  /\ HalfCycles \in Nat /\ HalfCycles > 0
  /\ Int32Max + 1 = HalfCycles * MaxLsb
  /\ 0 \in Int32 /\ 0 \in Lsbs /\ 0 \in TemporalIds
  /\ Int32 \subseteq Int /\ Lsbs \subseteq Nat /\ Cycles \subseteq Int
<1>1. /\ Int32Max \in Nat /\ MaxLsb \in Nat /\ MaxLsb > 0
      /\ MaxLsb \div 2 \in Nat /\ 2 * (MaxLsb \div 2) = MaxLsb
  BY Int32MaxAssumption, MaxLsbAssumption
<1>2. /\ HalfCycles \in Nat /\ HalfCycles > 0
      /\ Int32Max + 1 = HalfCycles * MaxLsb
  BY CyclesAssumption
<1>3. /\ 0 \in Int32 /\ 0 \in Lsbs
      /\ Int32 \subseteq Int /\ Lsbs \subseteq Nat /\ Cycles \subseteq Int
  BY <1>1, <1>2 DEF Int32, Int32Min, Lsbs, Cycles
<1>. QED
  BY <1>1, <1>2, <1>3, TemporalIdsAssumption

(* What % and * have to do with each other.                                *)
LEMMA Multiples ==
  ASSUME NEW m \in Nat, m > 0
  PROVE  /\ \A x \in Int : (x % m) = 0 => \E k \in Int : x = k * m
         /\ \A k \in Int : ((k * m) % m) = 0
<1>1. ASSUME NEW x \in Int, (x % m) = 0 PROVE \E k \in Int : x = k * m
  <2>1. x = m * (x \div m) + (x % m) /\ (x \div m) \in Int
    OBVIOUS
  <2>2. x = (x \div m) * m
    BY <2>1, <1>1
  <2>. QED
    BY <2>1, <2>2
<1>2. ASSUME NEW k \in Int PROVE ((k * m) % m) = 0
  OBVIOUS
<1>. QED
  BY <1>1, <1>2

(* The whole periods the range is made of fit, with and without an LSB.    *)
LEMMA CyclesFit ==
  ASSUME NEW q \in Cycles, NEW lsb \in Lsbs
  PROVE  q * MaxLsb \in Int32 /\ q * MaxLsb + lsb \in Int32
<1>1. q \in Int /\ - HalfCycles <= q /\ q <= HalfCycles - 1
  BY Constants DEF Cycles
<1>2. lsb \in Int /\ 0 <= lsb /\ lsb < MaxLsb
  BY Constants DEF Lsbs
<1>3. (- HalfCycles) * MaxLsb <= q * MaxLsb
  BY <1>1, Constants
<1>4. q * MaxLsb <= (HalfCycles - 1) * MaxLsb
  BY <1>1, Constants
<1>5. /\ (- HalfCycles) * MaxLsb = - (HalfCycles * MaxLsb)
      /\ (HalfCycles - 1) * MaxLsb = HalfCycles * MaxLsb - MaxLsb
      /\ q * MaxLsb \in Int
  BY <1>1, Constants
<1>. QED
  BY <1>2, <1>3, <1>4, <1>5, Constants DEF Int32, Int32Min

(* If a picture lies in the window around the anchor, MsbStep is exactly   *)
(* the distance between their LSB periods (n of them).                     *)
LEMMA StepIsDistance ==
  ASSUME NEW n \in Int, NEW prev \in Lsbs, NEW lsb \in Lsbs,
         2 * (n * MaxLsb + lsb - prev) > - MaxLsb,
         2 * (n * MaxLsb + lsb - prev) <= MaxLsb
  PROVE  MsbStep(prev, lsb, MaxLsb) = n * MaxLsb
<1>1. prev \in Int /\ lsb \in Int /\ 0 <= prev /\ prev < MaxLsb
      /\ 0 <= lsb /\ lsb < MaxLsb
  BY Constants DEF Lsbs
<1>2. n \in {-1, 0, 1}
  <2>1. ASSUME n >= 2 PROVE FALSE
    <3>1. n * MaxLsb >= 2 * MaxLsb
      BY <2>1, Constants
    <3>. QED
      BY <3>1, <1>1, Constants
  <2>2. ASSUME n <= -2 PROVE FALSE
    <3>1. n * MaxLsb <= -2 * MaxLsb
      BY <2>2, Constants
    <3>. QED
      BY <3>1, <1>1, Constants
  <2>. QED
    BY <2>1, <2>2
<1>. QED
  BY <1>1, <1>2, Constants DEF MsbStep

(* A whole number of periods plus an LSB is a 32-bit value only if it is   *)
(* in one of the periods the range is made of: nothing is clamped.         *)
LEMMA InRangeMeansCycle ==
  ASSUME NEW c \in Int, NEW lsb \in Lsbs, c * MaxLsb + lsb \in Int32
  PROVE  c \in Cycles
<1>1. lsb \in Int /\ 0 <= lsb /\ lsb < MaxLsb /\ c * MaxLsb \in Int
  BY Constants DEF Lsbs
<1>2. c <= HalfCycles - 1
  <2>1. c * MaxLsb < HalfCycles * MaxLsb
    BY <1>1, Constants DEF Int32, Int32Min
  <2>. QED
    BY <2>1, Constants
<1>3. - HalfCycles <= c
  <2>1. - (HalfCycles * MaxLsb) <= c * MaxLsb + lsb
    BY <1>1, Constants DEF Int32, Int32Min
  <2>2. - ((HalfCycles + 1) * MaxLsb) < c * MaxLsb
    BY <2>1, <1>1, Constants
  <2>3. - (HalfCycles + 1) < c
    BY <2>2, Constants
  <2>. QED
    BY <2>3, Constants
<1>. QED
  BY <1>2, <1>3, Constants DEF Cycles

-----------------------------------------------------------------------------
(* What the tracker's operators return, whatever the picture.              *)

(* The derived MSB is a 32-bit value if a transmitted one is.              *)
LEMMA PocMsbType ==
  ASSUME NEW t \in Tracker, NEW h \in Picture, t.msb \in Int32,
         h.cycle # NoCycle => h.cycle * MaxLsb \in Int32
  PROVE  PocMsb(t, h, MaxLsb) \in Int32
<1>1. ASSUME NEW v \in Int PROVE Saturate(v) \in Int32
  BY Constants DEF Saturate, Int32, Int32Min
<1>2. t.msb + MsbStep(t.lsb, h.lsb, MaxLsb) \in Int
  <2>1. t.msb \in Int /\ t.lsb \in Int /\ h.lsb \in Int
    BY Constants DEF Tracker, Picture, Lsbs, Int32, Int32Min
  <2>2. MsbStep(t.lsb, h.lsb, MaxLsb) \in {0, MaxLsb, - MaxLsb}
    BY Zenon DEF MsbStep
  <2>. QED
    BY <2>1, <2>2, Constants
<1>. QED
  BY <1>1, <1>2, Constants DEF PocMsb

(* Deriving a second time from the tracker the first call left yields the  *)
(* same order count and the same tracker.                                  *)
LEMMA DeriveTwice ==
  ASSUME NEW t \in Tracker, t.msb \in Int32, NEW h \in Picture,
         h.cycle # NoCycle => h.cycle * MaxLsb \in Int32
  PROVE  LET u == Advanced(t, h, MaxLsb)
         IN /\ Derived(u, h, MaxLsb) = Derived(t, h, MaxLsb)
            /\ Advanced(u, h, MaxLsb) = u
<1> DEFINE u == Advanced(t, h, MaxLsb)
           m == PocMsb(t, h, MaxLsb)
<1>1. CASE ~ BecomesPrevious(h)
  BY <1>1 DEF Advanced
<1>2. CASE BecomesPrevious(h)
  <2>1. u = [valid |-> TRUE, msb |-> m, lsb |-> h.lsb]
    BY <1>2 DEF Advanced
  <2>2. m \in Int32
    BY PocMsbType
  <2>3. PocMsb(u, h, MaxLsb) = m
    <3>1. CASE h.cycle # NoCycle \/ IsClvss(h)
      BY <3>1 DEF PocMsb
    <3>2. CASE h.cycle = NoCycle /\ ~ IsClvss(h)
      <4> HIDE DEF m
      <4>1. MsbStep(h.lsb, h.lsb, MaxLsb) = 0
        BY Constants DEF MsbStep, Picture, Lsbs
      <4>2. Saturate(m + 0) = m
        BY <2>2, Constants DEF Saturate, Int32, Int32Min
      <4>3. MaxLsb # 0
        BY Constants
      <4>. QED
        BY <2>1, <3>2, <4>1, <4>2, <4>3 DEF PocMsb
    <3>. QED
      BY <3>1, <3>2
  <2>. QED
    BY <1>2, <2>1, <2>3 DEF Derived, Advanced
<1>. QED
  BY <1>1, <1>2

(* The headers the encoder writes for a picture in period q.               *)
LEMMA HeaderFacts ==
  ASSUME NEW q \in Cycles, NEW lsb \in Lsbs, NEW h \in Headers(q, lsb)
  PROVE  /\ h \in Picture /\ h.lsb = lsb
         /\ h.cycle # NoCycle => h.cycle = q /\ h.cycle * MaxLsb \in Int32
         /\ MayStart(h) => IsClvss(h) /\ IsAnchor(h)
         /\ h.cycle = NoCycle /\ ~ MayStart(h) => ~ IsClvss(h)
         /\ IsAnchor(h) <=> BecomesPrevious(h)
<1>1. h \in Picture /\ h.lsb = lsb
  BY Constants DEF Headers, Picture, TrailingTypes, LeadingTypes, IdrTypes,
                   RandomAccessTypes
<1>2. h.cycle # NoCycle => h.cycle = q /\ h.cycle * MaxLsb \in Int32
  BY CyclesFit DEF Headers
<1>3. IsAnchor(h) <=> BecomesPrevious(h)
  BY DEF IsAnchor, BecomesPrevious, LeadingTypes
<1>4. MayStart(h) => IsClvss(h) /\ IsAnchor(h)
  BY DEF Headers, MayStart, IsClvss, IsAnchor, LeadingTypes, IdrTypes,
         RandomAccessTypes
<1>5. ~ MayStart(h) => ~ IsClvss(h)
  BY DEF Headers, MayStart, IsClvss, TrailingTypes, LeadingTypes, IdrTypes,
         RandomAccessTypes
<1>. QED
  BY <1>1, <1>2, <1>3, <1>4, <1>5

-----------------------------------------------------------------------------
(* What one call of derive() leaves behind, whatever the picture.          *)
LEMMA DeliverTypes ==
  ASSUME TypeOK, NEW h \in Picture, Deliver(h),
         h.cycle # NoCycle => h.cycle * MaxLsb \in Int32,
         PocMsb(tracker, h, MaxLsb) + h.lsb \in Int32,
         started' \in BOOLEAN, poc' \in Int, anchor' \in Int, skew' \in Int
  PROVE  TypeOK' /\ Settled'
<1>1. tracker \in Tracker /\ tracker.msb \in Int32
  BY Constants DEF TypeOK, Tracker
<1>2. PocMsb(tracker, h, MaxLsb) \in Int32
  BY <1>1, PocMsbType
<1>3. tracker' \in [valid : BOOLEAN, msb : Int32, lsb : Lsbs]
  BY <1>2 DEF Deliver, Advanced, TypeOK, Picture
<1>4. derived' \in Int32 /\ pic' = h
  BY DEF Deliver, Derived
<1>5. /\ Derived(tracker', h, MaxLsb) = derived'
      /\ Advanced(tracker', h, MaxLsb) = tracker'
  BY <1>1, DeriveTwice DEF Deliver
<1>. QED
  BY <1>3, <1>4, <1>5 DEF TypeOK, Settled

(* A picture the encoder's constraints allow is put where it belongs: the  *)
(* MSB is rebuilt exactly, and nothing is clamped.                         *)
LEMMA OnTimeline ==
  ASSUME TypeOK, TrackerHoldsAnchor, started,
         NEW h \in Picture, h.cycle = NoCycle, ~ IsClvss(h), NEW q \in Int,
         Identifiable(q * MaxLsb + h.lsb),
         q * MaxLsb + h.lsb + skew \in Int32
  PROVE  /\ PocMsb(tracker, h, MaxLsb) = q * MaxLsb + skew
         /\ ((q * MaxLsb + skew) % MaxLsb) = 0
<1>1. /\ tracker.msb \in Int /\ tracker.lsb \in Lsbs /\ skew \in Int
      /\ anchor \in Int /\ h.lsb \in Lsbs /\ tracker.lsb \in Int
      /\ h.lsb \in Int /\ q * MaxLsb \in Int
  BY Constants DEF TypeOK, Picture, Int32, Int32Min, Lsbs
<1>2. /\ tracker.valid
      /\ tracker.msb + tracker.lsb = anchor + skew
      /\ (tracker.msb % MaxLsb) = 0 /\ (skew % MaxLsb) = 0
  BY DEF TrackerHoldsAnchor
<1>3. PICK k \in Int : tracker.msb = k * MaxLsb
  BY <1>1, <1>2, Constants, Multiples
<1>4. PICK j \in Int : skew = j * MaxLsb
  BY <1>1, <1>2, Constants, Multiples
<1>5. /\ (q + j) * MaxLsb = q * MaxLsb + skew
      /\ (q + j - k) * MaxLsb = q * MaxLsb + skew - tracker.msb
  BY <1>3, <1>4, Constants
<1>6. PICK c \in Int, n \in Int :
        /\ c * MaxLsb = q * MaxLsb + skew
        /\ n * MaxLsb = q * MaxLsb + skew - tracker.msb
  BY <1>5
<1>7. MsbStep(tracker.lsb, h.lsb, MaxLsb) = n * MaxLsb
  <2>1. n * MaxLsb \in Int
    BY Constants
  <2>2. q * MaxLsb + h.lsb - anchor = n * MaxLsb + h.lsb - tracker.lsb
    <3>1. anchor = tracker.msb + tracker.lsb - skew
      BY <1>1, <1>2
    <3>2. q * MaxLsb = n * MaxLsb - skew + tracker.msb
      BY <1>1, <1>6, <2>1
    <3>. QED
      BY <1>1, <2>1, <3>1, <3>2
  <2>3. /\ 2 * (n * MaxLsb + h.lsb - tracker.lsb) > - MaxLsb
        /\ 2 * (n * MaxLsb + h.lsb - tracker.lsb) <= MaxLsb
    BY <2>1, <2>2, <1>1, Constants DEF Identifiable
  <2>. QED
    BY <2>3, <1>1, StepIsDistance
<1>8. PocMsb(tracker, h, MaxLsb) = q * MaxLsb + skew
  <2>1. c * MaxLsb \in Int32
    <3>1. c * MaxLsb + h.lsb = q * MaxLsb + h.lsb + skew
      BY <1>1, <1>6
    <3>2. c \in Cycles
      BY <3>1, <1>1, InRangeMeansCycle
    <3>. QED
      BY <3>2, <1>1, CyclesFit
  <2>2. tracker.msb + MsbStep(tracker.lsb, h.lsb, MaxLsb) = q * MaxLsb + skew
    BY <1>1, <1>6, <1>7
  <2>3. Saturate(q * MaxLsb + skew) = q * MaxLsb + skew
    BY <2>1, <1>6, Constants DEF Saturate, Int32, Int32Min
  <2>. QED
    BY <2>2, <2>3, <1>2, Constants DEF PocMsb
<1>. QED
  BY <1>6, <1>8, Constants, Multiples

-----------------------------------------------------------------------------
(* The tracker and its user start from the same place.                     *)
LEMMA InvInit == Init => IInv
<1>. SUFFICES ASSUME Init PROVE IInv
  OBVIOUS
<1>1. NoPrevious \in [valid : BOOLEAN, msb : Int32, lsb : Lsbs]
  BY Constants DEF NoPrevious
<1>2. NoPicture \in Picture
  BY Constants DEF NoPicture, Picture
<1>3. TypeOK
  <2>1. started \in BOOLEAN
    BY Zenon DEF Init
  <2>2. tracker = NoPrevious /\ pic = NoPicture
    BY DEF Init
  <2>3. derived \in Int32 /\ poc \in Int /\ anchor \in Int /\ skew \in Int
    BY Constants DEF Init
  <2>. QED
    BY <1>1, <1>2, <2>1, <2>2, <2>3 DEF TypeOK
<1>. QED
  BY <1>3 DEF Init, IInv, DerivedFollowsTimeline, TrackerHoldsAnchor, Settled

(* The first picture of a stream joined in the middle gets the MSB its     *)
(* header states, or 0; the skew is what that is off.                      *)
LEMMA InvTuneIn ==
  ASSUME IInv, NEW q \in Cycles, NEW lsb \in Lsbs, NEW h \in Headers(q, lsb),
         TuneIn(h, q)
  PROVE  IInv'
<1>1. /\ h \in Picture /\ h.lsb = lsb /\ BecomesPrevious(h)
      /\ h.cycle # NoCycle => h.cycle = q /\ h.cycle * MaxLsb \in Int32
  BY HeaderFacts DEF TuneIn
<1>2. q \in Int /\ q * MaxLsb \in Int /\ lsb \in Int /\ lsb \in Int32
  <2>1. 0 \in Cycles
    BY Constants DEF Cycles
  <2>2. 0 * MaxLsb + lsb \in Int32
    BY <2>1, CyclesFit
  <2>. QED
    BY <2>2, Constants
<1>3. PICK m \in {0, q} : PocMsb(tracker, h, MaxLsb) = m * MaxLsb
  <2>1. CASE h.cycle # NoCycle
    BY <2>1, <1>1 DEF PocMsb
  <2>2. CASE h.cycle = NoCycle
    <3>1. PocMsb(tracker, h, MaxLsb) = 0
      BY <2>2 DEF PocMsb, IInv, TuneIn, NoPrevious
    <3>2. 0 * MaxLsb = 0
      BY Constants
    <3>. QED
      BY <3>1, <3>2
  <2>. QED
    BY <2>1, <2>2
<1>4. m \in Cycles /\ m \in Int /\ m * MaxLsb \in Int
  BY <1>2, Constants DEF Cycles
<1>5. /\ derived' = m * MaxLsb + lsb
      /\ tracker' = [valid |-> TRUE, msb |-> m * MaxLsb, lsb |-> lsb]
      /\ pic' = h /\ started' = TRUE
      /\ poc' = q * MaxLsb + lsb /\ anchor' = q * MaxLsb + lsb
      /\ skew' = m * MaxLsb - q * MaxLsb
  <2>1. /\ derived' = m * MaxLsb + lsb
        /\ tracker' = [valid |-> TRUE, msb |-> m * MaxLsb, lsb |-> lsb]
        /\ pic' = h
    BY <1>1, <1>3 DEF TuneIn, Deliver, Derived, Advanced
  <2>2. /\ started' = TRUE /\ poc' = q * MaxLsb + lsb
        /\ anchor' = q * MaxLsb + lsb /\ skew' = derived' - poc'
    BY <1>1 DEF TuneIn
  <2>. QED
    BY <2>1, <2>2, <1>2, <1>4
<1>6. TypeOK' /\ Settled'
  <2>1. PocMsb(tracker, h, MaxLsb) + h.lsb \in Int32
    BY <1>1, <1>3, <1>4, CyclesFit
  <2>2. poc' \in Int /\ anchor' \in Int /\ skew' \in Int /\ started' \in BOOLEAN
    BY <1>2, <1>4, <1>5
  <2>. QED
    BY <1>1, <2>1, <2>2, DeliverTypes DEF IInv, TuneIn
<1>7. /\ ((m * MaxLsb) % MaxLsb) = 0 /\ (skew' % MaxLsb) = 0
  <2>1. (m - q) * MaxLsb = m * MaxLsb - q * MaxLsb /\ m - q \in Int
    BY <1>2, <1>4, Constants
  <2>. QED
    BY <2>1, <1>4, <1>5, Constants, Multiples
<1>8. DerivedFollowsTimeline'
  <2>1. CASE h.cycle = NoCycle
    BY <2>1, <1>2, <1>4, <1>5 DEF DerivedFollowsTimeline
  <2>2. CASE h.cycle # NoCycle
    <3>1. m * MaxLsb = q * MaxLsb
      BY <2>2, <1>1, <1>3 DEF PocMsb
    <3>. QED
      BY <2>2, <3>1, <1>5, <1>2 DEF DerivedFollowsTimeline
  <2>. QED
    BY <2>1, <2>2
<1>9. TrackerHoldsAnchor'
  BY <1>2, <1>4, <1>5, <1>7 DEF TrackerHoldsAnchor
<1>. QED
  BY <1>5, <1>6, <1>8, <1>9 DEF IInv

(* A coded layer video sequence starts where its first header says, or at  *)
(* zero: the tracker is back on the true time line.                        *)
LEMMA InvSequenceStart ==
  ASSUME IInv, NEW q \in Cycles, NEW lsb \in Lsbs, NEW h \in Headers(q, lsb),
         SequenceStart(h, q)
  PROVE  IInv'
<1>1. /\ h \in Picture /\ h.lsb = lsb /\ BecomesPrevious(h) /\ IsClvss(h)
      /\ h.cycle # NoCycle => h.cycle = q /\ h.cycle * MaxLsb \in Int32
  BY HeaderFacts DEF SequenceStart
<1>2. q \in Int /\ q * MaxLsb \in Int /\ lsb \in Int
  BY Constants
<1>3. PocMsb(tracker, h, MaxLsb) = q * MaxLsb
  <2>1. CASE h.cycle # NoCycle
    BY <2>1, <1>1 DEF PocMsb
  <2>2. CASE h.cycle = NoCycle
    <3>1. q = 0 /\ 0 * MaxLsb = 0
      BY <2>2, Constants DEF SequenceStart
    <3>. QED
      BY <2>2, <3>1, <1>1 DEF PocMsb
  <2>. QED
    BY <2>1, <2>2
<1>4. /\ derived' = q * MaxLsb + lsb
      /\ tracker' = [valid |-> TRUE, msb |-> q * MaxLsb, lsb |-> lsb]
      /\ pic' = h /\ started' = TRUE /\ skew' = 0
      /\ poc' = q * MaxLsb + lsb /\ anchor' = q * MaxLsb + lsb
  BY <1>1, <1>3 DEF SequenceStart, Deliver, Derived, Advanced
<1>5. TypeOK' /\ Settled'
  <2>1. PocMsb(tracker, h, MaxLsb) + h.lsb \in Int32
    BY <1>1, <1>3, CyclesFit
  <2>2. poc' \in Int /\ anchor' \in Int /\ skew' \in Int /\ started' \in BOOLEAN
    BY <1>2, <1>4
  <2>. QED
    BY <1>1, <2>1, <2>2, DeliverTypes DEF IInv, SequenceStart
<1>6. ((q * MaxLsb) % MaxLsb) = 0 /\ (0 % MaxLsb) = 0
  BY <1>2, Constants, Multiples
<1>7. DerivedFollowsTimeline' /\ TrackerHoldsAnchor'
  BY <1>2, <1>4, <1>6 DEF DerivedFollowsTimeline, TrackerHoldsAnchor
<1>. QED
  BY <1>4, <1>5, <1>7 DEF IInv

(* Any other picture: one that states its cycle is put there, and ends the *)
(* skew if it becomes the anchor; one that does not is put where its LSB   *)
(* identifies it.                                                          *)
LEMMA InvCodedPicture ==
  ASSUME IInv, NEW q \in Cycles, NEW lsb \in Lsbs, NEW h \in Headers(q, lsb),
         CodedPicture(h, q)
  PROVE  IInv'
<1> DEFINE p == q * MaxLsb + lsb
           off == IF h.cycle = NoCycle THEN skew ELSE 0
<1>1. /\ h \in Picture /\ h.lsb = lsb
      /\ h.cycle # NoCycle => h.cycle = q /\ h.cycle * MaxLsb \in Int32
      /\ h.cycle = NoCycle => ~ IsClvss(h)
      /\ IsAnchor(h) <=> BecomesPrevious(h)
  BY HeaderFacts DEF CodedPicture
<1>2. /\ q \in Int /\ q * MaxLsb \in Int /\ lsb \in Int /\ anchor \in Int
      /\ skew \in Int /\ p \in Int /\ off \in Int
  BY Constants DEF IInv, TypeOK
<1>3. /\ started = TRUE /\ Deliver(h) /\ Identifiable(p)
      /\ h.cycle = NoCycle => p + skew \in Int32
      /\ poc' = p
      /\ anchor' = (IF IsAnchor(h) THEN p ELSE anchor)
      /\ skew' = (IF IsAnchor(h) /\ h.cycle # NoCycle THEN 0 ELSE skew)
      /\ started' = started
  BY <1>1 DEF CodedPicture, IInv, TypeOK
<1>4. /\ PocMsb(tracker, h, MaxLsb) = q * MaxLsb + off
      /\ ((q * MaxLsb + off) % MaxLsb) = 0
  <2>1. CASE h.cycle = NoCycle
    <3>1. p + skew = q * MaxLsb + h.lsb + skew
      BY <1>1
    <3>. QED
      BY <2>1, <3>1, <1>1, <1>2, <1>3, OnTimeline DEF IInv
  <2>2. CASE h.cycle # NoCycle
    <3>1. ((q * MaxLsb) % MaxLsb) = 0
      BY <1>2, Constants, Multiples
    <3>. QED
      BY <2>2, <3>1, <1>1, <1>2 DEF PocMsb
  <2>. QED
    BY <2>1, <2>2
<1>5. /\ derived' = p + off /\ pic' = h
      /\ tracker' = IF IsAnchor(h)
                    THEN [valid |-> TRUE, msb |-> q * MaxLsb + off, lsb |-> lsb]
                    ELSE tracker
  <2>1. derived' = q * MaxLsb + off + lsb /\ pic' = h
    BY <1>1, <1>3, <1>4 DEF Deliver, Derived
  <2>2. tracker' = IF IsAnchor(h)
                   THEN [valid |-> TRUE, msb |-> q * MaxLsb + off, lsb |-> lsb]
                   ELSE tracker
    BY <1>1, <1>3, <1>4 DEF Deliver, Advanced
  <2>3. q * MaxLsb + off + lsb = p + off
    BY <1>2
  <2>. QED
    BY <2>1, <2>2, <2>3
<1>6. TypeOK' /\ Settled'
  <2>1. PocMsb(tracker, h, MaxLsb) + h.lsb \in Int32
    <3>1. p + off \in Int32
      BY <1>2, <1>3, CyclesFit
    <3>2. PocMsb(tracker, h, MaxLsb) + h.lsb = p + off
      BY <1>1, <1>2, <1>4
    <3>. QED
      BY <3>1, <3>2
  <2>2. poc' \in Int /\ anchor' \in Int /\ skew' \in Int /\ started' \in BOOLEAN
    BY <1>2, <1>3
  <2>. QED
    BY <1>1, <1>3, <2>1, <2>2, DeliverTypes DEF IInv
<1>7. DerivedFollowsTimeline'
  BY <1>2, <1>3, <1>5 DEF DerivedFollowsTimeline
<1>8. TrackerHoldsAnchor'
  <2>1. CASE IsAnchor(h)
    <3>1. skew' = off /\ (skew' % MaxLsb) = 0
      <4>1. (skew % MaxLsb) = 0 /\ (0 % MaxLsb) = 0
        BY <1>3, Constants DEF IInv, TrackerHoldsAnchor
      <4>. QED
        BY <2>1, <1>3, <4>1
    <3>. QED
      BY <2>1, <3>1, <1>2, <1>3, <1>4, <1>5 DEF TrackerHoldsAnchor
  <2>2. CASE ~ IsAnchor(h)
    BY <2>2, <1>3, <1>5 DEF IInv, TrackerHoldsAnchor
  <2>. QED
    BY <2>1, <2>2
<1>. QED
  BY <1>3, <1>6, <1>7, <1>8 DEF IInv

(* Every step of the tracker and its user preserves the invariant.         *)
LEMMA InvNext == IInv /\ [Next]_vars => IInv'
<1>. SUFFICES ASSUME IInv, [Next]_vars PROVE IInv'
  OBVIOUS
<1>1. ASSUME NEW q \in Cycles, NEW lsb \in Lsbs, NEW h \in Headers(q, lsb),
             TuneIn(h, q) \/ SequenceStart(h, q) \/ CodedPicture(h, q)
      PROVE  IInv'
  BY <1>1, InvTuneIn, InvSequenceStart, InvCodedPicture
<1>2. CASE RepeatSlice
  <2>1. tracker' = tracker /\ derived' = derived /\ pic' = pic
    BY <1>2 DEF IInv, Settled, RepeatSlice, Deliver
  <2>. QED
    BY <1>2, <2>1
    DEF IInv, TypeOK, DerivedFollowsTimeline, TrackerHoldsAnchor, Settled,
        RepeatSlice, encoder
<1>3. CASE Clear
  <2>1. Init'
    BY <1>3 DEF Clear, Init
  <2>2. (Init => IInv)'
    BY InvInit, PTL
  <2>. QED
    BY <2>1, <2>2
<1>4. CASE UNCHANGED vars
  BY <1>4
  DEF IInv, TypeOK, DerivedFollowsTimeline, TrackerHoldsAnchor, Settled, vars
<1>. QED
  BY <1>1, <1>2, <1>3, <1>4 DEF Next

(* The invariant holds of every behaviour.                                 *)
THEOREM Invariant == Spec => []IInv
BY InvInit, InvNext, PTL DEF Spec

(* Every member the tracker stores and every value derive() returns is a   *)
(* 32-bit one, and the LSB it keeps is below MaxPicOrderCntLsb.            *)
THEOREM TypeCorrect == Spec => []TypeOK
<1>1. IInv => TypeOK
  BY DEF IInv
<1>. QED
  BY <1>1, Invariant, PTL

(* derived_poc is the true order count moved by the skew, and the true one *)
(* where the picture header states the MSB cycle.                          *)
THEOREM FollowsTimeline == Spec => []DerivedFollowsTimeline
<1>1. IInv => DerivedFollowsTimeline
  BY DEF IInv
<1>. QED
  BY <1>1, Invariant, PTL

(* The members the tracker keeps identify the encoder's prevTid0Pic.       *)
THEOREM HoldsAnchor == Spec => []TrackerHoldsAnchor
<1>1. IInv => TrackerHoldsAnchor
  BY DEF IInv
<1>. QED
  BY <1>1, Invariant, PTL

(* Deriving from a further slice of the same picture changes neither the   *)
(* order count nor the tracker.                                            *)
THEOREM Idempotence == Spec => RepeatedSliceIsIdempotent
<1>1. IInv /\ [Next]_vars => [RepeatSlice => UNCHANGED <<tracker, derived>>]_vars
  BY DEF IInv, Settled, RepeatSlice, Deliver
<1>. QED
  BY <1>1, Invariant, PTL DEF Spec, RepeatedSliceIsIdempotent

-----------------------------------------------------------------------------
(* The abstract anchor is the encoder's.                                   *)
LEMMA MappedAnchor ==
  ASSUME IInv, started
  PROVE  tracker.msb + tracker.lsb - skew = anchor
<1>1. /\ tracker.msb \in Int /\ tracker.lsb \in Int
      /\ anchor \in Int /\ skew \in Int
  BY Constants DEF IInv, TypeOK, Int32, Int32Min, Lsbs
<1>2. tracker.msb + tracker.lsb = anchor + skew
  BY DEF IInv, TrackerHoldsAnchor
<1>. QED
  BY <1>1, <1>2

(* Every step of the tracker is a step of PictureOrder, or a stutter: a    *)
(* picture that states its cycle is one whose order count is Stated.       *)
LEMMA StepSimulation ==
  ASSUME IInv, IInv', [Next]_vars
  PROVE  [Abstract!Next]_(Abstract!vars)
<1> DEFINE A == IF started THEN tracker.msb + tracker.lsb - skew ELSE 0
<1>1. /\ poc' \in Int /\ skew' \in Int /\ skew \in Int
      /\ started' => (skew' % MaxLsb) = 0
      /\ started' =>
           derived' = poc' + (IF pic'.cycle = NoCycle THEN skew' ELSE 0)
  BY DEF IInv, TypeOK, DerivedFollowsTimeline, TrackerHoldsAnchor
<1>2. started => A = anchor
  BY MappedAnchor
<1>3. started' => A' = anchor'
  <2>1. (IInv /\ started => tracker.msb + tracker.lsb - skew = anchor)'
    BY MappedAnchor, PTL
  <2>. QED
    BY <2>1
<1>4. ASSUME NEW q \in Cycles, NEW lsb \in Lsbs, NEW h \in Headers(q, lsb),
             TuneIn(h, q)
      PROVE  Abstract!Join
  <2>1. /\ started' = TRUE /\ anchor' = poc' /\ skew' = derived' - poc'
        /\ derived' \in Int
    BY <1>4, Constants DEF TuneIn, IInv, TypeOK, Int32, Int32Min
  <2>2. derived' = poc' + skew'
    <3>. DEFINE d == derived'  p == poc'  s == skew'
    <3>1. d \in Int /\ p \in Int /\ s = d - p
      BY <2>1, <1>1
    <3>. HIDE DEF d, p, s
    <3>2. d = p + s
      BY <3>1
    <3>. QED
      BY <3>2 DEF d, p, s
  <2>. QED
    BY <2>1, <2>2, <1>1, <1>3 DEF Abstract!Join
<1>5. ASSUME NEW q \in Cycles, NEW lsb \in Lsbs, NEW h \in Headers(q, lsb),
             SequenceStart(h, q)
      PROVE  Abstract!Join
  <2>1. started' = TRUE /\ anchor' = poc' /\ skew' = 0
    BY <1>5 DEF SequenceStart
  <2>2. derived' = poc' + skew'
    BY <2>1, <1>1
  <2>. QED
    BY <2>1, <2>2, <1>1, <1>3 DEF Abstract!Join
<1>6. ASSUME NEW q \in Cycles, NEW lsb \in Lsbs, NEW h \in Headers(q, lsb),
             CodedPicture(h, q)
      PROVE  Abstract!Picture \/ Abstract!Stated
  <2>1. /\ started /\ started' = started /\ pic' = h /\ h.lsb = lsb
        /\ poc' = q * MaxLsb + lsb /\ Identifiable(poc')
        /\ anchor' = (IF IsAnchor(h) THEN poc' ELSE anchor)
        /\ skew' = (IF IsAnchor(h) /\ h.cycle # NoCycle THEN 0 ELSE skew)
    BY <1>6, HeaderFacts DEF CodedPicture, Deliver
  <2>2. CASE h.cycle = NoCycle
    <3>1. skew' = skew /\ derived' = poc' + skew /\ A' \in {poc', A}
      BY <2>1, <2>2, <1>1, <1>2, <1>3
    <3>. QED
      BY <2>1, <3>1, <1>1, <1>2
      DEF Identifiable, Abstract!Picture, Abstract!Identifiable
  <2>3. CASE h.cycle # NoCycle
    <3>1. derived' = poc'
      BY <2>1, <2>3, <1>1
    <3>2. \/ A' = poc' /\ skew' = 0
          \/ A' = A /\ skew' = skew
      BY <2>1, <2>3, <1>2, <1>3
    <3>. QED
      BY <2>1, <3>1, <3>2, <1>1 DEF Abstract!Stated
  <2>. QED
    BY <2>2, <2>3
<1>7. CASE RepeatSlice
  <2>1. tracker' = tracker /\ derived' = derived
    BY <1>7 DEF IInv, Settled, RepeatSlice, Deliver
  <2>. QED
    BY <1>7, <2>1 DEF RepeatSlice, encoder, Abstract!vars
<1>8. CASE Clear
  BY <1>8 DEF Clear, Abstract!Next, Abstract!Stop
<1>9. CASE UNCHANGED vars
  BY <1>9 DEF vars, Abstract!vars
<1>. QED
  BY <1>4, <1>5, <1>6, <1>7, <1>8, <1>9 DEF Next, Abstract!Next

(* The VVC tracker implements the promise common to all codecs.            *)
THEOREM Refinement == Spec => ImplementsPictureOrder
<1>1. Init => Abstract!Init
  BY DEF Init, Abstract!Init
<1>2. IInv /\ IInv' /\ [Next]_vars => [Abstract!Next]_(Abstract!vars)
  BY StepSimulation
<1>. QED
  BY <1>1, <1>2, Invariant, PTL DEF Spec, ImplementsPictureOrder, Abstract!Spec
=============================================================================
