------------------------- MODULE StateDispatchProofs -------------------------
(***************************************************************************)
(* Proofs about an AVC, AV1, VP9 or VP8 State: for every stream, every way *)
(* of cutting it into calls, every choice of handlers and every exception  *)
(* they throw, every array length and every content of the sets.           *)
(***************************************************************************)
EXTENDS StateDispatch, TLAPS

-----------------------------------------------------------------------------
(* The AVC tracker, for any sequence of slices.                            *)

(* It stays a tracker.                                                     *)
LEMMA AdvancedType ==
  ASSUME NEW p \in Prev, NEW s \in Sps, NEW h \in SliceHeader
  PROVE  Advanced(p, s, h) \in Prev
<1>1. /\ p.frameNum \in Nat /\ p.frameNumOffset \in Int /\ p.msb \in Int
      /\ p.lsb \in Nat /\ s.maxLsb \in Nat /\ s.maxFrameNum \in Nat
      /\ h.frameNum \in Nat /\ h.lsb \in Nat
  BY DEF Prev, Sps, SliceHeader
<1>2. PocMsb(p, s, h) \in Int
  <2>1. PocMsb(p, s, h) \in {p.msb, p.msb + s.maxLsb, p.msb - s.maxLsb}
    BY Zenon DEF PocMsb
  <2>. QED
    BY <1>1, <2>1
<1>3. FrameNumOffset(p, s, h) \in Int
  BY <1>1 DEF FrameNumOffset
<1>4. ASSUME NEW i \in Int, NEW n \in Nat
      PROVE  /\ [p EXCEPT !.msb = i, !.lsb = n] \in Prev
             /\ [p EXCEPT !.frameNum = n, !.frameNumOffset = i] \in Prev
  BY DEF Prev
<1>5. NoPrevious \in Prev
  BY DEF NoPrevious, Prev
<1>6. [p EXCEPT !.msb = PocMsb(p, s, h), !.lsb = h.lsb] \in Prev
  BY <1>1, <1>2, <1>4, Zenon
<1>7. [p EXCEPT !.frameNum = h.frameNum,
               !.frameNumOffset = FrameNumOffset(p, s, h)] \in Prev
  BY <1>1, <1>3, <1>4, Zenon
<1>. QED
  BY <1>5, <1>6, <1>7, Zenon DEF Advanced

(* After an IDR picture it is where it is whatever it was before, and so   *)
(* is the order count.                                                     *)
LEMMA IdrForgets ==
  ASSUME NEW p, NEW q, NEW s, NEW h, h.idr
  PROVE  /\ Advanced(p, s, h) = Advanced(q, s, h)
         /\ Derived(p, s, h) = Derived(q, s, h)
BY DEF Advanced, Derived

-----------------------------------------------------------------------------
(* The AVC parameter-set manager.                                          *)

(* What the limits say, in the form the proofs need.                       *)
LEMMA Limits ==
  /\ MaxSps \in Nat /\ MaxPps \in Nat /\ MaxSps > 0 /\ MaxPps > 0
  /\ IdByte \in Nat /\ IdByte >= MaxPps /\ IdByte > 0
  /\ Sets \subseteq SpsRecord \union PpsRecord
  /\ NoSet \notin SpsRecord /\ NoSet \notin PpsRecord
BY LimitsAssumption, StreamAssumption, NoSetAssumption

(* Storing a set yields a manager.                                         *)
LEMMA StoreType ==
  ASSUME NEW m \in Manager, NEW set \in Sets
  PROVE  Store(m, set) \in Manager
<1>1. CASE set \in SpsRecord
  BY <1>1, Limits DEF Store, StoreSps, Manager, SpsRecord
<1>2. CASE set \in PpsRecord
  BY <1>2, Limits DEF Store, StorePps, Manager, PpsRecord
<1>. QED
  BY <1>1, <1>2, Limits

(* What is stored is found under its kind and id, and nothing else moves.  *)
LEMMA StoreFiles ==
  ASSUME NEW m \in Manager, NEW set \in Sets, InRange(set)
  PROVE  /\ \A i \in 0 .. MaxSps - 1 :
              Store(m, set).sps[i] =
                IF set.kind = "sps" /\ set.id = i THEN set ELSE m.sps[i]
         /\ \A i \in 0 .. MaxPps - 1 :
              Store(m, set).pps[i] =
                IF set.kind = "pps" /\ set.id = i THEN set ELSE m.pps[i]
<1>1. CASE set \in SpsRecord
  BY <1>1, Limits DEF Store, StoreSps, Manager, SpsRecord, InRange
<1>2. CASE set \in PpsRecord
  BY <1>2, Limits DEF Store, StorePps, Manager, PpsRecord, InRange
<1>. QED
  BY <1>1, <1>2, Limits

(* A set the manager has no room for changes nothing.                      *)
LEMMA StoreDrops ==
  ASSUME NEW m \in Manager, NEW set \in Sets, ~ InRange(set)
  PROVE  Store(m, set) = m
<1>1. CASE set \in SpsRecord
  BY <1>1 DEF Store, StoreSps, SpsRecord, InRange
<1>2. CASE set \in PpsRecord
  BY <1>2 DEF Store, StorePps, PpsRecord, InRange
<1>. QED
  BY <1>1, <1>2, Limits

-----------------------------------------------------------------------------
(* The manager and the listener.                                           *)

(* What a slice resolves to is what the listener wants it to be parsed     *)
(* with, and there is nothing else it could want.                          *)
LEMMA ResolveFindsWanted ==
  ASSUME IInv, NEW slice \in Slices
  PROVE  LET found == Resolve(manager, slice.pps % IdByte)
             fits == PpsIdFits(slice) /\ found.pps # NoSet
         IN /\ fits => found.sps \in SpsRecord
            /\ Wanted(slice) = IF fits THEN {<<found.pps, found.sps>>} ELSE {}
<1> DEFINE id == slice.pps % IdByte
           found == Resolve(manager, id)
           fits == PpsIdFits(slice) /\ found.pps # NoSet
<1>1. slice.pps \in Nat /\ id \in 0 .. IdByte - 1
      /\ (slice.pps < IdByte => id = slice.pps)
  BY Limits, StreamAssumption DEF SliceRecord
<1>2. /\ manager \in Manager /\ received \subseteq Sets
      /\ \A set \in received : InRange(set)
      /\ ManagerHoldsLatest
  BY DEF IInv, TypeOK
<1>3. /\ DOMAIN manager.sps = 0 .. MaxSps - 1
      /\ DOMAIN manager.pps = 0 .. MaxPps - 1
  BY <1>2 DEF Manager
<1>4. ASSUME fits
      PROVE  /\ found.sps \in SpsRecord
             /\ Wanted(slice) = {<<found.pps, found.sps>>}
  <2>1. /\ id < MaxPps /\ found.pps = manager.pps[id] /\ id = slice.pps
        /\ found.sps # NoSet
        /\ found.sps = FindSps(manager, found.pps.sps)
    BY <1>1, <1>4 DEF Resolve, FindPps, PpsIdFits
  <2>2. Latest("pps", id) = {found.pps}
    BY <1>1, <1>2, <1>3, <1>4, <2>1, Limits DEF ManagerHoldsLatest
  <2>3. found.pps \in PpsRecord
    <3>1. manager.pps \in [0 .. MaxPps - 1 -> PpsRecord \union {NoSet}]
      BY <1>2 DEF Manager
    <3>2. id \in 0 .. MaxPps - 1
      BY <1>1, <2>1, Limits
    <3>. QED
      BY <1>4, <2>1, <3>1, <3>2
  <2>4. found.pps.sps \in 0 .. MaxSps - 1
        /\ found.sps = manager.sps[found.pps.sps]
    BY <2>1, <2>3, Limits DEF FindSps, PpsRecord
  <2>5. Latest("sps", found.pps.sps) = {found.sps}
    BY <1>2, <1>3, <2>1, <2>4 DEF ManagerHoldsLatest
  <2>6. found.sps \in SpsRecord
    BY <1>2, <2>1, <2>4 DEF Manager
  <2> HIDE DEF found, id
  <2>7. ASSUME NEW pair \in received \X received
        PROVE  /\ pair[1] \in Latest("pps", slice.pps)
               /\ pair[2] \in Latest("sps", pair[1].sps)
               <=> pair = <<found.pps, found.sps>>
    <3>1. pair[1] \in Latest("pps", slice.pps) <=> pair[1] = found.pps
      BY <2>1, <2>2
    <3>2. pair[1] = found.pps =>
            (pair[2] \in Latest("sps", pair[1].sps) <=> pair[2] = found.sps)
      BY <2>5
    <3>3. pair = <<pair[1], pair[2]>>
      OBVIOUS
    <3>. QED
      BY <3>1, <3>2, <3>3
  <2>8. found.pps \in received /\ found.sps \in received
    BY <2>2, <2>5 DEF Latest
  <2>9. <<found.pps, found.sps>> \in received \X received
    BY <2>8
  <2>. QED
    BY <2>6, <2>7, <2>9 DEF Wanted
<1>5. ASSUME Wanted(slice) # {}
      PROVE  fits
  <2>1. PICK pair \in received \X received :
          /\ pair[1] \in Latest("pps", slice.pps)
          /\ pair[2] \in Latest("sps", pair[1].sps)
    BY <1>5 DEF Wanted
  <2>2. PICK pps \in received, sps \in received :
          /\ pps.kind = "pps" /\ pps.id = slice.pps
          /\ sps.kind = "sps" /\ sps.id = pps.sps
          /\ pps \in Latest("pps", slice.pps)
          /\ sps \in Latest("sps", pps.sps)
    BY <2>1 DEF Latest
  <2>3. pps \in PpsRecord /\ sps \in SpsRecord
    BY <1>2, <2>2, Limits DEF SpsRecord, PpsRecord
  <2>4. slice.pps < MaxPps /\ pps.sps < MaxSps
    BY <1>2, <2>2 DEF InRange
  <2>5. slice.pps < IdByte
    BY <1>1, <2>4, Limits
  <2>6. id = slice.pps /\ id \in DOMAIN manager.pps
        /\ pps.sps \in DOMAIN manager.sps
    <3>1. pps.sps \in Nat
      BY <2>3 DEF PpsRecord
    <3>. QED
      BY <1>1, <1>3, <2>4, <2>5, <3>1, Limits
  <2>7. manager.pps[id] = pps /\ manager.sps[pps.sps] = sps
    BY <1>2, <2>2, <2>6 DEF ManagerHoldsLatest
  <2>8. pps # NoSet /\ sps # NoSet
    BY <2>3, Limits
  <2>. QED
    BY <2>4, <2>5, <2>6, <2>7, <2>8 DEF Resolve, FindPps, FindSps, PpsIdFits
<1>. QED
  BY <1>4, <1>5

-----------------------------------------------------------------------------
(* The invariant holds initially and after clear().                        *)
LEMMA InvStart ==
  ASSUME manager = EmptyManager, tracker = NoPrevious, order = NoPrevious,
         received = {}, event = NoEvent, shown = NoEvent, listening = TRUE,
         sequence = NoSequence, codec \in Codecs,
         av1_seq \in Sequences \union {NoSequence},
         call \in Calls[codec] \union {NoCall},
         units \in 0 .. MaxChunk, parsed \in 0 .. units, frames \in 0 .. units,
         numbered \in -1 .. units - 1,
         codec = "Av1" => numbered < frames,
         codec \in {"Vp9", "Vp8"} => numbered < parsed
  PROVE  IInv
<1>1. NoPrevious \in Prev
  BY DEF NoPrevious, Prev
<1>2. EmptyManager \in Manager
  BY DEF EmptyManager, Manager
<1>3. TypeOK
  BY <1>1, <1>2 DEF TypeOK
<1>4. ManagerHoldsLatest
  BY DEF ManagerHoldsLatest, Latest, EmptyManager
<1>. QED
  BY <1>3, <1>4
  DEF IInv, TrackerFollowsListener, SlicesAreShownRight,
      FramesReadTheirSequence, NoEvent

LEMMA InvInit == Init => IInv
<1>. SUFFICES ASSUME Init PROVE IInv
  OBVIOUS
<1>1. /\ units \in 0 .. MaxChunk /\ parsed \in 0 .. units
      /\ frames \in 0 .. units /\ numbered \in -1 .. units - 1
      /\ numbered < frames /\ numbered < parsed
  BY StreamAssumption DEF Init
<1>. QED
  BY <1>1, InvStart DEF Init

(* A step that leaves the AVC members alone only has to look after the     *)
(* counters and the sequence header.                                       *)
LEMMA InvOutsideAvc ==
  ASSUME IInv, UNCHANGED <<codec, avc>>, shown' = NoEvent,
         event'.kind # "slice", FramesReadTheirSequence',
         av1_seq' \in Sequences \union {NoSequence},
         call' \in Calls[codec] \union {NoCall},
         units' \in 0 .. MaxChunk, parsed' \in 0 .. units',
         frames' \in 0 .. units', numbered' \in -1 .. units' - 1,
         sequence' # NoSequence => codec = "Av1" /\ av1_seq' = sequence',
         codec = "Av1" => numbered' < frames',
         codec \in {"Vp9", "Vp8"} => numbered' < parsed'
  PROVE  IInv'
<1>1. TypeOK'
  BY DEF IInv, TypeOK, avc
<1>2. ManagerHoldsLatest' /\ (\A set \in received : InRange(set))'
  BY DEF IInv, ManagerHoldsLatest, Latest, avc
<1>3. TrackerFollowsListener' /\ SlicesAreShownRight'
  BY DEF IInv, TrackerFollowsListener, SlicesAreShownRight, NoEvent, avc
<1>. QED
  BY <1>1, <1>2, <1>3 DEF IInv

(* The end of a loop body keeps the counters in order.                     *)
LEMMA UnitTypes ==
  ASSUME IInv, NEW counted \in BOOLEAN, Unit(counted)
  PROVE  /\ codec' = codec
         /\ call' \in Calls[codec] \union {NoCall}
         /\ units' \in 0 .. MaxChunk /\ parsed' \in 0 .. units'
         /\ frames \in 0 .. units' /\ frames + 1 \in 0 .. units'
         /\ numbered \in -1 .. units' - 1
         /\ frames \in -1 .. units' - 1 /\ parsed \in -1 .. units' - 1
         /\ parsed' = IF counted THEN parsed + 1 ELSE parsed
         /\ units \in Nat /\ parsed \in Nat /\ frames \in Nat
         /\ numbered \in Int
<1>1. /\ MaxChunk \in Nat /\ units \in 0 .. MaxChunk /\ units < MaxChunk
      /\ parsed \in 0 .. units /\ frames \in 0 .. units
      /\ numbered \in -1 .. units - 1
      /\ call \in Calls[codec] \union {NoCall}
  BY StreamAssumption DEF IInv, TypeOK, Unit
<1>2. /\ units' = units + 1 /\ codec' = codec /\ call' = call
      /\ parsed' = IF counted THEN parsed + 1 ELSE parsed
  BY DEF Unit
<1>. QED
  BY <1>1, <1>2

(* A unit that changes nothing but the counters.                           *)
LEMMA InvOtherUnit ==
  ASSUME IInv, NEW throws \in BOOLEAN, OtherUnit(throws)
  PROVE  IInv'
<1> DEFINE counted == ~ throws /\ (codec = "Av1" \/ "raw" \in call)
<1>1. counted \in BOOLEAN /\ Unit(counted)
  BY Zenon DEF OtherUnit
<1> HIDE DEF counted
<1>2. /\ UNCHANGED <<av1_seq, avc, frames, sequence, numbered>>
      /\ event' = NoEvent /\ shown' = NoEvent
  BY DEF OtherUnit
<1>3. av1_seq \in Sequences \union {NoSequence}
  BY DEF IInv, TypeOK
<1>4. FramesReadTheirSequence' /\ event'.kind # "slice"
  BY <1>2 DEF FramesReadTheirSequence, NoEvent
<1>5. /\ numbered \in Int /\ parsed \in Nat
      /\ codec \in {"Vp9", "Vp8"} => numbered < parsed
      /\ parsed' \in {parsed, parsed + 1}
  BY <1>1, UnitTypes DEF IInv
<1>6. codec \in {"Vp9", "Vp8"} => numbered < parsed'
  BY <1>5
<1>. QED
  BY <1>1, <1>2, <1>3, <1>4, <1>6, UnitTypes, InvOutsideAvc DEF IInv

-----------------------------------------------------------------------------
(* AVC.                                                                    *)

(* What a step of an AVC State leaves of the other codecs' invariants.     *)
LEMMA AvcUnitTypes ==
  ASSUME IInv, NEW throws \in BOOLEAN, AvcUnit(throws)
  PROVE  /\ codec' = codec /\ codec = "Avc"
         /\ call' \in Calls[codec'] \union {NoCall}
         /\ units' \in 0 .. MaxChunk /\ parsed' \in 0 .. units'
         /\ frames' \in 0 .. units' /\ numbered' \in -1 .. units' - 1
         /\ av1_seq' \in Sequences \union {NoSequence}
         /\ sequence' = NoSequence
<1> DEFINE counted == "raw" \in call /\ ~ throws
<1>1. counted \in BOOLEAN /\ Unit(counted)
  BY Zenon DEF AvcUnit
<1> HIDE DEF counted
<1>. QED
  BY <1>1, UnitTypes DEF AvcUnit, IInv, TypeOK

(* A parameter set replaces, for the manager and for the listener, the one *)
(* of its kind and id, and no other.                                       *)
LEMMA InvParameterSet ==
  ASSUME IInv, NEW set \in Sets, NEW throws \in BOOLEAN,
         ParameterSet(set, throws)
  PROVE  IInv'
<1>1. /\ manager \in Manager /\ received \subseteq Sets
      /\ \A s \in received : InRange(s)
      /\ ManagerHoldsLatest
  BY DEF IInv, TypeOK
<1>2. set.kind \in {"sps", "pps"} /\ set # NoSet
  BY Limits DEF SpsRecord, PpsRecord
<1>3. /\ codec' = codec /\ codec = "Avc"
      /\ call' \in Calls[codec'] \union {NoCall}
      /\ units' \in 0 .. MaxChunk /\ parsed' \in 0 .. units'
      /\ frames' \in 0 .. units' /\ numbered' \in -1 .. units' - 1
      /\ av1_seq' \in Sequences \union {NoSequence}
      /\ sequence' = NoSequence
  BY AvcUnitTypes DEF ParameterSet
<1>4. TypeOK'
  <2>1. manager' \in Manager
    BY <1>1, StoreType DEF ParameterSet
  <2>2. received' \subseteq Sets
    BY <1>1 DEF ParameterSet
  <2>. QED
    BY <1>3, <2>1, <2>2 DEF IInv, TypeOK, ParameterSet
<1>5. (\A s \in received : InRange(s))'
  BY <1>1 DEF ParameterSet, InRange
<1>6. ManagerHoldsLatest'
  <2>1. CASE ~ InRange(set)
    <3>1. manager' = manager /\ received' = received
      BY <1>1, <2>1, StoreDrops DEF ParameterSet
    <3>. QED
      BY <1>1, <3>1 DEF ManagerHoldsLatest, Latest
  <2>2. CASE InRange(set)
    <3>1. ASSUME NEW kind, NEW id
          PROVE  Latest(kind, id)' = IF set.kind = kind /\ set.id = id
                                     THEN {set} ELSE Latest(kind, id)
      BY <2>2 DEF ParameterSet, Latest
    <3>2. /\ \A i \in 0 .. MaxSps - 1 :
               manager'.sps[i] =
                 IF set.kind = "sps" /\ set.id = i THEN set ELSE manager.sps[i]
          /\ \A i \in 0 .. MaxPps - 1 :
               manager'.pps[i] =
                 IF set.kind = "pps" /\ set.id = i THEN set ELSE manager.pps[i]
      BY <1>1, <2>2, StoreFiles DEF ParameterSet
    <3>3. /\ DOMAIN manager'.sps = 0 .. MaxSps - 1
          /\ DOMAIN manager'.pps = 0 .. MaxPps - 1
          /\ DOMAIN manager.sps = 0 .. MaxSps - 1
          /\ DOMAIN manager.pps = 0 .. MaxPps - 1
      BY <1>1, <1>4 DEF Manager, TypeOK
    <3>4. ASSUME NEW i \in 0 .. MaxSps - 1
          PROVE  Latest("sps", i)' = {manager'.sps[i]} \ {NoSet}
      BY <1>1, <1>2, <3>1, <3>2, <3>3 DEF ManagerHoldsLatest
    <3>5. ASSUME NEW i \in 0 .. MaxPps - 1
          PROVE  Latest("pps", i)' = {manager'.pps[i]} \ {NoSet}
      BY <1>1, <1>2, <3>1, <3>2, <3>3 DEF ManagerHoldsLatest
    <3>. QED
      BY <3>3, <3>4, <3>5 DEF ManagerHoldsLatest
  <2>. QED
    BY <2>1, <2>2
<1>7. TrackerFollowsListener'
  BY DEF IInv, TrackerFollowsListener, ParameterSet
<1>8. SlicesAreShownRight' /\ FramesReadTheirSequence'
  BY <1>2, <1>3
  DEF SlicesAreShownRight, FramesReadTheirSequence, ParameterSet, NoEvent
<1>. QED
  BY <1>3, <1>4, <1>5, <1>6, <1>7, <1>8 DEF IInv

(* A slice takes both trackers the same way whenever the real one was in   *)
(* step or is put in step, and both are shown the same.                    *)
LEMMA InvSlice ==
  ASSUME IInv, NEW slice \in Slices, NEW throws \in BOOLEAN,
         Slice(slice, throws)
  PROVE  IInv'
<1> DEFINE found == Resolve(manager, slice.pps % IdByte)
           heard == Parses(slice, found)
           After(p) == Advanced(p, Contents[found.sps.content], slice.header)
           Shown(p) == AsShown(slice, found.pps, found.sps, p)
<1>1. slice.header \in SliceHeader /\ slice.wellFormed \in BOOLEAN
  BY StreamAssumption DEF SliceRecord
<1>2. LET fits == PpsIdFits(slice) /\ found.pps # NoSet
      IN /\ fits => found.sps \in SpsRecord
         /\ Wanted(slice) = IF fits THEN {<<found.pps, found.sps>>} ELSE {}
  BY ResolveFindsWanted
<1>3. heard => Contents[found.sps.content] \in Sps
  BY <1>2, LimitsAssumption DEF SpsRecord, Parses
<1>4. /\ codec' = codec /\ codec = "Avc"
      /\ call' \in Calls[codec'] \union {NoCall}
      /\ units' \in 0 .. MaxChunk /\ parsed' \in 0 .. units'
      /\ frames' \in 0 .. units' /\ numbered' \in -1 .. units' - 1
      /\ av1_seq' \in Sequences \union {NoSequence}
      /\ sequence' = NoSequence
  BY AvcUnitTypes DEF Slice
<1>5. IF heard THEN order' = After(order) /\ shown' = Shown(order)
      ELSE order' = order /\ shown' = NoEvent
  <2>1. CASE PpsIdFits(slice) /\ found.pps # NoSet
    <3> DEFINE pair == <<found.pps, found.sps>>
    <3>1. Wanted(slice) = {pair} /\ pair[1] = found.pps /\ pair[2] = found.sps
      BY <1>2, <2>1
    <3> HIDE DEF found
    <3>. QED
      BY <2>1, <3>1 DEF Slice, Listen, Parses
  <2>2. CASE ~ (PpsIdFits(slice) /\ found.pps # NoSet)
    BY <1>2, <2>2 DEF Slice, Listen, Parses
  <2>. QED
    BY <2>1, <2>2
<1>6. IF "slice" \in call /\ heard
      THEN tracker' = After(tracker) /\ event' = Shown(tracker)
      ELSE tracker' = tracker /\ event' = NoEvent
  BY DEF Slice
<1>7. /\ listening' = ("slice" \in call /\ (listening \/ Refreshes(slice)))
      /\ manager' = manager /\ received' = received
  BY DEF Slice
<1>8. Refreshes(slice) => /\ heard
                          /\ After(tracker) = After(order)
                          /\ Shown(tracker) = Shown(order)
  <2>1. ASSUME Refreshes(slice)
        PROVE  heard /\ slice.header.idr
    BY <1>2, <2>1 DEF Refreshes, Parses
  <2>2. slice.header.idr => /\ After(tracker) = After(order)
                            /\ Shown(tracker) = Shown(order)
    BY IdrForgets DEF AsShown
  <2>. QED
    BY <2>1, <2>2
<1>9. TypeOK'
  <2>1. tracker \in Prev /\ order \in Prev
    BY DEF IInv, TypeOK
  <2>2. heard => After(tracker) \in Prev /\ After(order) \in Prev
    BY <1>1, <1>3, <2>1, AdvancedType
  <2>3. tracker' \in Prev /\ order' \in Prev
    BY <1>5, <1>6, <2>1, <2>2
  <2>4. listening' \in BOOLEAN
    BY <1>7, Zenon
  <2>. QED
    BY <1>4, <1>7, <2>3, <2>4 DEF IInv, TypeOK
<1>10. ManagerHoldsLatest' /\ (\A set \in received : InRange(set))'
  BY <1>7 DEF IInv, ManagerHoldsLatest, Latest
<1>11. FramesReadTheirSequence'
  BY <1>4 DEF FramesReadTheirSequence
<1> HIDE DEF heard, After, Shown
<1>12. ASSUME listening'
       PROVE  tracker' = order' /\ event' = shown'
  <2>1. "slice" \in call /\ (listening \/ Refreshes(slice))
    BY <1>7, <1>12, Zenon
  <2>2. CASE listening
    <3>1. tracker = order
      BY <2>2 DEF IInv, TrackerFollowsListener
    <3>. QED
      BY <1>5, <1>6, <2>1, <3>1
  <2>3. CASE Refreshes(slice)
    BY <1>5, <1>6, <1>8, <2>1, <2>3
  <2>. QED
    BY <2>1, <2>2, <2>3
<1>. QED
  BY <1>4, <1>9, <1>10, <1>11, <1>12
  DEF IInv, TrackerFollowsListener, SlicesAreShownRight

-----------------------------------------------------------------------------
(* AV1, VP9 and VP8.                                                       *)

(* A sequence header is stored whatever its handler does.                  *)
LEMMA InvSequenceHeader ==
  ASSUME IInv, NEW header \in Sequences, NEW throws \in BOOLEAN,
         SequenceHeader(header, throws)
  PROVE  IInv'
<1> DEFINE counted == ~ ("sequence_header" \in call /\ throws)
<1>1. counted \in BOOLEAN /\ Unit(counted)
  BY Zenon DEF SequenceHeader
<1> HIDE DEF counted
<1>2. /\ codec = "Av1" /\ av1_seq' = header /\ sequence' = header
      /\ UNCHANGED <<avc, shown, frames, numbered>>
      /\ event' \in {[kind |-> "sequence_header", seq |-> header], NoEvent}
  BY DEF SequenceHeader, SequenceStored
<1>3. shown' = NoEvent /\ numbered < frames
  BY <1>2 DEF IInv
<1>4. event'.kind # "slice" /\ event'.kind # "frame"
  BY <1>2 DEF NoEvent
<1>5. FramesReadTheirSequence'
  BY <1>4 DEF FramesReadTheirSequence
<1>. QED
  BY <1>1, <1>2, <1>3, <1>4, <1>5, UnitTypes, InvOutsideAvc

(* An AV1 frame header gets the count of those before it.                  *)
LEMMA InvFrameHeader ==
  ASSUME IInv, NEW throws \in BOOLEAN, FrameHeader(throws)
  PROVE  IInv'
<1> DEFINE heard == "frame_header" \in call
           counted == ~ (heard /\ throws)
<1>1. counted \in BOOLEAN /\ Unit(counted)
  BY Zenon DEF FrameHeader
<1>2. /\ codec = "Av1"
      /\ frames' = IF heard THEN frames + 1 ELSE frames
      /\ event' = IF heard
                  THEN [kind |-> "frame", seq |-> av1_seq, number |-> frames]
                  ELSE NoEvent
      /\ numbered' = IF heard /\ ~ throws THEN frames ELSE numbered
      /\ UNCHANGED <<av1_seq, avc, shown, sequence>>
  BY DEF FrameHeader
<1> HIDE DEF heard, counted
<1>3. /\ shown' = NoEvent /\ numbered < frames
      /\ sequence # NoSequence => av1_seq = sequence
      /\ av1_seq \in Sequences \union {NoSequence}
  BY <1>2 DEF IInv, TypeOK
<1>4. /\ codec' = codec /\ call' \in Calls[codec] \union {NoCall}
      /\ units' \in 0 .. MaxChunk /\ parsed' \in 0 .. units'
      /\ frames \in 0 .. units' /\ frames + 1 \in 0 .. units'
      /\ frames \in -1 .. units' - 1 /\ numbered \in -1 .. units' - 1
      /\ frames \in Nat /\ numbered \in Int
  BY <1>1, UnitTypes
<1>5. /\ frames' \in 0 .. units' /\ numbered' \in -1 .. units' - 1
      /\ numbered' < frames'
  <2>1. CASE heard
    BY <1>2, <1>3, <1>4, <2>1
  <2>2. CASE ~ heard
    BY <1>2, <1>3, <1>4, <2>2
  <2>. QED
    BY <2>1, <2>2
<1>6. FramesReadTheirSequence' /\ event'.kind # "slice"
  BY <1>2, <1>3 DEF FramesReadTheirSequence, NoEvent
<1>. QED
  BY <1>2, <1>3, <1>4, <1>5, <1>6, InvOutsideAvc

(* A VP frame gets the count of the frames before it that were counted.    *)
LEMMA InvVpFrame ==
  ASSUME IInv, NEW throws \in BOOLEAN, VpFrame(throws)
  PROVE  IInv'
<1> DEFINE heard == "frame_header" \in call
           counted == ~ (heard /\ throws)
<1>1. counted \in BOOLEAN /\ Unit(counted)
  BY Zenon DEF VpFrame
<1>2. heard /\ ~ throws => counted
  OBVIOUS
<1>3. /\ codec \in {"Vp9", "Vp8"}
      /\ event' = IF heard
                  THEN [kind |-> "frame", seq |-> NoSequence, number |-> parsed]
                  ELSE NoEvent
      /\ numbered' = IF heard /\ ~ throws THEN parsed ELSE numbered
      /\ UNCHANGED <<av1_seq, avc, shown, frames, sequence>>
  BY DEF VpFrame, VpNumber
<1> HIDE DEF heard, counted
<1>4. /\ shown' = NoEvent /\ numbered < parsed /\ sequence = NoSequence
      /\ av1_seq \in Sequences \union {NoSequence}
  BY <1>3 DEF IInv, TypeOK
<1>5. /\ codec' = codec /\ call' \in Calls[codec] \union {NoCall}
      /\ units' \in 0 .. MaxChunk /\ parsed' \in 0 .. units'
      /\ frames \in 0 .. units'
      /\ parsed \in -1 .. units' - 1 /\ numbered \in -1 .. units' - 1
      /\ parsed' = IF counted THEN parsed + 1 ELSE parsed
      /\ parsed \in Nat /\ numbered \in Int
  BY <1>1, UnitTypes
<1>6. numbered' \in -1 .. units' - 1 /\ numbered' < parsed'
  <2>1. parsed \in Int /\ numbered \in Int /\ numbered < parsed
    BY <1>4, <1>5
  <2>2. parsed' \in {parsed, parsed + 1}
    BY <1>5, Zenon
  <2>3. numbered' \in {parsed, numbered}
    BY <1>3, Zenon
  <2>4. numbered' = parsed => parsed' = parsed + 1 \/ numbered' = numbered
    BY <1>2, <1>3, <1>5, Zenon
  <2>5. numbered' < parsed'
    BY <2>1, <2>2, <2>3, <2>4
  <2>6. numbered' \in -1 .. units' - 1
    BY <1>5, <2>3, Zenon
  <2>. QED
    BY <2>5, <2>6
<1>7. FramesReadTheirSequence' /\ event'.kind # "slice"
  BY <1>3, <1>4 DEF FramesReadTheirSequence, NoEvent
<1>. QED
  BY <1>3, <1>4, <1>5, <1>6, <1>7, InvOutsideAvc

-----------------------------------------------------------------------------
(* Every step preserves the invariant.                                     *)
LEMMA InvNext == IInv /\ [Next]_vars => IInv'
<1>. SUFFICES ASSUME IInv, [Next]_vars PROVE IInv'
  OBVIOUS
<1>1. /\ codec \in Codecs /\ call \in Calls[codec] \union {NoCall}
      /\ av1_seq \in Sequences \union {NoSequence}
      /\ units \in 0 .. MaxChunk /\ parsed \in 0 .. units
      /\ frames \in 0 .. units /\ numbered \in -1 .. units - 1
      /\ codec = "Av1" => numbered < frames
      /\ codec \in {"Vp9", "Vp8"} => numbered < parsed
      /\ sequence # NoSequence => codec = "Av1" /\ av1_seq = sequence
  BY DEF IInv, TypeOK
<1>2. event' = NoEvent => FramesReadTheirSequence' /\ event'.kind # "slice"
  BY DEF FramesReadTheirSequence, NoEvent
<1>3. ASSUME NEW listeners \in Calls[codec], BeginCall(listeners) PROVE IInv'
  <2>1. /\ units' \in 0 .. MaxChunk /\ parsed' \in 0 .. units'
        /\ frames' \in 0 .. units' /\ numbered' \in -1 .. units' - 1
        /\ numbered' < frames' /\ numbered' < parsed'
    BY <1>3, StreamAssumption DEF BeginCall
  <2>2. /\ call' \in Calls[codec] /\ event' = NoEvent /\ shown' = NoEvent
        /\ UNCHANGED <<codec, av1_seq, avc, sequence>>
    BY <1>3 DEF BeginCall
  <2>. QED
    BY <1>1, <1>2, <2>1, <2>2, InvOutsideAvc
<1>4. CASE EndCall
  BY <1>1, <1>2, <1>4, InvOutsideAvc DEF EndCall
<1>5. ASSUME NEW throws \in BOOLEAN, OtherUnit(throws) PROVE IInv'
  BY <1>5, InvOtherUnit
<1>6. ASSUME NEW throws \in BOOLEAN, NEW set \in Sets, ParameterSet(set, throws)
      PROVE  IInv'
  BY <1>6, InvParameterSet
<1>7. ASSUME NEW throws \in BOOLEAN, NEW slice \in Slices, Slice(slice, throws)
      PROVE  IInv'
  BY <1>7, InvSlice
<1>8. ASSUME NEW throws \in BOOLEAN, NEW header \in Sequences,
             SequenceHeader(header, throws)
      PROVE  IInv'
  BY <1>8, InvSequenceHeader
<1>9. ASSUME NEW throws \in BOOLEAN, FrameHeader(throws) PROVE IInv'
  BY <1>9, InvFrameHeader
<1>10. ASSUME NEW throws \in BOOLEAN, VpFrame(throws) PROVE IInv'
  BY <1>10, InvVpFrame
<1>11. CASE Clear
  <2>1. /\ manager' = EmptyManager /\ tracker' = NoPrevious
        /\ order' = NoPrevious /\ received' = {} /\ event' = NoEvent
        /\ shown' = NoEvent /\ listening' = TRUE /\ sequence' = NoSequence
        /\ UNCHANGED <<codec, av1_seq, call, units, parsed, frames, numbered>>
    BY <1>11 DEF Clear
  <2>2. (/\ manager = EmptyManager /\ tracker = NoPrevious
         /\ order = NoPrevious /\ received = {} /\ event = NoEvent
         /\ shown = NoEvent /\ listening = TRUE /\ sequence = NoSequence
         /\ codec \in Codecs
         /\ av1_seq \in Sequences \union {NoSequence}
         /\ call \in Calls[codec] \union {NoCall}
         /\ units \in 0 .. MaxChunk /\ parsed \in 0 .. units
         /\ frames \in 0 .. units /\ numbered \in -1 .. units - 1
         /\ codec = "Av1" => numbered < frames
         /\ codec \in {"Vp9", "Vp8"} => numbered < parsed
         => IInv)'
    BY InvStart, PTL
  <2>. QED
    BY <1>1, <2>1, <2>2
<1>12. CASE UNCHANGED vars
  BY <1>12
  DEF vars, history, IInv, TypeOK, ManagerHoldsLatest, Latest,
      TrackerFollowsListener, SlicesAreShownRight, FramesReadTheirSequence
<1>. QED
  BY <1>3, <1>4, <1>5, <1>6, <1>7, <1>8, <1>9, <1>10, <1>11, <1>12 DEF Next

-----------------------------------------------------------------------------
(* The invariant holds of every behaviour.                                 *)
THEOREM Invariant == Spec => []IInv
BY InvInit, InvNext, PTL DEF Spec

(* The members of the State and the counters of its calls keep their       *)
(* types: no call counts or numbers more than the units it has passed.     *)
THEOREM TypeCorrect == Spec => []TypeOK
<1>1. IInv => TypeOK
  BY DEF IInv
<1>. QED
  BY <1>1, Invariant, PTL

(* The AVC manager holds exactly the latest set of each kind and id since  *)
(* the last clear().                                                       *)
THEOREM HoldsLatest == Spec => []ManagerHoldsLatest
<1>1. IInv => ManagerHoldsLatest
  BY DEF IInv
<1>. QED
  BY <1>1, Invariant, PTL

(* An AVC State that has missed nothing, or an IDR picture ago, has the    *)
(* tracker of a listener to the whole stream.                              *)
THEOREM FollowsListener == Spec => []TrackerFollowsListener
<1>1. IInv => TrackerFollowsListener
  BY DEF IInv
<1>. QED
  BY <1>1, Invariant, PTL

(* An AVC slice is shown if and only if its sets have arrived and it       *)
(* parses, with those sets and the order count of the whole stream.        *)
THEOREM ShownRight == Spec => []SlicesAreShownRight
<1>1. IInv => SlicesAreShownRight
  BY DEF IInv
<1>. QED
  BY <1>1, Invariant, PTL

(* AV1 frame headers are parsed with the last sequence header of their     *)
(* stream, once there is one.                                              *)
THEOREM ReadTheirSequence == Spec => []FramesReadTheirSequence
<1>1. IInv => FramesReadTheirSequence
  BY DEF IInv
<1>. QED
  BY <1>1, Invariant, PTL

(* A frame's number is beyond those of all frames of the call whose        *)
(* handlers returned.                                                      *)
THEOREM Numbering == Spec => NumbersGrow
<1>1. ASSUME IInv, Next, event'.kind = "frame"
      PROVE  event'.number > numbered
  <2>1. CASE \E listeners \in Calls[codec] : BeginCall(listeners)
    BY <1>1, <2>1 DEF BeginCall, NoEvent
  <2>2. CASE EndCall
    BY <1>1, <2>2 DEF EndCall, NoEvent
  <2>3. CASE \E throws \in BOOLEAN : OtherUnit(throws)
    BY <1>1, <2>3 DEF OtherUnit, NoEvent
  <2>4. CASE \E throws \in BOOLEAN, set \in Sets : ParameterSet(set, throws)
    BY <1>1, <2>4, Limits DEF ParameterSet, NoEvent, SpsRecord, PpsRecord
  <2>5. CASE \E throws \in BOOLEAN, slice \in Slices : Slice(slice, throws)
    BY <1>1, <2>5 DEF Slice, AsShown, NoEvent
  <2>6. CASE \E throws \in BOOLEAN, header \in Sequences :
               SequenceHeader(header, throws)
    BY <1>1, <2>6 DEF SequenceHeader, NoEvent
  <2>7. CASE \E throws \in BOOLEAN : FrameHeader(throws)
    <3>1. event'.number = frames /\ codec = "Av1"
      BY <1>1, <2>7 DEF FrameHeader, NoEvent
    <3>2. numbered < frames /\ numbered \in Int /\ frames \in Int
      BY <1>1, <3>1 DEF IInv, TypeOK
    <3>. QED
      BY <3>1, <3>2
  <2>8. CASE \E throws \in BOOLEAN : VpFrame(throws)
    <3>1. event'.number = parsed /\ codec \in {"Vp9", "Vp8"}
      BY <1>1, <2>8 DEF VpFrame, VpNumber, NoEvent
    <3>2. numbered < parsed /\ numbered \in Int /\ parsed \in Int
      BY <1>1, <3>1 DEF IInv, TypeOK
    <3>. QED
      BY <3>1, <3>2
  <2>9. CASE Clear
    BY <1>1, <2>9 DEF Clear, NoEvent
  <2>. QED
    BY <1>1, <2>1, <2>2, <2>3, <2>4, <2>5, <2>6, <2>7, <2>8, <2>9 DEF Next
<1>2. IInv /\ [Next]_vars
        => [event'.kind = "frame" /\ call = call'
              => event'.number > numbered]_vars
  BY <1>1
<1>. QED
  BY <1>2, Invariant, PTL DEF Spec, NumbersGrow
=============================================================================
