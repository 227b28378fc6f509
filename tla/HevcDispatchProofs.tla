------------------------- MODULE HevcDispatchProofs -------------------------
(***************************************************************************)
(* Proofs about an HEVC State: for every stream, every way of cutting it   *)
(* into calls, every choice of handlers and every exception they throw,    *)
(* every array length and every width of the LSB and of the integers.      *)
(***************************************************************************)
EXTENDS HevcDispatch, TLAPS

-----------------------------------------------------------------------------
(* The tracker, for any sequence of slices.                                *)

(* It stays a tracker.                                                     *)
LEMMA AdvancedType ==
  ASSUME NEW t \in Tracker, NEW nut \in 0 .. 31, NEW tid, NEW lsb \in Nat,
         NEW period \in Nat
  PROVE  Advanced(t, nut, tid, lsb, period) \in Tracker
<1>1. ASSUME NEW a \in Int, NEW b \in Nat
      PROVE  DerivePocMsb(a, b, lsb, period) \in Int
  BY <1>1, Int32MaxAssumption
  DEF DerivePocMsb, Saturate, MsbStep, Int32Min
<1>2. PocMsb(t, nut, lsb, period) \in Int
  BY <1>1 DEF PocMsb, Tracker
<1>3. IsReferenceVcl(nut) \in BOOLEAN
  BY Zenon DEF IsReferenceVcl
<1>. QED
  BY <1>2, <1>3 DEF Advanced, Tracker

(* After an IDR picture of the base layer it is where it is whatever it    *)
(* was before, and so is the order count.                                  *)
LEMMA IdrForgets ==
  ASSUME NEW t, NEW u, NEW nut \in 0 .. 31, NEW lsb, NEW period, IsIdr(nut)
  PROVE  /\ Advanced(t, nut, 0, lsb, period) = Advanced(u, nut, 0, lsb, period)
         /\ Derived(t, nut, lsb, period) = Derived(u, nut, lsb, period)
<1>1. BecomesPrevious(nut, 0)
  BY DEF IsIdr, BecomesPrevious, IsRaslOrRadl, IsSubLayerNonReference
<1>. QED
  BY <1>1 DEF Advanced, Derived, PocMsb

-----------------------------------------------------------------------------
(* The parameter-set manager.                                              *)

(* What the limits say, in the form the proofs need.                       *)
LEMMA Limits ==
  /\ MaxVps \in Nat /\ MaxSps \in Nat /\ MaxPps \in Nat
  /\ IdByte \in Nat /\ IdByte >= MaxPps /\ IdByte > 0
  /\ Sets \subseteq Vps \union Sps \union Pps
  /\ NoSet \notin Vps \union Sps \union Pps
BY LimitsAssumption, StreamAssumption, NoSetAssumption

(* Storing a set yields a manager.                                         *)
LEMMA StoreType ==
  ASSUME NEW m \in Manager, NEW set \in Sets
  PROVE  Store(m, set) \in Manager
<1>1. CASE set \in Vps
  BY <1>1, Limits DEF Store, StoreVps, Manager, Vps
<1>2. CASE set \in Sps
  BY <1>2, Limits DEF Store, StoreSps, Manager, Sps
<1>3. CASE set \in Pps
  BY <1>3, Limits DEF Store, StorePps, Manager, Pps
<1>. QED
  BY <1>1, <1>2, <1>3, Limits

(* What is stored is found under its kind and id, and nothing else moves.  *)
LEMMA StoreFiles ==
  ASSUME NEW m \in Manager, NEW set \in Sets, InRange(set)
  PROVE  /\ \A i \in 0 .. MaxVps - 1 :
              Store(m, set).vps[i] =
                IF set.kind = "vps" /\ set.id = i THEN set ELSE m.vps[i]
         /\ \A i \in 0 .. MaxSps - 1 :
              Store(m, set).sps[i] =
                IF set.kind = "sps" /\ set.id = i THEN set ELSE m.sps[i]
         /\ \A i \in 0 .. MaxPps - 1 :
              Store(m, set).pps[i] =
                IF set.kind = "pps" /\ set.id = i THEN set ELSE m.pps[i]
<1>1. CASE set \in Vps
  BY <1>1, Limits DEF Store, StoreVps, Manager, Vps, InRange
<1>2. CASE set \in Sps
  BY <1>2, Limits DEF Store, StoreSps, Manager, Sps, InRange
<1>3. CASE set \in Pps
  BY <1>3, Limits DEF Store, StorePps, Manager, Pps, InRange
<1>. QED
  BY <1>1, <1>2, <1>3, Limits

(* A set the manager has no room for changes nothing.                      *)
LEMMA StoreDrops ==
  ASSUME NEW m \in Manager, NEW set \in Sets, ~ InRange(set)
  PROVE  Store(m, set) = m
<1>1. CASE set \in Vps
  BY <1>1, Limits DEF Store, StoreVps, Vps, InRange
<1>2. CASE set \in Sps
  BY <1>2, Limits DEF Store, StoreSps, Sps, InRange
<1>3. CASE set \in Pps
  BY <1>3, Limits DEF Store, StorePps, Pps, InRange
<1>. QED
  BY <1>1, <1>2, <1>3, Limits

-----------------------------------------------------------------------------
(* The manager and the listener.                                           *)

(* What a slice resolves to is what the listener wants it to be parsed     *)
(* with, and there is nothing else it could want.                          *)
LEMMA ResolveFindsWanted ==
  ASSUME IInv, NEW slice \in Slices
  PROVE  LET found == Resolve(manager, slice.pps % IdByte)
             parses == /\ found.pps # NoSet /\ found.sps # NoSet
                       /\ found.pps.id = slice.pps
         IN Wanted(slice) = IF parses THEN {<<found.pps, found.sps>>} ELSE {}
<1> DEFINE id == slice.pps % IdByte
           found == Resolve(manager, id)
           parses == /\ found.pps # NoSet /\ found.sps # NoSet
                     /\ found.pps.id = slice.pps
<1>1. slice.pps \in Nat /\ id \in 0 .. IdByte - 1
      /\ (slice.pps < IdByte => id = slice.pps)
  BY Limits, StreamAssumption DEF Segment
<1>2. /\ manager \in Manager /\ received \subseteq Sets
      /\ \A set \in received : InRange(set)
      /\ ManagerHoldsLatest
  BY DEF IInv, TypeOK
<1>3. /\ DOMAIN manager.sps = 0 .. MaxSps - 1
      /\ DOMAIN manager.pps = 0 .. MaxPps - 1
  BY <1>2 DEF Manager
<1>4. ASSUME parses
      PROVE  Wanted(slice) = {<<found.pps, found.sps>>}
  <2>1. /\ id < MaxPps /\ found.pps = manager.pps[id]
        /\ found.sps = FindSps(manager, found.pps.sps)
    BY <1>4 DEF Resolve, Unresolved, FindPps
  <2>2. Latest("pps", id) = {found.pps}
    BY <1>1, <1>2, <1>3, <1>4, <2>1, Limits DEF ManagerHoldsLatest
  <2>3. id = slice.pps
    BY <1>4, <2>2 DEF Latest
  <2>4. found.pps \in Pps
    BY <1>1, <1>2, <1>4, <2>1, Limits DEF Manager
  <2>5. found.pps.sps \in 0 .. MaxSps - 1
        /\ found.sps = manager.sps[found.pps.sps]
    BY <1>4, <2>1, <2>4, Limits DEF FindSps, Pps
  <2>6. Latest("sps", found.pps.sps) = {found.sps}
    BY <1>2, <1>3, <1>4, <2>5 DEF ManagerHoldsLatest
  <2> HIDE DEF found, id
  <2>7. ASSUME NEW pair \in received \X received
        PROVE  /\ pair[1] \in Latest("pps", slice.pps)
               /\ pair[2] \in Latest("sps", pair[1].sps)
               <=> pair = <<found.pps, found.sps>>
    <3>1. pair[1] \in Latest("pps", slice.pps) <=> pair[1] = found.pps
      BY <2>2, <2>3
    <3>2. pair[1] = found.pps =>
            (pair[2] \in Latest("sps", pair[1].sps) <=> pair[2] = found.sps)
      BY <2>6
    <3>3. pair = <<pair[1], pair[2]>>
      OBVIOUS
    <3>. QED
      BY <3>1, <3>2, <3>3
  <2>8. <<found.pps, found.sps>> \in received \X received
    <3>1. found.pps \in received /\ found.sps \in received
      BY <2>2, <2>6 DEF Latest
    <3>. QED
      BY <3>1
  <2>. QED
    BY <2>7, <2>8 DEF Wanted
<1>5. ASSUME Wanted(slice) # {}
      PROVE  parses
  <2>1. PICK pair \in received \X received :
          /\ pair[1] \in Latest("pps", slice.pps)
          /\ pair[2] \in Latest("sps", pair[1].sps)
    BY <1>5 DEF Wanted
  <2>2. PICK pps \in received, sps \in received :
          /\ pps.kind = "pps" /\ pps.id = slice.pps
          /\ sps.kind = "sps" /\ sps.id = pps.sps
          /\ pps \in Latest("pps", slice.pps)
          /\ sps \in Latest("sps", pps.sps)
    BY <2>1 DEF Latest
  <2>3. pps \in Pps /\ sps \in Sps
    BY <1>2, <2>2, Limits DEF Vps, Sps, Pps
  <2>4. slice.pps < MaxPps /\ pps.sps < MaxSps
    BY <1>2, <2>2 DEF InRange
  <2>5. id = slice.pps /\ id \in DOMAIN manager.pps
        /\ pps.sps \in DOMAIN manager.sps
    BY <1>1, <1>3, <2>3, <2>4, Limits DEF Pps
  <2>6. manager.pps[id] = pps /\ manager.sps[pps.sps] = sps
    BY <1>2, <2>2, <2>5 DEF ManagerHoldsLatest
  <2>7. pps # NoSet /\ sps # NoSet
    BY <2>3, Limits
  <2>. QED
    BY <2>2, <2>4, <2>5, <2>6, <2>7 DEF Resolve, FindPps, FindSps
<1>. QED
  BY <1>4, <1>5

-----------------------------------------------------------------------------
(* The invariant holds initially and after clear().                        *)
LEMMA EmptyManagerType == EmptyManager \in Manager
BY DEF EmptyManager, Manager

LEMMA InvStart ==
  ASSUME manager = EmptyManager, tracker = NoPrevious, order = NoPrevious,
         received = {}, event = NoEvent, shown = NoEvent, listening = TRUE,
         call \in Calls \union {NoCall},
         units \in 0 .. MaxChunk, parsed \in 0 .. units
  PROVE  IInv
<1>1. NoPrevious \in Tracker
  BY DEF NoPrevious, Tracker
<1>2. TypeOK
  BY <1>1, EmptyManagerType DEF TypeOK
<1>3. ManagerHoldsLatest
  BY DEF ManagerHoldsLatest, Latest, EmptyManager
<1>. QED
  BY <1>2, <1>3 DEF IInv, TrackerFollowsListener, SlicesAreShownRight, NoEvent

LEMMA InvInit == Init => IInv
BY InvStart, StreamAssumption DEF Init

(* A step that stores nothing and hears nothing preserves it.              *)
LEMMA InvQuiet ==
  ASSUME IInv, HearNothing, UNCHANGED <<manager, tracker>>, event' = NoEvent,
         call' \in Calls \union {NoCall},
         units' \in 0 .. MaxChunk, parsed' \in 0 .. units'
  PROVE  IInv'
<1>1. TypeOK' /\ TrackerFollowsListener'
  BY DEF IInv, TypeOK, TrackerFollowsListener, HearNothing
<1>2. ManagerHoldsLatest'
  BY DEF IInv, ManagerHoldsLatest, Latest, HearNothing
<1>3. SlicesAreShownRight'
  BY DEF SlicesAreShownRight, HearNothing
<1>4. (\A set \in received : InRange(set))'
  BY DEF IInv, HearNothing
<1>. QED
  BY <1>1, <1>2, <1>3, <1>4 DEF IInv

(* The end of the loop body keeps the counters in order.                   *)
LEMMA DispatchTypes ==
  ASSUME TypeOK, NEW throws \in BOOLEAN, Dispatch(throws)
  PROVE  /\ call' \in Calls \union {NoCall}
         /\ units' \in 0 .. MaxChunk /\ parsed' \in 0 .. units'
BY StreamAssumption DEF TypeOK, Dispatch

(* A parameter set replaces, for the manager and for the listener, the one *)
(* of its kind and id, and no other.                                       *)
LEMMA InvParameterSet ==
  ASSUME IInv, NEW set \in Sets, NEW throws \in BOOLEAN,
         ParameterSet(set, throws)
  PROVE  IInv'
<1>1. /\ manager \in Manager /\ received \subseteq Sets
      /\ \A s \in received : InRange(s)
      /\ ManagerHoldsLatest
  BY DEF IInv, TypeOK
<1>2. set.kind \in {"vps", "sps", "pps"} /\ set # NoSet
  BY Limits DEF Vps, Sps, Pps
<1>3. TypeOK'
  <2>1. manager' \in Manager
    BY <1>1, StoreType DEF ParameterSet
  <2>2. received' \subseteq Sets
    BY <1>1 DEF ParameterSet
  <2>3. /\ call' \in Calls \union {NoCall}
        /\ units' \in 0 .. MaxChunk /\ parsed' \in 0 .. units'
    BY DispatchTypes DEF ParameterSet, IInv
  <2>. QED
    BY <2>1, <2>2, <2>3 DEF IInv, TypeOK, ParameterSet
<1>4. (\A s \in received : InRange(s))'
  BY <1>1 DEF ParameterSet, InRange
<1>5. ManagerHoldsLatest'
  <2>1. CASE ~ InRange(set)
    <3>1. manager' = manager /\ received' = received
      BY <1>1, <2>1, StoreDrops DEF ParameterSet
    <3>. QED
      BY <1>1, <3>1 DEF ManagerHoldsLatest, Latest
  <2>2. CASE InRange(set)
    <3>1. ASSUME NEW kind, NEW id
          PROVE  Latest(kind, id)' = IF set.kind = kind /\ set.id = id
                                     THEN {set} ELSE Latest(kind, id)
      BY <2>2 DEF ParameterSet, Latest
    <3>2. /\ \A i \in 0 .. MaxVps - 1 :
               manager'.vps[i] =
                 IF set.kind = "vps" /\ set.id = i THEN set ELSE manager.vps[i]
          /\ \A i \in 0 .. MaxSps - 1 :
               manager'.sps[i] =
                 IF set.kind = "sps" /\ set.id = i THEN set ELSE manager.sps[i]
          /\ \A i \in 0 .. MaxPps - 1 :
               manager'.pps[i] =
                 IF set.kind = "pps" /\ set.id = i THEN set ELSE manager.pps[i]
      BY <1>1, <2>2, StoreFiles DEF ParameterSet
    <3>3. manager' \in Manager
      BY <1>3 DEF TypeOK
    <3>4. /\ DOMAIN manager'.vps = 0 .. MaxVps - 1
          /\ DOMAIN manager'.sps = 0 .. MaxSps - 1
          /\ DOMAIN manager'.pps = 0 .. MaxPps - 1
          /\ DOMAIN manager.vps = 0 .. MaxVps - 1
          /\ DOMAIN manager.sps = 0 .. MaxSps - 1
          /\ DOMAIN manager.pps = 0 .. MaxPps - 1
      BY <1>1, <3>3 DEF Manager
    <3>5. ASSUME NEW i \in 0 .. MaxVps - 1
          PROVE  Latest("vps", i)' = {manager'.vps[i]} \ {NoSet}
      BY <1>1, <1>2, <3>1, <3>2, <3>4 DEF ManagerHoldsLatest
    <3>6. ASSUME NEW i \in 0 .. MaxSps - 1
          PROVE  Latest("sps", i)' = {manager'.sps[i]} \ {NoSet}
      BY <1>1, <1>2, <3>1, <3>2, <3>4 DEF ManagerHoldsLatest
    <3>7. ASSUME NEW i \in 0 .. MaxPps - 1
          PROVE  Latest("pps", i)' = {manager'.pps[i]} \ {NoSet}
      BY <1>1, <1>2, <3>1, <3>2, <3>4 DEF ManagerHoldsLatest
    <3>. QED
      BY <3>4, <3>5, <3>6, <3>7 DEF ManagerHoldsLatest
  <2>. QED
    BY <2>1, <2>2
<1>6. TrackerFollowsListener'
  BY DEF IInv, TrackerFollowsListener, ParameterSet
<1>7. SlicesAreShownRight'
  BY <1>2 DEF SlicesAreShownRight, ParameterSet, NoEvent
<1>. QED
  BY <1>3, <1>4, <1>5, <1>6, <1>7 DEF IInv

(* A slice takes both trackers the same way whenever the real one was in   *)
(* step or is put in step, and both are shown the same.                    *)
LEMMA InvSlice ==
  ASSUME IInv, NEW slice \in Slices, NEW throws \in BOOLEAN,
         Slice(slice, throws)
  PROVE  IInv'
<1> DEFINE found == Resolve(manager, slice.pps % IdByte)
           period == LsbPeriod[found.sps.content]
           parses == /\ found.pps # NoSet /\ found.sps # NoSet
                     /\ found.pps.id = slice.pps
           heard == slice.wellFormed /\ parses
<1>1. /\ slice.nut \in 0 .. 31 /\ slice.lsb \in Nat
      /\ slice.wellFormed \in BOOLEAN
  BY StreamAssumption DEF Segment
<1>2. Wanted(slice) = IF parses THEN {<<found.pps, found.sps>>} ELSE {}
  BY ResolveFindsWanted
<1>3. parses => period \in Nat
  <2>1. ASSUME parses PROVE found.sps \in Sps
    <3>1. <<found.pps, found.sps>> \in Wanted(slice)
      BY <1>2, <2>1
    <3>2. found.sps \in received /\ found.sps.kind = "sps"
      BY <3>1 DEF Wanted, Latest
    <3>. QED
      BY <3>2, Limits DEF IInv, TypeOK, Vps, Sps, Pps
  <2>. QED
    BY <2>1, StreamAssumption DEF Sps
<1> DEFINE After(t) == Advanced(t, slice.nut, slice.tid, slice.lsb, period)
           Shown(t) == [kind |-> "slice", pps |-> found.pps, sps |-> found.sps,
                        poc |-> Derived(t, slice.nut, slice.lsb, period)]
<1>4. IF heard THEN order' = After(order) /\ shown' = Shown(order)
      ELSE order' = order /\ shown' = NoEvent
  <2>1. CASE parses
    <3> DEFINE pair == <<found.pps, found.sps>>
    <3>1. Wanted(slice) = {pair} /\ pair[1] = found.pps /\ pair[2] = found.sps
      BY <1>2, <2>1
    <3> HIDE DEF found
    <3>. QED
      BY <2>1, <3>1 DEF Slice, Listen
  <2>2. CASE ~ parses
    BY <1>2, <2>2 DEF Slice, Listen
  <2>. QED
    BY <2>1, <2>2
<1>5. IF "slice" \in call /\ heard
      THEN tracker' = After(tracker) /\ event' = Shown(tracker)
      ELSE tracker' = tracker /\ event' = NoEvent
  BY DEF Slice, ParseSlice
<1>6. /\ listening' = ("slice" \in call /\ (listening \/ Refreshes(slice)))
      /\ manager' = manager /\ received' = received /\ Dispatch(throws)
  BY DEF Slice
<1>7. Refreshes(slice) => /\ heard
                          /\ After(tracker) = After(order)
                          /\ Shown(tracker) = Shown(order)
  <2>1. ASSUME Refreshes(slice)
        PROVE  heard /\ IsIdr(slice.nut) /\ slice.tid = 0
    BY <1>2, <2>1 DEF Refreshes
  <2>2. IsIdr(slice.nut) /\ slice.tid = 0 =>
          /\ After(tracker) = After(order)
          /\ Shown(tracker) = Shown(order)
    BY <1>1, IdrForgets
  <2>. QED
    BY <2>1, <2>2
<1>8. TypeOK'
  <2>1. tracker \in Tracker /\ order \in Tracker
    BY DEF IInv, TypeOK
  <2>2. heard => After(tracker) \in Tracker /\ After(order) \in Tracker
    BY <1>1, <1>3, <2>1, AdvancedType
  <2>3. tracker' \in Tracker /\ order' \in Tracker
    BY <1>4, <1>5, <2>1, <2>2
  <2>4. /\ call' \in Calls \union {NoCall}
        /\ units' \in 0 .. MaxChunk /\ parsed' \in 0 .. units'
    BY <1>6, DispatchTypes DEF IInv
  <2>5. listening' \in BOOLEAN
    BY <1>6, Zenon
  <2>. QED
    BY <1>6, <2>3, <2>4, <2>5 DEF IInv, TypeOK
<1>9. ManagerHoldsLatest' /\ (\A set \in received : InRange(set))'
  BY <1>6 DEF IInv, ManagerHoldsLatest, Latest
<1> HIDE DEF heard, After, Shown
<1>10. listening' => tracker' = order' /\ event' = shown'
  <2>. SUFFICES ASSUME listening'
                PROVE  tracker' = order' /\ event' = shown'
    OBVIOUS
  <2>1. "slice" \in call /\ (listening \/ Refreshes(slice))
    BY <1>6, Zenon
  <2>2. CASE listening
    <3>1. tracker = order
      BY <2>2 DEF IInv, TrackerFollowsListener
    <3>. QED
      BY <1>4, <1>5, <2>1, <3>1
  <2>3. CASE Refreshes(slice)
    BY <1>4, <1>5, <1>7, <2>1, <2>3
  <2>. QED
    BY <2>1, <2>2, <2>3
<1>. QED
  BY <1>8, <1>9, <1>10 DEF IInv, TrackerFollowsListener, SlicesAreShownRight

(* Every step preserves the invariant.                                     *)
LEMMA InvNext == IInv /\ [Next]_vars => IInv'
<1>. SUFFICES ASSUME IInv, [Next]_vars PROVE IInv'
  OBVIOUS
<1>1. /\ call \in Calls \union {NoCall}
      /\ units \in 0 .. MaxChunk /\ parsed \in 0 .. units
  BY DEF IInv, TypeOK
<1>2. ASSUME NEW listeners \in Calls, BeginCall(listeners) PROVE IInv'
  BY <1>2, StreamAssumption, InvQuiet DEF BeginCall
<1>3. CASE EndCall
  BY <1>1, <1>3, InvQuiet DEF EndCall
<1>4. ASSUME NEW set \in Sets, NEW throws \in BOOLEAN, ParameterSet(set, throws)
      PROVE  IInv'
  BY <1>4, InvParameterSet
<1>5. ASSUME NEW throws \in BOOLEAN, OtherUnit(throws) PROVE IInv'
  BY <1>5, DispatchTypes, InvQuiet DEF OtherUnit, IInv
<1>6. CASE BrokenUnit
  <2>1. units' \in 0 .. MaxChunk /\ parsed' \in 0 .. units' /\ call' = call
    BY <1>1, <1>6, StreamAssumption DEF BrokenUnit
  <2>. QED
    BY <1>1, <1>6, <2>1, InvQuiet DEF BrokenUnit
<1>7. ASSUME NEW slice \in Slices, NEW throws \in BOOLEAN, Slice(slice, throws)
      PROVE  IInv'
  BY <1>7, InvSlice
<1>8. CASE Clear
  <2>1. /\ manager' = EmptyManager /\ tracker' = NoPrevious
        /\ order' = NoPrevious /\ received' = {} /\ event' = NoEvent
        /\ shown' = NoEvent /\ listening' = TRUE
        /\ call' \in Calls \union {NoCall}
        /\ units' \in 0 .. MaxChunk /\ parsed' \in 0 .. units'
    BY <1>1, <1>8 DEF Clear
  <2>2. (/\ manager = EmptyManager /\ tracker = NoPrevious
         /\ order = NoPrevious /\ received = {} /\ event = NoEvent
         /\ shown = NoEvent /\ listening = TRUE
         /\ call \in Calls \union {NoCall}
         /\ units \in 0 .. MaxChunk /\ parsed \in 0 .. units
         => IInv)'
    BY InvStart, PTL
  <2>. QED
    BY <2>1, <2>2
<1>9. CASE UNCHANGED vars
  BY <1>9
  DEF vars, IInv, TypeOK, ManagerHoldsLatest, Latest, TrackerFollowsListener,
      SlicesAreShownRight
<1>. QED
  BY <1>2, <1>3, <1>4, <1>5, <1>6, <1>7, <1>8, <1>9 DEF Next

-----------------------------------------------------------------------------
(* The invariant holds of every behaviour.                                 *)
THEOREM Invariant == Spec => []IInv
BY InvInit, InvNext, PTL DEF Spec

(* The manager, the tracker and the counters of a call keep their types:   *)
(* no call counts more NAL units than it has passed.                       *)
THEOREM TypeCorrect == Spec => []TypeOK
<1>1. IInv => TypeOK
  BY DEF IInv
<1>. QED
  BY <1>1, Invariant, PTL

(* The manager holds exactly the latest set of each kind and id since the  *)
(* last clear().                                                           *)
THEOREM HoldsLatest == Spec => []ManagerHoldsLatest
<1>1. IInv => ManagerHoldsLatest
  BY DEF IInv
<1>. QED
  BY <1>1, Invariant, PTL

(* A State that has missed nothing, or an IDR picture ago, has the tracker *)
(* of a listener to the whole stream.                                      *)
THEOREM FollowsListener == Spec => []TrackerFollowsListener
<1>1. IInv => TrackerFollowsListener
  BY DEF IInv
<1>. QED
  BY <1>1, Invariant, PTL

(* A slice handler is shown a slice if and only if its sets have arrived   *)
(* and it parses, with those sets and the order count of the whole stream. *)
THEOREM ShownRight == Spec => []SlicesAreShownRight
<1>1. IInv => SlicesAreShownRight
  BY DEF IInv
<1>. QED
  BY <1>1, Invariant, PTL
=============================================================================
