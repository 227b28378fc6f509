-------------------------- MODULE VvcDispatchProofs --------------------------
(***************************************************************************)
(* Proofs about a VVC State: for every stream, every way of cutting it     *)
(* into calls, every choice of handlers and every exception they throw,    *)
(* every array length and every width of the LSB and of the integers.      *)
(***************************************************************************)
EXTENDS VvcDispatch, TLAPS

-----------------------------------------------------------------------------
(* The tracker, for any sequence of slices.                                *)

(* It stays a tracker.                                                     *)
LEMMA AdvancedType ==
  ASSUME NEW t \in Tracker, NEW h, NEW period \in Nat,
         h.lsb \in Nat, h.cycle \in {NoCycle} \union Nat
  PROVE  Advanced(t, h, period) \in Tracker
<1>1. Saturate(t.msb + MsbStep(t.lsb, h.lsb, period)) \in Int
  BY Int32MaxAssumption DEF Saturate, MsbStep, Int32Min, Tracker
<1>2. h.cycle # NoCycle => h.cycle * period \in Int
  OBVIOUS
<1>3. PocMsb(t, h, period) \in Int
  BY <1>1, <1>2 DEF PocMsb
<1>. QED
  BY <1>3 DEF Advanced, Tracker

(* After a sequence start of the base layer it is where it is whatever it  *)
(* was before, and so is the order count.                                  *)
LEMMA StartForgets ==
  ASSUME NEW t, NEW u, NEW h, NEW period, BecomesPrevious(h), IsClvss(h)
  PROVE  /\ Advanced(t, h, period) = Advanced(u, h, period)
         /\ Derived(t, h, period) = Derived(u, h, period)
BY DEF Advanced, Derived, PocMsb

-----------------------------------------------------------------------------
(* The parameter-set manager.                                              *)

(* What the limits say, in the form the proofs need.                       *)
LEMMA Limits ==
  /\ MaxVps \in Nat /\ MaxSps \in Nat /\ MaxPps \in Nat
  /\ MaxVps > 0 /\ MaxSps > 0 /\ MaxPps > 0
  /\ Sets \subseteq AnySet
  /\ NoSet \notin AnySet /\ NoSet \notin PictureHeaders
  /\ NoSet \notin SentHeaders /\ SentHeaders \subseteq Header
  /\ IdByte \in Nat /\ IdByte > 0
BY LimitsAssumption, StreamAssumption, NoSetAssumption

(* What is left of an id in a byte, and which ids it leaves alone.         *)
LEMMA Narrowed ==
  ASSUME NEW ph \in SentHeaders
  PROVE  /\ ph.pps \in Nat /\ ph.pps % IdByte \in Nat
         /\ PictureOf(ph).known =>
              ph.pps % IdByte = ph.pps /\ PictureOf(ph).ph = ph
<1>1. ph.pps \in Nat /\ ph.pps % IdByte \in Nat
      /\ (ph.pps < IdByte => ph.pps % IdByte = ph.pps)
  BY Limits DEF Header
<1>. QED
  BY <1>1 DEF PictureOf, NoPicture

(* Storing a set, or a picture header, yields a manager.                   *)
LEMMA StoreType ==
  ASSUME NEW m \in Manager, NEW set \in Sets
  PROVE  Store(m, set) \in Manager
<1>1. CASE set \in Dci
  BY <1>1, Limits DEF Store, Manager, Dci
<1>2. CASE set \in Opi
  BY <1>2, Limits DEF Store, Manager, Opi
<1>3. CASE set \in Vps
  BY <1>3, Limits DEF Store, Manager, Vps, InRange
<1>4. CASE set \in Sps
  BY <1>4, Limits DEF Store, Manager, Sps, InRange
<1>5. CASE set \in Pps
  BY <1>5, Limits DEF Store, Manager, Pps, InRange
<1>. QED
  BY <1>1, <1>2, <1>3, <1>4, <1>5, Limits DEF AnySet

(* What is stored is found under its kind and id, and nothing else moves.  *)
LEMMA StoreFiles ==
  ASSUME NEW m \in Manager, NEW set \in Sets, InRange(set)
  PROVE  /\ Store(m, set).ph = m.ph
         /\ Store(m, set).dci = IF set.kind = "dci" THEN set ELSE m.dci
         /\ Store(m, set).opi = IF set.kind = "opi" THEN set ELSE m.opi
         /\ \A i \in 0 .. MaxVps - 1 :
              Store(m, set).vps[i] =
                IF set.kind = "vps" /\ set.id = i THEN set ELSE m.vps[i]
         /\ \A i \in 0 .. MaxSps - 1 :
              Store(m, set).sps[i] =
                IF set.kind = "sps" /\ set.id = i THEN set ELSE m.sps[i]
         /\ \A i \in 0 .. MaxPps - 1 :
              Store(m, set).pps[i] =
                IF set.kind = "pps" /\ set.id = i THEN set ELSE m.pps[i]
<1>1. CASE set \in Dci
  BY <1>1, Limits DEF Store, Manager, Dci
<1>2. CASE set \in Opi
  BY <1>2, Limits DEF Store, Manager, Opi
<1>3. CASE set \in Vps
  BY <1>3, Limits DEF Store, Manager, Vps, InRange
<1>4. CASE set \in Sps
  BY <1>4, Limits DEF Store, Manager, Sps, InRange
<1>5. CASE set \in Pps
  BY <1>5, Limits DEF Store, Manager, Pps, InRange
<1>. QED
  BY <1>1, <1>2, <1>3, <1>4, <1>5, Limits DEF AnySet

-----------------------------------------------------------------------------
(* The manager and the listener.                                           *)

(* The SPS a PPS id resolves to is the one the listener wants, and there   *)
(* is none if there is nothing it could want.                              *)
LEMMA ResolveFindsWanted ==
  ASSUME IInv, NEW id \in Nat
  PROVE  LET found == Resolve(manager, id)
         IN /\ found.sps \in {NoSet} \union (Sets \intersect Sps)
            /\ WantedSps(id) = found.sps
<1> DEFINE found == Resolve(manager, id)
<1>2. /\ manager \in Manager /\ received \subseteq Sets
      /\ \A set \in received : InRange(set)
      /\ ManagerHoldsLatest
  BY DEF IInv, TypeOK
<1>3. /\ DOMAIN manager.sps = 0 .. MaxSps - 1
      /\ DOMAIN manager.pps = 0 .. MaxPps - 1
  BY <1>2 DEF Manager
<1>4. ASSUME found.sps # NoSet
      PROVE  /\ Wanted(id) = {<<found.pps, found.sps>>}
             /\ found.sps \in Sets \intersect Sps
  <2>1. /\ id < MaxPps /\ found.pps = manager.pps[id] /\ found.pps # NoSet
        /\ found.sps = FindSps(manager, found.pps.sps)
    BY <1>4 DEF Resolve, FindPps
  <2>2. Latest("pps", id) = {found.pps}
    BY <1>2, <1>3, <2>1, Limits DEF ManagerHoldsLatest
  <2>4. found.pps \in Pps
    BY <1>2, <2>1, Limits DEF Manager
  <2>5. found.pps.sps \in 0 .. MaxSps - 1
        /\ found.sps = manager.sps[found.pps.sps]
    BY <1>4, <2>1, <2>4, Limits DEF FindSps, Pps
  <2>6. Latest("sps", found.pps.sps) = {found.sps}
    BY <1>2, <1>3, <1>4, <2>5 DEF ManagerHoldsLatest
  <2> HIDE DEF found
  <2>7. ASSUME NEW pair \in received \X received
        PROVE  /\ pair[1] \in Latest("pps", id)
               /\ pair[2] \in Latest("sps", pair[1].sps)
               <=> pair = <<found.pps, found.sps>>
    <3>1. pair[1] \in Latest("pps", id) <=> pair[1] = found.pps
      BY <2>2
    <3>2. pair[1] = found.pps =>
            (pair[2] \in Latest("sps", pair[1].sps) <=> pair[2] = found.sps)
      BY <2>6
    <3>3. pair = <<pair[1], pair[2]>>
      OBVIOUS
    <3>. QED
      BY <3>1, <3>2, <3>3
  <2>8. found.pps \in received /\ found.sps \in received
        /\ found.sps.kind = "sps"
    BY <2>2, <2>6 DEF Latest
  <2>9. found.sps \in Sets \intersect Sps
    BY <1>2, <2>8, Limits DEF AnySet, Dci, Opi, Vps, Sps, Pps
  <2>10. <<found.pps, found.sps>> \in received \X received
    BY <2>8
  <2>. QED
    BY <2>7, <2>9, <2>10 DEF Wanted
<1>5. ASSUME Wanted(id) # {}
      PROVE  found.sps # NoSet
  <2>1. PICK pair \in received \X received :
          /\ pair[1] \in Latest("pps", id)
          /\ pair[2] \in Latest("sps", pair[1].sps)
    BY <1>5 DEF Wanted
  <2>2. PICK pps \in received, sps \in received :
          /\ pps.kind = "pps" /\ pps.id = id
          /\ sps.kind = "sps" /\ sps.id = pps.sps
          /\ pps \in Latest("pps", id)
          /\ sps \in Latest("sps", pps.sps)
    BY <2>1 DEF Latest
  <2>3. pps \in Pps /\ sps \in Sps
    BY <1>2, <2>2, Limits DEF AnySet, Dci, Opi, Vps, Sps, Pps
  <2>4. id < MaxPps /\ pps.sps < MaxSps
    BY <1>2, <2>2 DEF InRange
  <2>5. id \in DOMAIN manager.pps /\ pps.sps \in DOMAIN manager.sps
    BY <1>3, <2>3, <2>4, Limits DEF Pps
  <2>6. manager.pps[id] = pps /\ manager.sps[pps.sps] = sps
    BY <1>2, <2>2, <2>5 DEF ManagerHoldsLatest
  <2>7. pps # NoSet /\ sps # NoSet
    BY <2>3, Limits DEF AnySet
  <2>. QED
    BY <2>4, <2>6, <2>7 DEF Resolve, FindPps, FindSps
<1> HIDE DEF found
<1>6. WantedSps(id) = found.sps
  <2>1. CASE found.sps = NoSet
    BY <1>5, <2>1 DEF WantedSps
  <2>2. CASE found.sps # NoSet
    <3>1. Wanted(id) = {<<found.pps, found.sps>>}
      BY <1>4, <2>2
    <3>2. (CHOOSE pair \in Wanted(id) : TRUE) \in Wanted(id)
      BY <3>1, Zenon
    <3>3. (CHOOSE pair \in Wanted(id) : TRUE)[2] = found.sps
      BY <3>1, <3>2
    <3>4. WantedSps(id) = (CHOOSE pair \in Wanted(id) : TRUE)[2]
      BY <3>1, Zenon DEF WantedSps
    <3>. QED
      BY <3>3, <3>4
  <2>. QED
    BY <2>1, <2>2
<1>. QED
  BY <1>4, <1>6 DEF found

-----------------------------------------------------------------------------
(* The invariant holds initially and after clear().                        *)
LEMMA InvStart ==
  ASSUME manager = EmptyManager, tracker = NoPrevious, order = NoPrevious,
         received = {}, header = NoSet,
         event = NoEvent, shown = NoEvent, listening = TRUE,
         picture = NoPicture, counted = FALSE, call \in Calls \union {NoCall}
  PROVE  IInv
<1>1. NoPrevious \in Tracker
  BY DEF NoPrevious, Tracker
<1>2. EmptyManager \in Manager
  BY DEF EmptyManager, Manager
<1>3. TypeOK
  BY <1>1, <1>2 DEF TypeOK
<1>4. ManagerHoldsLatest
  BY DEF ManagerHoldsLatest, Latest, EmptyManager
<1>. QED
  BY <1>3, <1>4
  DEF IInv, TrackerFollowsListener, SlicesAreShownRight, NoEvent, NoPicture

LEMMA InvInit == Init => IInv
BY InvStart DEF Init

(* So does a step that stores and hears nothing; the picture may end.      *)
LEMMA InvQuiet ==
  ASSUME IInv, UNCHANGED <<manager, tracker, received, header, order, listening>>,
         event' = NoEvent,
         picture' \in {picture, NoPicture}, shown' = NoEvent,
         call' \in Calls \union {NoCall}, counted' \in BOOLEAN
  PROVE  IInv'
<1>1. TypeOK' /\ TrackerFollowsListener'
  BY DEF IInv, TypeOK, TrackerFollowsListener
<1>2. ManagerHoldsLatest'
  BY DEF IInv, ManagerHoldsLatest, Latest
<1>3. SlicesAreShownRight'
  BY DEF SlicesAreShownRight, NoEvent
<1>4. (\A set \in received : InRange(set))'
  BY DEF IInv
<1>5. (picture.known => header = ParsedHeader(picture.ph, WantedSps(picture.ph.pps)))'
  <2>1. ASSUME NEW id PROVE WantedSps(id)' = WantedSps(id)
    BY DEF WantedSps, Wanted, Latest
  <2>2. CASE picture' = picture
    BY <2>1, <2>2 DEF IInv
  <2>3. CASE picture' = NoPicture
    BY <2>3 DEF NoPicture
  <2>. QED
    BY <2>2, <2>3
<1>. QED
  BY <1>1, <1>2, <1>3, <1>4, <1>5 DEF IInv

(* No other set of its kind and id has been received.                      *)
LEMMA ReceivedAlone ==
  ASSUME manager \in Manager, received \subseteq Sets, ManagerHoldsLatest,
         \A s \in received : InRange(s), NEW set \in received
  PROVE  Latest(set.kind, set.id) = {set}
<1>1. set \in Latest(set.kind, set.id)
  BY DEF Latest
<1>2. /\ DOMAIN manager.vps = 0 .. MaxVps - 1
      /\ DOMAIN manager.sps = 0 .. MaxSps - 1
      /\ DOMAIN manager.pps = 0 .. MaxPps - 1
  BY DEF Manager
<1>3. \E slot : Latest(set.kind, set.id) = {slot} \ {NoSet}
  <2>1. CASE set \in Dci \union Opi
    BY <2>1 DEF ManagerHoldsLatest, Dci, Opi
  <2>2. CASE set \in Vps
    <3>1. set.kind = "vps" /\ set.id \in DOMAIN manager.vps
      BY <1>2, <2>2, Limits DEF Vps, InRange
    <3>2. Latest("vps", set.id) = {manager.vps[set.id]} \ {NoSet}
      BY <3>1 DEF ManagerHoldsLatest
    <3>. QED
      BY <3>1, <3>2
  <2>3. CASE set \in Sps
    <3>1. set.kind = "sps" /\ set.id \in DOMAIN manager.sps
      BY <1>2, <2>3, Limits DEF Sps, InRange
    <3>2. Latest("sps", set.id) = {manager.sps[set.id]} \ {NoSet}
      BY <3>1 DEF ManagerHoldsLatest
    <3>. QED
      BY <3>1, <3>2
  <2>4. CASE set \in Pps
    <3>1. set.kind = "pps" /\ set.id \in DOMAIN manager.pps
      BY <1>2, <2>4, Limits DEF Pps, InRange
    <3>2. Latest("pps", set.id) = {manager.pps[set.id]} \ {NoSet}
      BY <3>1 DEF ManagerHoldsLatest
    <3>. QED
      BY <3>1, <3>2
  <2>. QED
    BY <2>1, <2>2, <2>3, <2>4, Limits DEF AnySet
<1>. QED
  BY <1>1, <1>3

(* A parameter set replaces, for the manager and for the listener, the one *)
(* of its kind and id, and no other.                                       *)
LEMMA InvParameterSet ==
  ASSUME IInv, NEW set \in Sets, NEW throws \in BOOLEAN,
         ParameterSet(set, throws)
  PROVE  IInv'
<1>1. /\ manager \in Manager /\ received \subseteq Sets
      /\ \A s \in received : InRange(s)
      /\ ManagerHoldsLatest
  BY DEF IInv, TypeOK
<1>2. /\ set # NoSet
      /\ set.kind \in {"dci", "opi", "vps", "sps", "pps"}
      /\ set.kind \in {"dci", "opi"} => set.id = 0
  BY Limits DEF AnySet, Dci, Opi, Vps, Sps, Pps
<1>3. TypeOK'
  <2>1. manager' \in Manager
    BY <1>1, StoreType DEF ParameterSet
  <2>2. received' \subseteq Sets
    BY <1>1 DEF ParameterSet
  <2>3. counted' \in BOOLEAN
    BY Zenon DEF ParameterSet
  <2>. QED
    BY <2>1, <2>2, <2>3 DEF IInv, TypeOK, ParameterSet
<1>4. (\A s \in received : InRange(s))'
  BY <1>1 DEF ParameterSet
<1>5. ManagerHoldsLatest'
  <2>1. CASE ~ InRange(set)
    <3>1. manager' = manager /\ received' = received /\ header' = header
      BY <2>1 DEF ParameterSet, Store
    <3>. QED
      BY <1>1, <3>1 DEF ManagerHoldsLatest, Latest
  <2>2. CASE InRange(set)
    <3>1. ASSUME NEW kind, NEW id
          PROVE  Latest(kind, id)' = IF set.kind = kind /\ set.id = id
                                     THEN {set} ELSE Latest(kind, id)
      BY <2>2 DEF ParameterSet, Latest
    <3>2. /\ manager'.ph = manager.ph
          /\ manager'.dci = IF set.kind = "dci" THEN set ELSE manager.dci
          /\ manager'.opi = IF set.kind = "opi" THEN set ELSE manager.opi
          /\ \A i \in 0 .. MaxVps - 1 :
               manager'.vps[i] =
                 IF set.kind = "vps" /\ set.id = i THEN set ELSE manager.vps[i]
          /\ \A i \in 0 .. MaxSps - 1 :
               manager'.sps[i] =
                 IF set.kind = "sps" /\ set.id = i THEN set ELSE manager.sps[i]
          /\ \A i \in 0 .. MaxPps - 1 :
               manager'.pps[i] =
                 IF set.kind = "pps" /\ set.id = i THEN set ELSE manager.pps[i]
      BY <1>1, <2>2, StoreFiles DEF ParameterSet
    <3>3. manager' \in Manager
      BY <1>3 DEF TypeOK
    <3>4. /\ DOMAIN manager'.vps = 0 .. MaxVps - 1
          /\ DOMAIN manager'.sps = 0 .. MaxSps - 1
          /\ DOMAIN manager'.pps = 0 .. MaxPps - 1
          /\ DOMAIN manager.vps = 0 .. MaxVps - 1
          /\ DOMAIN manager.sps = 0 .. MaxSps - 1
          /\ DOMAIN manager.pps = 0 .. MaxPps - 1
      BY <1>1, <3>3 DEF Manager
    <3>5. ASSUME NEW i \in 0 .. MaxVps - 1
          PROVE  Latest("vps", i)' = {manager'.vps[i]} \ {NoSet}
      BY <1>1, <1>2, <3>1, <3>2, <3>4 DEF ManagerHoldsLatest
    <3>6. ASSUME NEW i \in 0 .. MaxSps - 1
          PROVE  Latest("sps", i)' = {manager'.sps[i]} \ {NoSet}
      BY <1>1, <1>2, <3>1, <3>2, <3>4 DEF ManagerHoldsLatest
    <3>7. ASSUME NEW i \in 0 .. MaxPps - 1
          PROVE  Latest("pps", i)' = {manager'.pps[i]} \ {NoSet}
      BY <1>1, <1>2, <3>1, <3>2, <3>4 DEF ManagerHoldsLatest
    <3>8. /\ Latest("dci", 0)' = {manager'.dci} \ {NoSet}
          /\ Latest("opi", 0)' = {manager'.opi} \ {NoSet}
      BY <1>1, <1>2, <3>1, <3>2 DEF ManagerHoldsLatest
    <3>9. manager'.ph = header'
      BY <1>1, <3>2 DEF ManagerHoldsLatest, ParameterSet
    <3>. QED
      BY <3>4, <3>5, <3>6, <3>7, <3>8, <3>9 DEF ManagerHoldsLatest
  <2>. QED
    BY <2>1, <2>2
<1>6. TrackerFollowsListener'
  BY DEF IInv, TrackerFollowsListener, ParameterSet
<1>7. SlicesAreShownRight'
  BY <1>2 DEF SlicesAreShownRight, ParameterSet, NoEvent
<1>8. (picture.known => header = ParsedHeader(picture.ph, WantedSps(picture.ph.pps)))'
  <2>1. CASE set \in received
    <3>1. Latest(set.kind, set.id) = {set}
      BY <1>1, <2>1, ReceivedAlone
    <3>2. received' = received /\ picture' = picture /\ header' = header
      BY <1>1, <2>1, <3>1 DEF ParameterSet
    <3>. QED
      BY <3>2 DEF IInv, WantedSps, Wanted, Latest
  <2>2. CASE set \notin received
    BY <2>2 DEF ParameterSet, NoPicture
  <2>. QED
    BY <2>1, <2>2
<1>. QED
  BY <1>3, <1>4, <1>5, <1>6, <1>7, <1>8 DEF IInv

(* A picture header is stored as it reads with the SPS at hand, which is   *)
(* the one the listener would read it with.                                *)
LEMMA InvPictureHeaderUnit ==
  ASSUME IInv, NEW ph \in SentHeaders, NEW throws \in BOOLEAN,
         PictureHeaderUnit(ph, throws)
  PROVE  IInv'
<1> DEFINE id == ph.pps % IdByte
           found == Resolve(manager, id)
           stored == ParsedHeader(ph, found.sps)
<1>1. /\ found.sps \in {NoSet} \union (Sets \intersect Sps)
      /\ WantedSps(id) = found.sps
  BY Narrowed, ResolveFindsWanted
<1>2. stored \in PictureHeaders
  BY <1>1, StreamAssumption
<1> HIDE DEF found
<1>3. /\ manager' = [manager EXCEPT !.ph = stored]
      /\ header' = ParsedHeader(ph, WantedSps(id))
      /\ picture' = PictureOf(ph)
      /\ UNCHANGED <<tracker, call, received, order, listening>>
      /\ shown' = NoEvent /\ event'.kind # "slice"
  BY DEF PictureHeaderUnit, StorePh, found, NoEvent
<1>4. TypeOK'
  <2>1. manager' \in Manager
    BY <1>2, <1>3 DEF IInv, TypeOK, Manager
  <2>2. counted' \in BOOLEAN
    BY Zenon DEF PictureHeaderUnit
  <2>. QED
    BY <1>3, <2>1, <2>2 DEF IInv, TypeOK, PictureOf
<1>5. ManagerHoldsLatest' /\ (\A set \in received : InRange(set))'
  <2>1. /\ manager'.dci = manager.dci /\ manager'.opi = manager.opi
        /\ manager'.vps = manager.vps /\ manager'.sps = manager.sps
        /\ manager'.pps = manager.pps /\ manager'.ph = stored
    BY <1>3 DEF IInv, TypeOK, Manager
  <2>2. header' = stored
    BY <1>1, <1>3
  <2>. QED
    BY <1>3, <2>1, <2>2 DEF IInv, ManagerHoldsLatest, Latest
<1>6. (picture.known => header = ParsedHeader(picture.ph, WantedSps(picture.ph.pps)))'
  <2>1. WantedSps(id)' = WantedSps(id)
    BY <1>3 DEF WantedSps, Wanted, Latest
  <2>. QED
    BY <1>3, <2>1, Narrowed
<1>7. TrackerFollowsListener' /\ SlicesAreShownRight'
  BY <1>3 DEF IInv, TrackerFollowsListener, SlicesAreShownRight, NoEvent
<1>. QED
  BY <1>4, <1>5, <1>6, <1>7 DEF IInv

(* If the listener knows the picture of a slice, the State parses it with  *)
(* the same header, read with the same sets.                               *)
LEMMA HeardIsParsed ==
  ASSUME IInv, NEW embedded \in SentHeaders \union {NoSet}
  PROVE  LET heard == IF embedded = NoSet THEN picture ELSE PictureOf(embedded)
             id == IF embedded # NoSet THEN embedded.pps % IdByte
                   ELSE IF manager.ph # NoSet THEN manager.ph.pps ELSE 0
             found == Resolve(manager, id)
             ph == IF embedded # NoSet THEN ParsedHeader(embedded, found.sps)
                   ELSE IF manager.ph # NoSet THEN manager.ph ELSE DefaultHeader
         IN heard.known =>
              /\ heard.ph \in SentHeaders
              /\ found.sps \in {NoSet} \union Sps
              /\ WantedSps(heard.ph.pps) = found.sps
              /\ ph = ParsedHeader(heard.ph, found.sps)
<1>1. CASE embedded # NoSet
  BY <1>1, Narrowed, ResolveFindsWanted
<1>2. CASE embedded = NoSet
  <2>. SUFFICES ASSUME picture.known
                PROVE  LET found == Resolve(manager, manager.ph.pps)
                       IN /\ picture.ph \in SentHeaders
                          /\ manager.ph # NoSet
                          /\ found.sps \in {NoSet} \union Sps
                          /\ WantedSps(picture.ph.pps) = found.sps
                          /\ manager.ph = ParsedHeader(picture.ph, found.sps)
    BY <1>2
  <2> DEFINE found == Resolve(manager, picture.ph.pps)
  <2>1. picture.ph \in SentHeaders /\ picture.ph.pps < IdByte
    <3>1. NoPicture.known = FALSE
      BY DEF NoPicture
    <3>2. picture # NoPicture
      BY <3>1
    <3>. QED
      BY <3>2 DEF IInv, TypeOK
  <2>2. picture.ph.pps \in Nat /\ picture.ph.pps % IdByte = picture.ph.pps
    BY <2>1, Limits DEF Header
  <2>3. /\ found.sps \in {NoSet} \union (Sets \intersect Sps)
        /\ WantedSps(picture.ph.pps) = found.sps
    BY <2>2, ResolveFindsWanted
  <2>4. manager.ph = ParsedHeader(picture.ph, found.sps)
    BY <2>3 DEF IInv, ManagerHoldsLatest
  <2> HIDE DEF found
  <2>5. manager.ph \in PictureHeaders
    BY <2>1, <2>3, <2>4, StreamAssumption
  <2>6. manager.ph.pps = picture.ph.pps
    BY <2>2, <2>4 DEF ParsedHeader
  <2>. QED
    BY <2>1, <2>3, <2>4, <2>5, <2>6, Limits DEF found
<1>. QED
  BY <1>1, <1>2

(* A slice takes both trackers the same way whenever the real one was in   *)
(* step or is put in step, and the handler is shown what the listener is.  *)
LEMMA InvSlice ==
  ASSUME IInv, NEW type \in SliceTypes,
         NEW embedded \in SentHeaders \union {NoSet}, NEW ok \in BOOLEAN,
         Slice(type, embedded, ok)
  PROVE  IInv'
<1> DEFINE heard == IF embedded = NoSet THEN picture ELSE PictureOf(embedded)
           id == IF embedded # NoSet THEN embedded.pps % IdByte
                 ELSE IF manager.ph # NoSet THEN manager.ph.pps ELSE 0
           found == Resolve(manager, id)
           ph == IF embedded # NoSet THEN ParsedHeader(embedded, found.sps)
                 ELSE IF manager.ph # NoSet THEN manager.ph ELSE DefaultHeader
           seen == Seen(type, ph)
           parses == ok /\ found.sps # NoSet
           After(t) == Advanced(t, seen, ph.period)
           Shown(t) == [kind |-> "slice", ph |-> ph,
                        poc |-> Derived(t, seen, ph.period)]
<1>1. /\ manager' = manager /\ call' = call /\ received' = received
      /\ header' = header
      /\ picture' \in {picture, NoPicture} /\ counted' = TRUE
  BY DEF Slice
<1>2. heard.known => /\ heard.ph \in SentHeaders
                     /\ found.sps \in {NoSet} \union Sps
                     /\ WantedSps(heard.ph.pps) = found.sps
                     /\ ph = ParsedHeader(heard.ph, found.sps)
  BY HeardIsParsed
<1>3. found.sps \in {NoSet} \union (Sets \intersect Sps)
  <2>1. id \in Nat
    BY Limits, Narrowed, StreamAssumption DEF IInv, TypeOK, Manager
  <2>. QED
    BY <2>1, ResolveFindsWanted
<1>4. ph.lsb \in Nat /\ ph.cycle \in {NoCycle} \union Nat /\ ph.period \in Nat
  <2>1. ph \in PictureHeaders \union {DefaultHeader}
    BY <1>3, Limits, StreamAssumption DEF IInv, TypeOK, Manager
  <2>. QED
    BY <2>1, StreamAssumption DEF DefaultHeader
<1>5. heard.known /\ found.sps # NoSet =>
        /\ ph.period \in Nat \ {0}
        /\ ph.period = LsbPeriod[found.sps.content]
        /\ Seen(type, heard.ph) = seen
  <2>1. heard.known /\ found.sps # NoSet => ph.period = LsbPeriod[found.sps.content]
    BY <1>2 DEF ParsedHeader
  <2>2. heard.known /\ found.sps # NoSet => LsbPeriod[found.sps.content] \in Nat \ {0}
    BY <1>2, StreamAssumption DEF Sps
  <2>3. heard.known /\ found.sps # NoSet => Seen(type, heard.ph) = seen
    <3>1. ASSUME NEW sent, NEW sps, sps # NoSet
          PROVE  /\ ParsedHeader(sent, sps).nonRef = sent.nonRef
                 /\ ParsedHeader(sent, sps).recovery = sent.recovery
                 /\ ParsedHeader(sent, sps).lsb = sent.lsb
                 /\ ParsedHeader(sent, sps).cycle = sent.cycle
      BY <3>1, Zenon DEF ParsedHeader
    <3>. HIDE DEF heard, found, ph
    <3>. SUFFICES ASSUME heard.known, found.sps # NoSet
                  PROVE  Seen(type, heard.ph) = Seen(type, ph)
      OBVIOUS
    <3>2. /\ ph.nonRef = heard.ph.nonRef /\ ph.recovery = heard.ph.recovery
          /\ ph.lsb = heard.ph.lsb /\ ph.cycle = heard.ph.cycle
      BY <1>2, <3>1
    <3>. QED
      BY <3>2, Zenon DEF Seen
  <2>. QED
    BY <2>1, <2>2, <2>3
<1> HIDE DEF found, ph, seen, heard
<1>6. IF "slice" \in call /\ parses /\ ph.period # 0
      THEN tracker' = After(tracker) /\ event' = Shown(tracker)
      ELSE tracker' = tracker
  BY DEF Slice, ParseSlice, found, ph, seen
<1>16. ~ ("slice" \in call /\ parses) => event' = NoEvent
  BY DEF Slice, ParseSlice, found
<1>7. heard.known =>
        /\ IF parses THEN order' = After(order) /\ shown' = Shown(order)
           ELSE order' = order /\ shown' = NoEvent
        /\ listening' = IF parses THEN InStep(type, heard.ph) ELSE listening
  <2>. SUFFICES ASSUME heard.known
                PROVE  /\ IF parses THEN order' = After(order) /\ shown' = Shown(order)
                          ELSE order' = order /\ shown' = NoEvent
                       /\ listening' = IF parses THEN InStep(type, heard.ph)
                                       ELSE listening
    OBVIOUS
  <2>1. /\ Listen(type, heard.ph, ok)
        /\ listening' = IF Parses(heard.ph, ok) THEN InStep(type, heard.ph)
                        ELSE listening
    BY DEF Slice, heard
  <2>2. Parses(heard.ph, ok) <=> parses
    BY <1>2 DEF Parses
  <2>. QED
    BY <1>2, <1>5, <2>1, <2>2 DEF Listen
<1>8. ~ heard.known => order' = order /\ shown' = NoEvent /\ listening' = FALSE
  BY DEF Slice, heard
<1>9. TypeOK'
  <2>1. /\ tracker \in Tracker /\ order \in Tracker
        /\ After(tracker) \in Tracker /\ After(order) \in Tracker
    <3>1. seen.lsb \in Nat /\ seen.cycle \in {NoCycle} \union Nat
      BY <1>4 DEF seen, Seen
    <3>. QED
      BY <1>4, <3>1, AdvancedType DEF IInv, TypeOK
  <2> HIDE DEF After, Shown
  <2>2. tracker' \in Tracker /\ order' \in Tracker
    <3>1. tracker' \in Tracker
      BY <1>6, <2>1
    <3>2. order' \in Tracker
      BY <1>7, <1>8, <2>1
    <3>. QED
      BY <3>1, <3>2
  <2>3. listening' \in BOOLEAN
    <3>1. InStep(type, heard.ph) \in BOOLEAN
      BY Zenon DEF InStep
    <3>. QED
      BY <1>7, <1>8, <3>1 DEF IInv, TypeOK
  <2>. QED
    BY <1>1, <2>2, <2>3 DEF IInv, TypeOK
<1>10. ManagerHoldsLatest' /\ (\A set \in received : InRange(set))'
  BY <1>1 DEF IInv, ManagerHoldsLatest, Latest
<1>11. (picture.known => header = ParsedHeader(picture.ph, WantedSps(picture.ph.pps)))'
  <2>1. ASSUME NEW other PROVE WantedSps(other)' = WantedSps(other)
    BY <1>1 DEF WantedSps, Wanted, Latest
  <2>2. CASE picture' = picture
    BY <1>1, <2>1, <2>2 DEF IInv
  <2>3. CASE picture' = NoPicture
    BY <2>3 DEF NoPicture
  <2>. QED
    BY <1>1, <2>2, <2>3
<1>12. ASSUME listening'
       PROVE  /\ tracker' = order'
              /\ "slice" \in {event'.kind, shown'.kind} => event' = shown'
  <2>1. heard.known
    BY <1>8, <1>12
  <2>2. CASE ~ parses
    <3>1. listening
      BY <1>7, <1>12, <2>1, <2>2
    <3>2. tracker = order
      BY <3>1 DEF IInv, TrackerFollowsListener
    <3>3. event' = NoEvent
      BY <1>16, <2>2
    <3>. QED
      BY <1>6, <1>7, <2>1, <2>2, <3>2, <3>3
  <2>3. CASE parses
    <3>1. InStep(type, heard.ph)
      BY <1>7, <1>12, <2>1, <2>3
    <3>2. "slice" \in call
      BY <3>1 DEF InStep
    <3>3. After(tracker) = After(order) /\ Shown(tracker) = Shown(order)
      <4>1. CASE listening
        BY <4>1 DEF IInv, TrackerFollowsListener
      <4>2. CASE ~ listening
        <5>1. BecomesPrevious(seen) /\ IsClvss(seen)
          BY <1>5, <2>1, <2>3, <3>1, <4>2 DEF InStep
        <5>. QED
          BY <5>1, StartForgets
      <4>. QED
        BY <4>1, <4>2
    <3>4. ph.period # 0
      BY <1>5, <2>1, <2>3
    <3> HIDE DEF After, Shown
    <3>. QED
      BY <1>6, <1>7, <2>1, <2>3, <3>2, <3>3, <3>4
  <2>. QED
    BY <2>2, <2>3
<1>. QED
  BY <1>9, <1>10, <1>11, <1>12
  DEF IInv, TrackerFollowsListener, SlicesAreShownRight

(* Every step preserves the invariant.                                     *)
LEMMA InvNext == IInv /\ [Next]_vars => IInv'
<1>. SUFFICES ASSUME IInv, [Next]_vars PROVE IInv'
  OBVIOUS
<1>1. call \in Calls \union {NoCall}
  BY DEF IInv, TypeOK
<1>2. ASSUME NEW listeners \in Calls, BeginCall(listeners) PROVE IInv'
  BY <1>2, InvQuiet DEF BeginCall, HearNothing
<1>3. CASE EndCall
  BY <1>3, InvQuiet DEF EndCall, HearNothing
<1>4. ASSUME NEW set \in Sets, NEW throws \in BOOLEAN, ParameterSet(set, throws)
      PROVE  IInv'
  BY <1>4, InvParameterSet
<1>5. ASSUME NEW ph \in SentHeaders, NEW throws \in BOOLEAN,
             PictureHeaderUnit(ph, throws)
      PROVE  IInv'
  BY <1>5, InvPictureHeaderUnit
<1>6. CASE BrokenUnit
  BY <1>1, <1>6, InvQuiet DEF BrokenUnit
<1>7. CASE OtherUnit
  BY <1>1, <1>7, InvQuiet DEF OtherUnit, HearNothing
<1>8. ASSUME NEW type \in SliceTypes, NEW ok \in BOOLEAN,
             NEW embedded \in SentHeaders \union {NoSet},
             Slice(type, embedded, ok)
      PROVE  IInv'
  BY <1>8, InvSlice
<1>9. CASE Clear
  <2>1. /\ manager' = EmptyManager /\ tracker' = NoPrevious
        /\ order' = NoPrevious /\ received' = {} /\ header' = NoSet /\ event' = NoEvent
        /\ shown' = NoEvent /\ listening' = TRUE /\ picture' = NoPicture
        /\ counted' = FALSE /\ call' \in Calls \union {NoCall}
    BY <1>1, <1>9 DEF Clear
  <2>2. (/\ manager = EmptyManager /\ tracker = NoPrevious
         /\ order = NoPrevious /\ received = {} /\ header = NoSet /\ event = NoEvent
         /\ shown = NoEvent /\ listening = TRUE /\ picture = NoPicture
         /\ counted = FALSE /\ call \in Calls \union {NoCall}
         => IInv)'
    BY InvStart, PTL
  <2>. QED
    BY <2>1, <2>2
<1>10. CASE UNCHANGED vars
  <2>1. ASSUME NEW id PROVE WantedSps(id)' = WantedSps(id)
    BY <1>10 DEF vars, WantedSps, Wanted, Latest
  <2>2. (picture.known => header = ParsedHeader(picture.ph, WantedSps(picture.ph.pps)))'
    BY <1>10, <2>1 DEF vars, IInv
  <2>. QED
    BY <1>10, <2>2
    DEF vars, IInv, TypeOK, ManagerHoldsLatest, Latest,
        TrackerFollowsListener, SlicesAreShownRight
<1>. QED
  BY <1>2, <1>3, <1>4, <1>5, <1>6, <1>7, <1>8, <1>9, <1>10 DEF Next

-----------------------------------------------------------------------------
(* The invariant holds of every behaviour.                                 *)
THEOREM Invariant == Spec => []IInv
BY InvInit, InvNext, PTL DEF Spec

(* The manager holds exactly the latest set of each kind and id since the  *)
(* last clear(), and the last picture header as it reads with the sets     *)
(* that had arrived before it.                                             *)
THEOREM HoldsLatest == Spec => []ManagerHoldsLatest
<1>1. IInv => ManagerHoldsLatest
  BY DEF IInv
<1>. QED
  BY <1>1, Invariant, PTL

(* A State that has missed nothing, or a sequence start ago, has the       *)
(* tracker of a listener to the whole stream.                              *)
THEOREM FollowsListener == Spec => []TrackerFollowsListener
<1>1. IInv => TrackerFollowsListener
  BY DEF IInv
<1>. QED
  BY <1>1, Invariant, PTL

(* A slice whose picture header arrived, in either form, is shown if and   *)
(* only if its sets have arrived and it parses, with that header and the   *)
(* order count of the whole stream, as long as the listener is in step: it *)
(* is not after a lost header or one whose PPS id is beyond a byte.        *)
THEOREM ShownRight == Spec => []SlicesAreShownRight
<1>1. IInv => SlicesAreShownRight
  BY DEF IInv
<1>. QED
  BY <1>1, Invariant, PTL
=============================================================================
