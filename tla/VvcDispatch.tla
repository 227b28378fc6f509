----------------------------- MODULE VvcDispatch -----------------------------
(***************************************************************************)
(* A VVC bs::State and the loop that feeds it: dispatch_state_vvc() and    *)
(* State::clear() (bsparser.hpp), with the parameter-set manager, the      *)
(* stored picture header and the order-count tracker they drive.           *)
(*                                                                         *)
(* One step is the loop body on one NAL unit.  A picture's header comes in *)
(* a NAL unit before its slices or embedded in its only slice.  The        *)
(* history variables are a listener to the whole stream that is never      *)
(* interrupted.                                                            *)
(***************************************************************************)
EXTENDS VvcParameterSets, VvcPocTracker

CONSTANTS
  Calls,          \* the handler sets a call may come with
  Sets,           \* the parameter sets the stream carries
  LsbPeriod,      \* MaxPicOrderCntLsb of an SPS, by its content
  SentHeaders,    \* the picture headers the encoder sends
  SliceTypes,     \* NAL types and temporal ids of the slices
  IdByte          \* 256: the pps_id of a picture header is narrowed to a byte

Listeners == {"dci", "opi", "vps", "sps", "pps", "ph", "slice"}

(* A picture header in the stream, and as parse_ph() returns it: of the    *)
(* PPS id a byte is left; without the SPS it stops after that id, and      *)
(* period (2 ^ poc_lsb_bits) is 0.                                         *)
Header == [pps : Nat, nonRef : BOOLEAN, recovery : BOOLEAN, lsb : Nat,
           cycle : {NoCycle} \union Nat]

ParsedHeader(ph, sps) ==
  IF sps = NoSet
  THEN [pps |-> ph.pps % IdByte, nonRef |-> ph.nonRef, recovery |-> FALSE,
        lsb |-> 0, cycle |-> NoCycle, period |-> 0]
  ELSE [pps |-> ph.pps % IdByte, nonRef |-> ph.nonRef, recovery |-> ph.recovery,
        lsb |-> ph.lsb, cycle |-> ph.cycle, period |-> LsbPeriod[sps.content]]

(* The header of a slice for which none was ever stored.                   *)
DefaultHeader == [pps |-> 0, nonRef |-> FALSE, recovery |-> FALSE, lsb |-> 0,
                  cycle |-> NoCycle, period |-> 0]

(* What derive() sees of a slice.                                          *)
Seen(type, ph) ==
  [nut |-> type.nut, tid |-> type.tid, nonRef |-> ph.nonRef,
   recovery |-> ph.recovery, lsb |-> ph.lsb, cycle |-> ph.cycle]

ASSUME StreamAssumption ==
  /\ Calls \subseteq SUBSET Listeners
  /\ Sets \subseteq AnySet
  /\ LsbPeriod \in [SpsContents -> Nat \ {0}]
  /\ SentHeaders \subseteq Header
  /\ SliceTypes \subseteq [nut : 0 .. 11, tid : Nat]
  /\ NoSet \notin SentHeaders
  /\ IdByte \in Nat /\ IdByte >= MaxPps
  /\ PictureHeaders \subseteq
       [pps : Nat, nonRef : BOOLEAN, recovery : BOOLEAN, lsb : Nat,
        cycle : {NoCycle} \union Nat, period : Nat]
  /\ \A ph \in SentHeaders, sps \in {NoSet} \union (Sets \intersect Sps) :
       ParsedHeader(ph, sps) \in PictureHeaders

NoCall == {"none"}
NoEvent == [kind |-> "none"]
NoPicture == [known |-> FALSE]

VARIABLES
  manager,        \* StateImpl::vvc_
  tracker,        \* StateImpl::vvc_poc_
  call,           \* the handlers of the running parse() call, or NoCall
  counted,        \* was the last NAL unit counted as parsed?
  event,          \* what the last step handed to a handler
  received,       \* history: the latest set of each kind and id
  header,         \* history: the last picture header unit, as it should read
  picture,        \* history: the current picture's header, if it arrived
  order,          \* history: the tracker of an uninterrupted listener
  shown,          \* history: what that listener is shown of the last unit
  listening       \* history: has the real tracker missed nothing that matters?

vars == <<manager, tracker, call, counted, event,
          received, header, picture, order, shown, listening>>

-----------------------------------------------------------------------------
(* What a listener to the whole stream knows.                              *)
Latest(kind, id) == {set \in received : set.kind = kind /\ set.id = id}

Wanted(ppsId) ==
  {pair \in received \X received :
     /\ pair[1] \in Latest("pps", ppsId)
     /\ pair[2] \in Latest("sps", pair[1].sps)}

WantedSps(ppsId) ==
  IF Wanted(ppsId) = {} THEN NoSet ELSE (CHOOSE pair \in Wanted(ppsId) : TRUE)[2]

(* The picture of a header it has heard.  An id that no byte holds it      *)
(* cannot follow: the State takes the header for one of another PPS.       *)
PictureOf(ph) == IF ph.pps < IdByte THEN [known |-> TRUE, ph |-> ph] ELSE NoPicture

(* It can parse a slice of the picture whose header is ph.                 *)
Parses(ph, ok) == ok /\ WantedSps(ph.pps) # NoSet

(* It hears a slice of that picture.                                       *)
Listen(type, ph, ok) ==
  LET sps == WantedSps(ph.pps)
      period == LsbPeriod[sps.content]
  IN IF Parses(ph, ok)
     THEN /\ order' = Advanced(order, Seen(type, ph), period)
          /\ shown' = [kind |-> "slice", ph |-> ParsedHeader(ph, sps),
                       poc |-> Derived(order, Seen(type, ph), period)]
     ELSE shown' = NoEvent /\ UNCHANGED order

HearNothing ==
  shown' = NoEvent /\ UNCHANGED <<received, header, picture, order, listening>>

-----------------------------------------------------------------------------
Init ==
  /\ manager = EmptyManager
  /\ tracker = NoPrevious
  /\ call = NoCall
  /\ counted = FALSE
  /\ event = NoEvent
  /\ received = {}
  /\ header = NoSet
  /\ picture = NoPicture
  /\ order = NoPrevious
  /\ shown = NoEvent
  /\ listening = TRUE

BeginCall(listeners) ==
  /\ call = NoCall
  /\ call' = listeners
  /\ counted' = FALSE
  /\ event' = NoEvent
  /\ HearNothing /\ UNCHANGED <<manager, tracker>>

(* The chunk is used up, or its framing throws out of the loop.            *)
EndCall ==
  /\ call # NoCall
  /\ call' = NoCall
  /\ counted' = FALSE
  /\ event' = NoEvent
  /\ HearNothing /\ UNCHANGED <<manager, tracker>>

(* A parameter set is parsed, stored and shown.  If its handler throws,    *)
(* the unit is not counted, but it stays stored.  A picture goes on over a *)
(* set that is only sent again; other sets come between pictures.          *)
ParameterSet(set, throws) ==
  /\ call # NoCall
  /\ manager' = Store(manager, set)
  /\ event' = IF set.kind \in call THEN set ELSE NoEvent
  /\ counted' = ~ (throws /\ set.kind \in call)
  /\ received' =
       IF InRange(set) THEN {set} \union (received \ Latest(set.kind, set.id))
       ELSE received
  /\ picture' = IF set \in received THEN picture ELSE NoPicture
  /\ shown' = NoEvent
  /\ UNCHANGED <<tracker, call, header, order, listening>>

(* A picture header in a NAL unit of its own: a first pass reads the PPS   *)
(* id, a second one, if the SPS is there, the whole header.                *)
PictureHeaderUnit(ph, throws) ==
  LET stored == ParsedHeader(ph, Resolve(manager, ph.pps % IdByte).sps)
  IN /\ call # NoCall
     /\ manager' = StorePh(manager, stored)
     /\ event' = IF "ph" \in call THEN [kind |-> "ph", ph |-> stored] ELSE NoEvent
     /\ counted' = ~ (throws /\ "ph" \in call)
     /\ header' = ParsedHeader(ph, WantedSps(ph.pps % IdByte))
     /\ picture' = PictureOf(ph)
     /\ shown' = NoEvent
     /\ UNCHANGED <<tracker, call, received, order, listening>>

(* A unit whose parser throws, among them a picture header: the slices     *)
(* that follow are of a picture the listener knows nothing about.          *)
BrokenUnit ==
  /\ call # NoCall
  /\ counted' = FALSE
  /\ event' = NoEvent
  /\ picture' = NoPicture
  /\ shown' = NoEvent
  /\ UNCHANGED <<manager, tracker, call, received, header, order, listening>>

(* Any other unit that is not a slice.                                     *)
OtherUnit ==
  /\ call # NoCall
  /\ counted' = TRUE
  /\ event' = NoEvent
  /\ HearNothing /\ UNCHANGED <<manager, tracker, call>>

(* Fault: a stored header takes precedence over the embedded one.          *)
ParseSliceWithStored(type, embedded, ok) ==
  LET last == IF manager.ph # NoSet THEN manager.ph ELSE DefaultHeader
      id == IF embedded # NoSet THEN embedded.pps % IdByte ELSE last.pps
      found == Resolve(manager, id)
      ph == IF embedded # NoSet /\ manager.ph = NoSet
            THEN ParsedHeader(embedded, found.sps) ELSE last
  IN IF ok /\ found.sps # NoSet /\ ph.period # 0
     THEN /\ event' = [kind |-> "slice", ph |-> ph,
                       poc |-> Derived(tracker, Seen(type, ph), ph.period)]
          /\ tracker' = Advanced(tracker, Seen(type, ph), ph.period)
     ELSE event' = NoEvent /\ UNCHANGED tracker

(* The part of the loop body that runs for slices if there is a handler,   *)
(* for a slice with an embedded header, or none (NoSet): two passes again, *)
(* then the order count, unless the LSB width is unknown.  Unlike in HEVC, *)
(* nothing compares the narrowed id with that of the PPS it finds.         *)
ParseSlice(type, embedded, ok) ==
  LET id == IF embedded # NoSet THEN embedded.pps % IdByte
            ELSE IF manager.ph # NoSet THEN manager.ph.pps ELSE 0
      found == Resolve(manager, id)
      ph == IF embedded # NoSet THEN ParsedHeader(embedded, found.sps)
            ELSE IF manager.ph # NoSet THEN manager.ph ELSE DefaultHeader
  IN IF ~ ok \/ found.sps = NoSet THEN event' = NoEvent /\ UNCHANGED tracker
     ELSE IF ph.period = 0
     THEN /\ event' = [kind |-> "slice", ph |-> ph, poc |-> 0]
          /\ UNCHANGED tracker
     ELSE /\ event' = [kind |-> "slice", ph |-> ph,
                       poc |-> Derived(tracker, Seen(type, ph), ph.period)]
          /\ tracker' = Advanced(tracker, Seen(type, ph), ph.period)

(* The listener gets in step with the stream again at a sequence start.    *)
InStep(type, ph) ==
  "slice" \in call /\ (listening \/ (BecomesPrevious(Seen(type, ph))
                                     /\ IsClvss(Seen(type, ph))))

Slice(type, embedded, ok) ==
  LET heard == IF embedded = NoSet THEN picture ELSE PictureOf(embedded)
  IN /\ call # NoCall
     /\ counted' = TRUE
     /\ IF "slice" \in call THEN ParseSlice(type, embedded, ok)
        ELSE event' = NoEvent /\ UNCHANGED tracker
     /\ picture' = IF embedded = NoSet THEN picture ELSE NoPicture
     /\ IF heard.known
        THEN /\ Listen(type, heard.ph, ok)
             /\ listening' = IF Parses(heard.ph, ok) THEN InStep(type, heard.ph)
                             ELSE listening
        ELSE /\ shown' = NoEvent
             /\ listening' = FALSE
             /\ UNCHANGED order
     /\ UNCHANGED <<manager, call, received, header>>

(* Fault: the tracker is not reset.                                        *)
ClearKeepsTracker ==
  /\ call = NoCall
  /\ manager' = EmptyManager
  /\ counted' = FALSE
  /\ event' = NoEvent
  /\ received' = {}
  /\ header' = NoSet
  /\ picture' = NoPicture
  /\ order' = NoPrevious
  /\ shown' = NoEvent
  /\ listening' = TRUE
  /\ UNCHANGED <<tracker, call>>

(* State::clear(), between two streams.                                    *)
Clear ==
  /\ call = NoCall
  /\ manager' = EmptyManager
  /\ tracker' = NoPrevious
  /\ counted' = FALSE
  /\ event' = NoEvent
  /\ received' = {}
  /\ header' = NoSet
  /\ picture' = NoPicture
  /\ order' = NoPrevious
  /\ shown' = NoEvent
  /\ listening' = TRUE
  /\ UNCHANGED call

Next ==
  \/ \E listeners \in Calls : BeginCall(listeners)
  \/ EndCall
  \/ \E set \in Sets, throws \in BOOLEAN : ParameterSet(set, throws)
  \/ \E ph \in SentHeaders, throws \in BOOLEAN : PictureHeaderUnit(ph, throws)
  \/ BrokenUnit
  \/ OtherUnit
  \/ \E type \in SliceTypes, embedded \in SentHeaders \union {NoSet}, ok \in BOOLEAN :
       Slice(type, embedded, ok)
  \/ Clear

Spec == Init /\ [][Next]_vars

-----------------------------------------------------------------------------
TypeOK ==
  /\ manager \in Manager
  /\ tracker \in Tracker /\ order \in Tracker
  /\ call \in Calls \union {NoCall}
  /\ counted \in BOOLEAN /\ listening \in BOOLEAN
  /\ received \subseteq Sets
  /\ picture \in {NoPicture} \union
       [known : {TRUE}, ph : {ph \in SentHeaders : ph.pps < IdByte}]

(* The manager holds exactly the latest set of each kind and id received   *)
(* since the last clear(), and the last picture header as it reads with    *)
(* the sets that had arrived before it, whatever broken units, throwing    *)
(* handlers and chunk borders came between.                                *)
ManagerHoldsLatest ==
  /\ manager.ph = header
  /\ Latest("dci", 0) = {manager.dci} \ {NoSet}
  /\ Latest("opi", 0) = {manager.opi} \ {NoSet}
  /\ \A i \in DOMAIN manager.vps : Latest("vps", i) = {manager.vps[i]} \ {NoSet}
  /\ \A i \in DOMAIN manager.sps : Latest("sps", i) = {manager.sps[i]} \ {NoSet}
  /\ \A i \in DOMAIN manager.pps : Latest("pps", i) = {manager.pps[i]} \ {NoSet}

(* A listener that was interrupted is in step again from the next sequence *)
(* start on; one that was not always is.                                   *)
TrackerFollowsListener == listening => tracker = order

(* A slice whose picture header arrived, in either form, is shown if and   *)
(* only if its sets have arrived and it parses; with that header (never    *)
(* with the one stored for an earlier picture) and with the order count of *)
(* the whole stream.  A listener whose picture header was lost or names a  *)
(* PPS beyond a byte is out of step until the next sequence start.         *)
SlicesAreShownRight ==
  listening /\ "slice" \in {event.kind, shown.kind} => event = shown

(* The inductive invariant behind the theorems of VvcDispatchProofs: what  *)
(* the listener remembers, the manager had room for, and the header of its *)
(* current picture is the last one stored, as it reads with the sets of    *)
(* now.                                                                    *)
IInv ==
  /\ TypeOK
  /\ \A set \in received : InRange(set)
  /\ picture.known => header = ParsedHeader(picture.ph, WantedSps(picture.ph.pps))
  /\ ManagerHoldsLatest
  /\ TrackerFollowsListener
  /\ SlicesAreShownRight
=============================================================================
