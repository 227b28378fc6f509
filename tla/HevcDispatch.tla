---------------------------- MODULE HevcDispatch ----------------------------
(***************************************************************************)
(* An HEVC bs::State and the loop that feeds it: dispatch_state_hevc(),    *)
(* store_hevc_parameter_set() and State::clear() (bsparser.hpp), with the  *)
(* parameter-set manager and the order-count tracker they drive.           *)
(*                                                                         *)
(* A stream arrives in chunks, one bs::parse() call each; a call brings    *)
(* its own handlers.  One step is the loop body on one NAL unit.  The      *)
(* history variables are a listener to the whole stream that is never      *)
(* interrupted: what it has heard since the last clear(), its own tracker, *)
(* and the slice it is shown.                                              *)
(***************************************************************************)
EXTENDS HevcParameterSets, HevcPocTracker

CONSTANTS
  Calls,          \* the handler sets a call may come with
  Sets,           \* the parameter sets the stream carries
  Slices,         \* the slice segments the stream carries
  LsbPeriod,      \* MaxPicOrderCntLsb of an SPS, by its content
  IdByte,         \* 256: the slice's pps_id is narrowed to a byte
  MaxChunk        \* NAL units in one call

Listeners == {"vps", "sps", "pps", "slice", "raw", "report"}

(* A slice segment NAL; if it is not well-formed, reading its pps_id or    *)
(* its header throws.  In a dependent segment lsb is 0.                    *)
Segment == [kind : {"slice"}, nut : 0 .. 31, tid : Nat, pps : Nat, lsb : Nat,
            wellFormed : BOOLEAN]

ASSUME CallsAssumption == Calls \subseteq SUBSET Listeners

ASSUME StreamAssumption ==
  /\ Sets \subseteq Vps \union Sps \union Pps
  /\ Slices \subseteq Segment
  /\ LsbPeriod \in [SpsContents -> Nat]
  /\ IdByte \in Nat /\ IdByte >= MaxPps
  /\ MaxChunk \in Nat

NoCall == {"none"}
NoEvent == [kind |-> "none"]

VARIABLES
  manager,        \* StateImpl::hevc_
  tracker,        \* StateImpl::hevc_poc_
  call,           \* the handlers of the running parse() call, or NoCall
  units,          \* NAL units this call has passed
  parsed,         \* its parsed_count
  event,          \* what the last step handed to a typed handler or report
  received,       \* history: the latest set of each kind and id
  order,          \* history: the tracker of an uninterrupted listener
  shown,          \* history: what that listener is shown of the last unit
  listening       \* history: has the real tracker missed nothing that matters?

vars == <<manager, tracker, call, units, parsed, event,
          received, order, shown, listening>>

-----------------------------------------------------------------------------
(* What a listener to the whole stream knows.                              *)
InRange(set) ==
  CASE set.kind = "vps" -> set.id < MaxVps
    [] set.kind = "sps" -> set.id < MaxSps
    [] set.kind = "pps" -> set.id < MaxPps

Latest(kind, id) == {set \in received : set.kind = kind /\ set.id = id}

(* The PPS and SPS pairs (at most one) a slice is to be parsed with.       *)
Wanted(slice) ==
  {pair \in received \X received :
     /\ pair[1] \in Latest("pps", slice.pps)
     /\ pair[2] \in Latest("sps", pair[1].sps)}

HearNothing == shown' = NoEvent /\ UNCHANGED <<received, order, listening>>

(* It hears a slice.                                                       *)
Listen(slice) ==
  IF slice.wellFormed /\ Wanted(slice) # {}
  THEN \E pair \in Wanted(slice) :
         LET period == LsbPeriod[pair[2].content]
         IN /\ order' = Advanced(order, slice.nut, slice.tid, slice.lsb, period)
            /\ shown' = [kind |-> "slice", pps |-> pair[1], sps |-> pair[2],
                         poc |-> Derived(order, slice.nut, slice.lsb, period)]
  ELSE shown' = NoEvent /\ UNCHANGED order

(* An IDR picture puts a tracker back in step, whatever it has missed.     *)
Refreshes(slice) ==
  /\ IsIdr(slice.nut) /\ slice.tid = 0
  /\ slice.wellFormed /\ Wanted(slice) # {}

-----------------------------------------------------------------------------
Init ==
  /\ manager = EmptyManager
  /\ tracker = NoPrevious
  /\ call = NoCall
  /\ units = 0 /\ parsed = 0
  /\ event = NoEvent
  /\ received = {}
  /\ order = NoPrevious
  /\ shown = NoEvent
  /\ listening = TRUE

(* Fault: the count is carried into the next call.                         *)
BeginCallKeepsCount(listeners) ==
  /\ call = NoCall
  /\ call' = listeners
  /\ units' = 0
  /\ event' = NoEvent
  /\ HearNothing /\ UNCHANGED <<manager, tracker, parsed>>

BeginCall(listeners) ==
  /\ call = NoCall
  /\ call' = listeners
  /\ units' = 0 /\ parsed' = 0
  /\ event' = NoEvent
  /\ HearNothing /\ UNCHANGED <<manager, tracker>>

(* The chunk is used up, or its framing throws out of the loop.            *)
EndCall ==
  /\ call # NoCall
  /\ call' = NoCall
  /\ event' = NoEvent
  /\ HearNothing /\ UNCHANGED <<manager, tracker, units, parsed>>

(* The end of the loop body: dispatch_nal() calls the raw handler, which   *)
(* may throw; then the NAL unit is not counted.                            *)
Dispatch(throws) ==
  /\ call # NoCall
  /\ units < MaxChunk
  /\ units' = units + 1
  /\ parsed' = IF "raw" \in call /\ ~ throws THEN parsed + 1 ELSE parsed
  /\ UNCHANGED call

(* A parameter set is parsed, stored, shown.  (A typed handler may throw:  *)
(* that happens after the store and is swallowed.)                         *)
ParameterSet(set, throws) ==
  /\ Dispatch(throws)
  /\ manager' = Store(manager, set)
  /\ event' = IF set.kind \in call \/ "report" \in call THEN set ELSE NoEvent
  /\ received' =
       IF InRange(set) THEN {set} \union (received \ Latest(set.kind, set.id))
       ELSE received
  /\ shown' = NoEvent
  /\ UNCHANGED <<tracker, order, listening>>

(* A parameter set whose parser throws, an SEI message, an access unit     *)
(* delimiter, ...                                                          *)
OtherUnit(throws) ==
  /\ Dispatch(throws)
  /\ event' = NoEvent
  /\ HearNothing /\ UNCHANGED <<manager, tracker>>

(* parse_nal_unit() throws: the loop goes on with the next unit.           *)
BrokenUnit ==
  /\ call # NoCall
  /\ units < MaxChunk
  /\ units' = units + 1
  /\ event' = NoEvent
  /\ HearNothing /\ UNCHANGED <<manager, tracker, call, parsed>>

(* Fault: the narrowed pps_id is not compared.                             *)
ParseSliceOfAnyPps(slice) ==
  LET found == Resolve(manager, slice.pps % IdByte)
      period == LsbPeriod[found.sps.content]
  IN IF slice.wellFormed /\ found.pps # NoSet
     THEN /\ tracker' = Advanced(tracker, slice.nut, slice.tid, slice.lsb, period)
          /\ event' = [kind |-> "slice", pps |-> found.pps, sps |-> found.sps,
                       poc |-> Derived(tracker, slice.nut, slice.lsb, period)]
     ELSE event' = NoEvent /\ UNCHANGED tracker

(* The part of the loop body that runs for slices if there is a handler:   *)
(* the pps_id is narrowed to a byte and resolved, the header parsed (which *)
(* refuses a PPS with another id), the order count derived and the header  *)
(* handed out.  An exception of the handler changes nothing any more.      *)
ParseSlice(slice) ==
  LET found == Resolve(manager, slice.pps % IdByte)
      period == LsbPeriod[found.sps.content]
      parses == /\ slice.wellFormed
                /\ found.pps # NoSet /\ found.sps # NoSet
                /\ found.pps.id = slice.pps
  IN IF parses
     THEN /\ tracker' = Advanced(tracker, slice.nut, slice.tid, slice.lsb, period)
          /\ event' = [kind |-> "slice", pps |-> found.pps, sps |-> found.sps,
                       poc |-> Derived(tracker, slice.nut, slice.lsb, period)]
     ELSE event' = NoEvent /\ UNCHANGED tracker

(* Fault: the order count is derived only once the handler has returned.   *)
SliceDerivedLate(slice, throws) ==
  /\ Dispatch(throws)
  /\ IF "slice" \in call /\ ~ throws THEN ParseSlice(slice)
     ELSE event' = NoEvent /\ UNCHANGED tracker
  /\ Listen(slice)
  /\ listening' = ("slice" \in call /\ (listening \/ Refreshes(slice)))
  /\ UNCHANGED <<manager, received>>

(* throws: the handler this slice is shown to throws.                      *)
Slice(slice, throws) ==
  /\ Dispatch(throws)
  /\ IF "slice" \in call THEN ParseSlice(slice)
     ELSE event' = NoEvent /\ UNCHANGED tracker
  /\ Listen(slice)
  /\ listening' = ("slice" \in call /\ (listening \/ Refreshes(slice)))
  /\ UNCHANGED <<manager, received>>

(* State::clear(), between two streams.                                    *)
Clear ==
  /\ call = NoCall
  /\ manager' = EmptyManager
  /\ tracker' = NoPrevious
  /\ event' = NoEvent
  /\ received' = {}
  /\ order' = NoPrevious
  /\ shown' = NoEvent
  /\ listening' = TRUE
  /\ UNCHANGED <<call, units, parsed>>

Next ==
  \/ \E listeners \in Calls : BeginCall(listeners)
  \/ EndCall
  \/ \E set \in Sets, throws \in BOOLEAN : ParameterSet(set, throws)
  \/ \E throws \in BOOLEAN : OtherUnit(throws)
  \/ BrokenUnit
  \/ \E slice \in Slices, throws \in BOOLEAN : Slice(slice, throws)
  \/ Clear

Spec == Init /\ [][Next]_vars

-----------------------------------------------------------------------------
TypeOK ==
  /\ manager \in Manager
  /\ tracker \in Tracker /\ order \in Tracker
  /\ call \in Calls \union {NoCall}
  /\ units \in 0 .. MaxChunk /\ parsed \in 0 .. units
  /\ received \subseteq Sets
  /\ listening \in BOOLEAN

(* The manager holds exactly the latest set of each kind and id received   *)
(* since the last clear(): nothing is lost by a broken unit, a throwing    *)
(* handler or the end of a call, and nothing is left of an earlier stream. *)
ManagerHoldsLatest ==
  /\ \A i \in DOMAIN manager.vps :
       Latest("vps", i) = {manager.vps[i]} \ {NoSet}
  /\ \A i \in DOMAIN manager.sps :
       Latest("sps", i) = {manager.sps[i]} \ {NoSet}
  /\ \A i \in DOMAIN manager.pps :
       Latest("pps", i) = {manager.pps[i]} \ {NoSet}

(* As long as every call has a slice handler, the tracker has seen every   *)
(* slice: chunk borders, broken slices and handlers that throw make no     *)
(* difference.  Having missed some, it is in step again from the next IDR  *)
(* picture on.                                                             *)
TrackerFollowsListener == listening => tracker = order

(* A listener in step is shown a slice if and only if its sets have        *)
(* arrived and it parses; with the latest of the sets it names (never      *)
(* those of an id that only shares its low byte), and with the order count *)
(* of the whole stream.                                                    *)
SlicesAreShownRight ==
  listening /\ "slice" \in {event.kind, shown.kind} => event = shown

(* The inductive invariant behind the theorems of HevcDispatchProofs: what *)
(* the listener remembers, the manager had room for.                       *)
IInv ==
  /\ TypeOK
  /\ \A set \in received : InRange(set)
  /\ ManagerHoldsLatest
  /\ TrackerFollowsListener
  /\ SlicesAreShownRight
=============================================================================
