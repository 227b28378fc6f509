---------------------------- MODULE StateDispatch ----------------------------
(***************************************************************************)
(* A bs::State for AVC, AV1, VP9 or VP8 and the loops that feed it:        *)
(* dispatch_state_avc(), dispatch_state_av1(), dispatch_state_vp_frame(),  *)
(* store_avc_parameter_set() and State::clear() (bsparser.hpp).  (HEVC and *)
(* VVC states have modules of their own, HevcDispatch and VvcDispatch.)    *)
(*                                                                         *)
(* A stream arrives in chunks, one bs::parse() call each; a call brings    *)
(* its own handlers.  One step is the loop body on one unit.  received,    *)
(* order, shown and listening are a listener to the whole AVC stream that  *)
(* is never interrupted; sequence and numbered, what an AV1 or VP listener *)
(* remembers.                                                              *)
(***************************************************************************)
EXTENDS AvcParameterSets, FiniteSets

CONSTANTS
  Codecs,         \* the codecs of the states
  Calls,          \* [codec -> the handler sets a call may come with]
  Sets,           \* the AVC parameter sets the stream carries
  Slices,         \* the AVC slices
  IdByte,         \* 256: the slice's pps_id is narrowed to a byte
  Sequences,      \* the AV1 sequence headers
  MaxChunk,       \* units in one call
  MaxMsb          \* bound: how far the order count's high part moves

(* An AVC slice; if it is not well-formed, its header throws.              *)
SliceHeader == [idr : BOOLEAN, reference : BOOLEAN, frameNum : Nat, lsb : Nat,
                structure : Structures, deltaBottom : Int, delta : Int \X Int]
SliceRecord == [pps : Nat, wellFormed : BOOLEAN, header : SliceHeader]

ASSUME StreamAssumption ==
  /\ Codecs \subseteq {"Avc", "Av1", "Vp9", "Vp8"}
  /\ Sets \subseteq SpsRecord \union PpsRecord
  /\ Slices \subseteq SliceRecord
  /\ IdByte \in Nat /\ IdByte >= MaxPps
  /\ MaxChunk \in Nat /\ MaxMsb \in Nat

NoCall == {"none"}
NoEvent == [kind |-> "none"]
NoSequence == "default"       \* a value-initialised av1::SequenceHeader

VARIABLES
  codec,
  manager,        \* StateImpl::avc_
  tracker,        \* StateImpl::avc_poc_
  av1_seq,        \* StateImpl::av1_seq_
  call,           \* the handlers of the running parse() call, or NoCall
  units,          \* units this call has passed
  parsed,         \* its parsed_count
  frames,         \* its frame_count (AV1)
  event,          \* what the last step handed to a typed handler or report
  received,       \* history: the latest set of each kind and id
  order,          \* history: the tracker of an uninterrupted listener
  shown,          \* history: what that listener is shown of the last unit
  listening,      \* history: has the real tracker missed nothing that matters?
  sequence,       \* history: the last sequence header since clear()
  numbered        \* history: the number of the call's last frame whose handler returned

avc     == <<manager, tracker, received, order, listening>>
history == <<received, order, shown, listening, sequence, numbered>>
vars    == <<codec, manager, tracker, av1_seq, call, units, parsed, frames, event, history>>

-----------------------------------------------------------------------------
(* What a listener to the whole AVC stream knows.                          *)
InRange(set) == IF set.kind = "sps" THEN set.id < MaxSps ELSE set.id < MaxPps

Latest(kind, id) == {set \in received : set.kind = kind /\ set.id = id}

Wanted(slice) ==
  {pair \in received \X received : /\ pair[1] \in Latest("pps", slice.pps)
                                   /\ pair[2] \in Latest("sps", pair[1].sps)}

AsShown(slice, pps, sps, prev) ==
  [kind |-> "slice", pps |-> pps, sps |-> sps,
   poc |-> Derived(prev, Contents[sps.content], slice.header)]

Listen(slice) ==
  IF slice.wellFormed /\ Wanted(slice) # {}
  THEN \E pair \in Wanted(slice) :
         /\ order' = Advanced(order, Contents[pair[2].content], slice.header)
         /\ shown' = AsShown(slice, pair[1], pair[2], order)
  ELSE shown' = NoEvent /\ UNCHANGED order

Refreshes(slice) == slice.header.idr /\ slice.wellFormed /\ Wanted(slice) # {}

-----------------------------------------------------------------------------
Init ==
  /\ codec \in Codecs
  /\ manager = EmptyManager /\ tracker = NoPrevious /\ av1_seq = NoSequence
  /\ call = NoCall /\ units = 0 /\ parsed = 0 /\ frames = 0
  /\ event = NoEvent
  /\ received = {} /\ order = NoPrevious /\ shown = NoEvent /\ listening = TRUE
  /\ sequence = NoSequence /\ numbered = -1

(* Fault: the frame count is carried into the next call.                   *)
BeginCallKeepsFrames(listeners) ==
  /\ call = NoCall
  /\ call' = listeners
  /\ units' = 0 /\ parsed' = 0
  /\ event' = NoEvent /\ shown' = NoEvent /\ numbered' = -1
  /\ UNCHANGED <<codec, av1_seq, avc, sequence, frames>>

BeginCall(listeners) ==
  /\ call = NoCall
  /\ call' = listeners
  /\ units' = 0 /\ parsed' = 0 /\ frames' = 0
  /\ event' = NoEvent /\ shown' = NoEvent /\ numbered' = -1
  /\ UNCHANGED <<codec, av1_seq, avc, sequence>>

(* The chunk is used up, or its framing throws out of the loop.            *)
EndCall ==
  /\ call # NoCall
  /\ call' = NoCall
  /\ event' = NoEvent /\ shown' = NoEvent
  /\ UNCHANGED <<codec, av1_seq, avc, units, parsed, frames, sequence, numbered>>

Unit(counted) ==
  /\ call # NoCall /\ units < MaxChunk
  /\ units' = units + 1
  /\ parsed' = IF counted THEN parsed + 1 ELSE parsed
  /\ UNCHANGED <<codec, call>>

(* A unit that is not framed or parsed, or only counted: a NAL unit with a *)
(* forbidden header, a set whose parser throws; a temporal delimiter.      *)
OtherUnit(throws) ==
  /\ Unit(~ throws /\ (codec = "Av1" \/ "raw" \in call))
  /\ event' = NoEvent /\ shown' = NoEvent
  /\ UNCHANGED <<av1_seq, avc, frames, sequence, numbered>>

-----------------------------------------------------------------------------
(* AVC.  A unit is counted if a raw handler returned from it.              *)
AvcUnit(throws) ==
  /\ codec = "Avc"
  /\ Unit("raw" \in call /\ ~ throws)
  /\ UNCHANGED <<av1_seq, frames, sequence, numbered>>

(* Parsed, stored, shown; what a typed handler throws is swallowed.        *)
ParameterSet(set, throws) ==
  /\ AvcUnit(throws)
  /\ manager' = Store(manager, set)
  /\ event' = IF set.kind \in call \/ "report" \in call THEN set ELSE NoEvent
  /\ received' = IF InRange(set) THEN {set} \union (received \ Latest(set.kind, set.id))
                 ELSE received
  /\ shown' = NoEvent
  /\ UNCHANGED <<tracker, order, listening>>

(* Fault: the pps_id is not compared after it was narrowed.                *)
AnyPps(slice) == TRUE

(* parse_slice_header() refuses a pps_id beyond 255.                       *)
PpsIdFits(slice) == slice.pps < IdByte

(* Fault: the tracker is moved before the header is known to parse.        *)
AdvancesOnBroken(slice, found) == found.pps # NoSet

(* The header is parsed with the sets its narrowed pps_id leads to.        *)
Parses(slice, found) == slice.wellFormed /\ PpsIdFits(slice) /\ found.pps # NoSet

Bounded(p) == p.msb \in - MaxMsb .. MaxMsb /\ p.frameNumOffset <= MaxMsb

Slice(slice, throws) ==
  LET found == Resolve(manager, slice.pps % IdByte) IN
  /\ AvcUnit(throws)
  /\ IF "slice" \in call /\ Parses(slice, found)
     THEN /\ tracker' = Advanced(tracker, Contents[found.sps.content], slice.header)
          /\ event' = AsShown(slice, found.pps, found.sps, tracker)
     ELSE event' = NoEvent /\ UNCHANGED tracker
  /\ Listen(slice)
  /\ Bounded(tracker') /\ Bounded(order')
  /\ listening' = ("slice" \in call /\ (listening \/ Refreshes(slice)))
  /\ UNCHANGED <<manager, received>>

-----------------------------------------------------------------------------
(* Fault: the header is stored only once its handler has returned.         *)
SequenceIfHandled(old, header, refused) == IF refused THEN old ELSE header

SequenceStored(old, header, refused) == header

(* AV1.  Whatever does not throw is counted.                               *)
SequenceHeader(header, throws) ==
  LET heard == "sequence_header" \in call IN
  /\ codec = "Av1"
  /\ Unit(~ (heard /\ throws))
  /\ av1_seq' = SequenceStored(av1_seq, header, heard /\ throws)
  /\ event' = IF heard THEN [kind |-> "sequence_header", seq |-> header] ELSE NoEvent
  /\ sequence' = header
  /\ UNCHANGED <<avc, shown, frames, numbered>>

(* A frame (header) OBU; nothing is parsed unless a handler wants it.      *)
FrameHeader(throws) ==
  LET heard == "frame_header" \in call IN
  /\ codec = "Av1"
  /\ Unit(~ (heard /\ throws))
  /\ frames' = IF heard THEN frames + 1 ELSE frames
  /\ event' = IF heard THEN [kind |-> "frame", seq |-> av1_seq, number |-> frames] ELSE NoEvent
  /\ numbered' = IF heard /\ ~ throws THEN frames ELSE numbered
  /\ UNCHANGED <<av1_seq, avc, shown, sequence>>

(* Fault: a counter VP frames never move.                                  *)
VpNumberOfFrames(counted, seen) == seen

(* VP9 and VP8: a frame is numbered by the frames counted before it.       *)
VpNumber(counted, seen) == counted

VpFrame(throws) ==
  LET heard == "frame_header" \in call
      number == VpNumber(parsed, frames) IN
  /\ codec \in {"Vp9", "Vp8"}
  /\ Unit(~ (heard /\ throws))
  /\ event' = IF heard THEN [kind |-> "frame", seq |-> NoSequence, number |-> number] ELSE NoEvent
  /\ numbered' = IF heard /\ ~ throws THEN number ELSE numbered
  /\ UNCHANGED <<av1_seq, avc, shown, frames, sequence>>

-----------------------------------------------------------------------------
(* State::clear(), between two streams: an AV1 state keeps av1_seq_.       *)
Clear ==
  /\ call = NoCall
  /\ manager' = EmptyManager
  /\ tracker' = NoPrevious
  /\ event' = NoEvent
  /\ received' = {} /\ order' = NoPrevious /\ shown' = NoEvent /\ listening' = TRUE
  /\ sequence' = NoSequence
  /\ UNCHANGED <<codec, av1_seq, call, units, parsed, frames, numbered>>

Next ==
  \/ \E listeners \in Calls[codec] : BeginCall(listeners)
  \/ EndCall
  \/ \E throws \in BOOLEAN :
       \/ OtherUnit(throws)
       \/ \E set \in Sets : ParameterSet(set, throws)
       \/ \E slice \in Slices : Slice(slice, throws)
       \/ \E header \in Sequences : SequenceHeader(header, throws)
       \/ FrameHeader(throws)
       \/ VpFrame(throws)
  \/ Clear

Spec == Init /\ [][Next]_vars

-----------------------------------------------------------------------------
(* The state, the running call and its counters have their types; a call   *)
(* numbers no more frames than it has seen units.                          *)
TypeOK ==
  /\ codec \in Codecs
  /\ manager \in Manager /\ tracker \in Prev /\ order \in Prev
  /\ av1_seq \in Sequences \union {NoSequence}
  /\ call \in Calls[codec] \union {NoCall}
  /\ units \in 0 .. MaxChunk /\ parsed \in 0 .. units /\ frames \in 0 .. units
  /\ received \subseteq Sets /\ listening \in BOOLEAN
  /\ numbered \in -1 .. units - 1

(* The AVC manager holds exactly the latest set of each kind and id since  *)
(* the last clear(): neither broken units, throwing handlers nor the end   *)
(* of a call lose one, and nothing is left of an earlier stream.           *)
ManagerHoldsLatest ==
  /\ \A i \in DOMAIN manager.sps : Latest("sps", i) = {manager.sps[i]} \ {NoSet}
  /\ \A i \in DOMAIN manager.pps : Latest("pps", i) = {manager.pps[i]} \ {NoSet}

(* As long as every call has a slice handler the AVC tracker has seen      *)
(* every slice, whatever chunks, broken slices and throwing handlers lie   *)
(* between; having missed some, it is in step again from the next IDR on.  *)
TrackerFollowsListener == listening => tracker = order

(* A listener in step is shown an AVC slice if and only if its sets have   *)
(* arrived and it parses: with the latest of the sets it names and the     *)
(* order count of the whole stream.                                        *)
SlicesAreShownRight ==
  listening /\ "slice" \in {event.kind, shown.kind} => event = shown

(* Once a stream has brought a sequence header, its AV1 frame headers are  *)
(* parsed with the last one, also across calls and if its handler threw.   *)
FramesReadTheirSequence ==
  event.kind = "frame" /\ sequence # NoSequence => event.seq = sequence

(* The inductive invariant behind the theorems of StateDispatchProofs:     *)
(* what the listener remembers, the manager had room for; only AVC streams *)
(* have slices and only AV1 streams sequence headers; and what numbers the *)
(* frames is ahead of them.                                                *)
IInv ==
  /\ TypeOK
  /\ \A set \in received : InRange(set)
  /\ ManagerHoldsLatest
  /\ TrackerFollowsListener
  /\ SlicesAreShownRight
  /\ FramesReadTheirSequence
  /\ codec # "Avc" => shown = NoEvent
  /\ sequence # NoSequence => codec = "Av1" /\ av1_seq = sequence
  /\ codec = "Av1" => numbered < frames
  /\ codec \in {"Vp9", "Vp8"} => numbered < parsed

(* Within a call, a frame is numbered after every frame before it whose    *)
(* handler returned, whatever units and exceptions lie between.            *)
NumbersGrow ==
  [][event'.kind = "frame" /\ call = call' => event'.number > numbered]_vars
=============================================================================
