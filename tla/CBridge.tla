------------------------------- MODULE CBridge -------------------------------
(***************************************************************************)
(* The C API (capi/bs_capi.cpp): a call on a thread stashes the caller's   *)
(* callback set in thread-local pointers, frames and parses its input and  *)
(* lets plain functions find the set there.  While a callback runs, the    *)
(* caller may enter the API again (with another state), on the same        *)
(* function or any other; another thread may be inside it at any time.     *)
(*                                                                         *)
(* One action is what a call does between two points where the caller's    *)
(* code runs.  The input is revealed unit by unit: its end, an unsupported *)
(* framing or an exception may come after any unit.  Every member of a     *)
(* callback set is taken to be set (a NULL member only skips a callback).  *)
(* What a unit parses to is its kind; the heap is a set of blocks, each    *)
(* a mirror's number and the path of the pointer to it.                    *)
(***************************************************************************)
EXTENDS CStructs, Naturals, FiniteSets

CONSTANTS Threads,    \* the caller's threads
          Codecs,     \* the codecs of the caller's states
          MaxCalls,   \* bound: API calls in a behaviour
          MaxUnits    \* bound: units in one call's input

AllCodecs == {"Hevc", "Avc", "Vvc", "Av1", "Vp9", "Vp8"}   \* BsCodec

ASSUME CodecsAssumption == Codecs \subseteq AllCodecs
ASSUME BoundsAssumption == MaxCalls \in Nat /\ MaxUnits \in Nat

None == 0             \* a null pointer; a call's set has the call's number
Probed == "auto"      \* no state given: the codec is probed

Fns   == {"parse", "report", "typed", "struct_report"}
Slots == {"raw"} \cup Codecs      \* g_handlers, g_hevc_h ... g_vp8_h

VARIABLES g_handlers,        \* [thread -> [slot -> call whose set it points at]]
          g_data_start,      \* [thread -> call whose input it points at]
          g_entries,         \* [thread -> Seq of entries], kept from call to call
          g_collector_codec,
          g_struct_entries,
          calls,             \* [thread -> Seq of open calls], the innermost first
          heap,              \* allocated blocks
          reports,           \* reports the caller has not destroyed yet
          answers,           \* [thread -> what the last call returned]
          nextCall, nextMirror,
          faults,            \* accesses through pointers that lead nowhere
          taken              \* history: calls in whose place a nested call has stashed

tls  == <<g_handlers, g_data_start, g_entries, g_collector_codec, g_struct_entries>>
user == <<heap, reports, answers, nextCall, nextMirror, faults, taken>>
vars == <<tls, calls, user>>

(* Fault: plain static variables.                                          *)
SharedByAll(t) == CHOOSE u \in Threads : TRUE

(* thread_local: each thread has its own copy of the five.                 *)
Tls(t) == t

-----------------------------------------------------------------------------
(* Which mirror a unit of a kind is converted to (typed callbacks); SEI    *)
(* messages are handed over as bytes of the input.                         *)
TypedMirrors ==
  [Hevc |-> [vps |-> BsHevcVideoParameterSet, sps |-> BsHevcSequenceParameterSet,
             pps |-> BsHevcPictureParameterSet, slice |-> BsHevcSliceSegmentHeader],
   Avc  |-> [sps |-> BsAvcSequenceParameterSet, pps |-> BsAvcPictureParameterSet,
             slice |-> BsAvcSliceHeader],
   Vvc  |-> [dci |-> BsVvcDci, opi |-> BsVvcOpi, vps |-> BsVvcVideoParameterSet,
             sps |-> BsVvcSequenceParameterSet, pps |-> BsVvcPictureParameterSet,
             ph |-> BsVvcPictureHeader, slice |-> BsVvcSliceHeader],
   Av1  |-> [sequence_header |-> BsAv1SequenceHeader, frame_header |-> BsAv1FrameHeader],
   Vp9  |-> [frame_header |-> BsVp9FrameHeader],
   Vp8  |-> [frame_header |-> BsVp8FrameHeader]]

(* The struct report leaves HEVC and AVC slices out.                       *)
ReportMirrors ==
  [TypedMirrors EXCEPT
     !.Hevc = [k \in {"vps", "sps", "pps"} |-> TypedMirrors.Hevc[k]],
     !.Avc  = [k \in {"sps", "pps"} |-> TypedMirrors.Avc[k]]]

HasSei(codec) == codec \in {"Hevc", "Avc"}

(* HEVC and AVC go through bs::parse() and adaptors that look g_handlers   *)
(* up; the other codecs are walked here, with the set as an argument.      *)
ThroughAdaptors(codec) == codec \in {"Hevc", "Avc"}

Blocks(m, mirror)  == {<<m, p>> : p \in {<<>>} \cup Allocated(mirror)}
Deleted(m, mirror) == {<<m, p>> : p \in {<<>>} \cup Released(mirror)}

-----------------------------------------------------------------------------
Open(t)   == calls[t] # <<>>
Top(t)    == Head(calls[t])
Callback(t) == Open(t) /\ Top(t).at \in {"nal", "slot", "typed"}

(* An access through a pointer that leads nowhere is undefined: the model  *)
(* takes no step after it.                                                 *)
Running == faults = {}

At(t, place) == Running /\ Open(t) /\ Top(t).at = place
Between(t)   == At(t, "between")

SlotOf(fn, codec) == CASE fn \in {"parse", "report"} -> "raw"
                       [] fn = "typed"               -> codec
                       [] OTHER                      -> "entries"

(* The open calls around this one whose pointers it is about to overwrite. *)
Overwritten(t, fn, codec) ==
  {calls[t][i].id : i \in {j \in DOMAIN calls[t] :
                            SlotOf(calls[t][j].fn, calls[t][j].codec) = SlotOf(fn, codec)}}

(* Fault: the probe's answer is not used.                                  *)
CodecAsked(asked, probed) == asked

CodecOf(asked, probed) == IF asked = Probed THEN probed ELSE asked

(* Fault: g_entries.clear() is forgotten.                                  *)
LeftOver(entries) == entries

(* What the call before left in g_entries, when a report begins.           *)
Cleared(entries) == <<>>

NewCall(fn, codec, auto) ==
  [id |-> nextCall, fn |-> fn, codec |-> codec, auto |-> auto, count |-> 0, missed |-> FALSE,
   at |-> "between", to |-> None, base |-> None, kind |-> "", mirror |-> 0]

Enter(t, fn, codec, auto) ==
  /\ calls' = [calls EXCEPT ![t] = <<NewCall(fn, codec, auto)>> \o @]
  /\ nextCall' = nextCall + 1
  /\ taken' = taken \cup Overwritten(t, fn, codec)
  /\ UNCHANGED <<heap, reports, answers, nextMirror, faults>>

MayEnter(t) == /\ Running /\ nextCall <= MaxCalls
               /\ ~Open(t) \/ Callback(t)

BsParse(t) == \E codec \in Codecs :
  /\ MayEnter(t)
  /\ Enter(t, "parse", codec, FALSE)
  /\ g_handlers' = [g_handlers EXCEPT ![Tls(t)].raw = nextCall]
  /\ g_data_start' = [g_data_start EXCEPT ![Tls(t)] = nextCall]
  /\ UNCHANGED <<g_entries, g_collector_codec, g_struct_entries>>

BsParseReport(t) == \E asked \in Codecs \cup {Probed}, probed \in Codecs :
  LET codec == CodecOf(asked, probed) IN
  /\ MayEnter(t)
  /\ Enter(t, "report", codec, asked = Probed)
  /\ g_entries' = [g_entries EXCEPT ![Tls(t)] = Cleared(@)]
  /\ g_collector_codec' = [g_collector_codec EXCEPT ![Tls(t)] = codec]
  /\ g_handlers' = [g_handlers EXCEPT ![Tls(t)].raw = nextCall]
  /\ g_data_start' = [g_data_start EXCEPT ![Tls(t)] = nextCall]
  /\ UNCHANGED g_struct_entries

BsParseTyped(t) == \E codec \in Codecs :
  /\ MayEnter(t)
  /\ Enter(t, "typed", codec, FALSE)
  /\ g_handlers' = [g_handlers EXCEPT ![Tls(t)][codec] = nextCall]
  /\ UNCHANGED <<g_data_start, g_entries, g_collector_codec, g_struct_entries>>

BsParseStructReport(t) == \E asked \in Codecs \cup {Probed}, probed \in Codecs :
  /\ MayEnter(t)
  /\ Enter(t, "struct_report", CodecOf(asked, probed), asked = Probed)
  /\ g_struct_entries' = [g_struct_entries EXCEPT ![Tls(t)] = <<>>]
  /\ UNCHANGED <<g_handlers, g_data_start, g_entries, g_collector_codec>>

(* A null argument or a state of another codec: answered before anything   *)
(* is stashed.                                                             *)
Refused(t) == \E fn \in Fns :
  /\ MayEnter(t)
  /\ answers' = [answers EXCEPT ![t] = [fn |-> fn, ok |-> FALSE, error |-> TRUE]]
  /\ nextCall' = nextCall + 1
  /\ UNCHANGED <<tls, calls, heap, reports, nextMirror, faults, taken>>

-----------------------------------------------------------------------------
(* One unit of the raw path: the catch-all callback first.                 *)
SetTop(t, c) == calls' = [calls EXCEPT ![t] = <<c>> \o Tail(@)]

LookUp(t) == IF ThroughAdaptors(Top(t).codec) THEN g_handlers[Tls(t)].raw ELSE Top(t).id

(* Where offsets are counted from: the walkers fill a unit in once.        *)
SlotBase(t) == IF ThroughAdaptors(Top(t).codec) THEN g_data_start[Tls(t)] ELSE Top(t).base

(* A pointer to the set of a call that has not returned.                   *)
Stands(h) == \E u \in Threads : \E i \in DOMAIN calls[u] : calls[u][i].id = h

Faults(fault) == /\ faults' = faults \cup {fault}
                 /\ UNCHANGED <<tls, calls, heap, reports, answers, nextCall, nextMirror, taken>>

MoreUnits(t) == Between(t) /\ Top(t).count < MaxUnits

EmitNal(t) ==
  LET h == LookUp(t)
      c == [Top(t) EXCEPT !.count = @ + 1] IN
  /\ MoreUnits(t) /\ Top(t).fn = "parse"
  /\ \/ h = None /\ SetTop(t, [c EXCEPT !.missed = TRUE]) /\ UNCHANGED <<tls, user>>
     \/ h # None /\ ~Stands(h) /\ Faults("dangling")
     \/ /\ Stands(h)
        /\ SetTop(t, [c EXCEPT !.at = "nal", !.to = h, !.base = g_data_start[Tls(t)]])
        /\ UNCHANGED <<tls, user>>

(* The second callback, for the type: the adaptors read g_handlers again,  *)
(* and go through it without another test.                                 *)
EmitSlot(t) ==
  LET h == LookUp(t) IN
  /\ At(t, "nal")
  /\ \/ h = None /\ Faults("null")
     \/ h # None /\ ~Stands(h) /\ Faults("dangling")
     \/ /\ Stands(h)
        /\ SetTop(t, [Top(t) EXCEPT !.at = "slot", !.to = h, !.base = SlotBase(t)])
        /\ UNCHANGED <<tls, user>>

SlotReturns(t) ==
  /\ At(t, "slot")
  /\ SetTop(t, [Top(t) EXCEPT !.at = "between", !.to = None, !.base = None])
  /\ UNCHANGED <<tls, user>>

(* bs_parse_report() points `nal` at collect(), which runs to its end.     *)
Collect(t) ==
  LET h == LookUp(t)
      c == [Top(t) EXCEPT !.count = @ + 1]
      e == [call |-> c.id, unit |-> c.count, codec |-> g_collector_codec[Tls(t)],
            base |-> g_data_start[Tls(t)]] IN
  /\ MoreUnits(t) /\ Top(t).fn = "report"
  /\ SetTop(t, c)
  /\ g_entries' = [g_entries EXCEPT ![Tls(t)] = IF h = None THEN @ ELSE Append(@, e)]
  /\ UNCHANGED <<g_handlers, g_data_start, g_collector_codec, g_struct_entries, user>>

-----------------------------------------------------------------------------
(* One unit of the typed path: convert, call back, free.                   *)
DeliverTyped(t) ==
  LET h == g_handlers[Tls(t)][Top(t).codec]
      c == [Top(t) EXCEPT !.count = @ + 1] IN
  /\ MoreUnits(t) /\ Top(t).fn = "typed"
  /\ \/ /\ h = None
        /\ SetTop(t, [c EXCEPT !.missed = TRUE])
        /\ UNCHANGED <<heap, nextMirror>>
     \/ /\ h # None
        /\ \E k \in DOMAIN TypedMirrors[c.codec] :
             /\ SetTop(t, [c EXCEPT !.at = "typed", !.to = h, !.kind = k, !.mirror = nextMirror])
             /\ heap' = heap \cup Blocks(nextMirror, TypedMirrors[c.codec][k])
        /\ nextMirror' = nextMirror + 1
  /\ UNCHANGED <<tls, reports, answers, nextCall, faults, taken>>

DeliverSei(t) ==
  LET h == g_handlers[Tls(t)][Top(t).codec]
      c == [Top(t) EXCEPT !.count = @ + 1] IN
  /\ MoreUnits(t) /\ Top(t).fn = "typed" /\ HasSei(Top(t).codec)
  /\ SetTop(t, IF h = None THEN [c EXCEPT !.missed = TRUE]
               ELSE [c EXCEPT !.at = "typed", !.to = h, !.kind = "sei"])
  /\ UNCHANGED <<tls, user>>

TypedReturns(t) ==
  LET c    == Top(t)
      gone == IF c.kind = "sei" THEN {} ELSE Deleted(c.mirror, TypedMirrors[c.codec][c.kind]) IN
  /\ At(t, "typed")
  /\ SetTop(t, [c EXCEPT !.at = "between", !.to = None, !.kind = "", !.mirror = 0])
  /\ heap' = heap \ gone
  /\ faults' = IF gone \subseteq heap THEN faults ELSE faults \cup {"freed twice"}
  /\ UNCHANGED <<tls, reports, answers, nextCall, nextMirror, taken>>

CollectStruct(t) ==
  LET c == [Top(t) EXCEPT !.count = @ + 1] IN
  /\ MoreUnits(t) /\ Top(t).fn = "struct_report"
  /\ \E k \in DOMAIN ReportMirrors[c.codec] :
       /\ g_struct_entries' = [g_struct_entries EXCEPT ![Tls(t)] =
            Append(@, [call |-> c.id, unit |-> c.count, mirror |-> nextMirror,
                       struct |-> ReportMirrors[c.codec][k]])]
       /\ heap' = heap \cup Blocks(nextMirror, ReportMirrors[c.codec][k])
  /\ SetTop(t, c)
  /\ nextMirror' = nextMirror + 1
  /\ UNCHANGED <<g_handlers, g_data_start, g_entries, g_collector_codec,
                 reports, answers, nextCall, faults, taken>>

-----------------------------------------------------------------------------
(* Returning. *)
Elements(s) == {s[i] : i \in DOMAIN s}

FreeEntries(entries) ==
  LET gone == UNION {Deleted(e.mirror, e.struct) : e \in Elements(entries)} IN
  /\ heap' = heap \ gone
  /\ faults' = IF gone \subseteq heap THEN faults ELSE faults \cup {"freed twice"}

(* Fault: the entries are dropped, not freed.                              *)
Dropped(entries) == <<>>

(* What the catch block of bs_parse_struct_report() frees.                 *)
Collected(entries) == entries

Leave(t, ok, error) ==
  /\ calls' = [calls EXCEPT ![t] = Tail(@)]
  /\ answers' = [answers EXCEPT ![t] = [fn |-> Top(t).fn, ok |-> ok, error |-> error]]
  /\ UNCHANGED <<nextCall, nextMirror, taken, g_collector_codec>>

ResetRaw(t) == /\ g_handlers' = [g_handlers EXCEPT ![Tls(t)].raw = None]
               /\ g_data_start' = [g_data_start EXCEPT ![Tls(t)] = None]

(* Fault: a typed call's catch block leaves its pointer set.               *)
LeftSet(slots, codec) == slots

AfterThrow(slots, codec) == [slots EXCEPT ![codec] = None]

Returns(t, error) ==
  LET c == Top(t) IN
  /\ Between(t)
  /\ CASE c.fn = "parse" ->
            /\ Leave(t, ~error, error) /\ ResetRaw(t)
            /\ UNCHANGED <<g_entries, g_struct_entries, heap, reports, faults>>
       [] c.fn = "report" ->
            /\ Leave(t, TRUE, error) /\ ResetRaw(t)
            /\ reports' = reports \cup {[id |-> c.id, fn |-> c.fn, codec |-> c.codec,
                                         count |-> c.count, entries |-> g_entries[Tls(t)]]}
            /\ UNCHANGED <<g_entries, g_struct_entries, heap, faults>>
       [] c.fn = "typed" ->
            /\ Leave(t, TRUE, error)
            /\ g_handlers' = [g_handlers EXCEPT ![Tls(t)][c.codec] = None]
            /\ UNCHANGED <<g_data_start, g_entries, g_struct_entries, heap, reports, faults>>
       [] OTHER ->
            /\ Leave(t, TRUE, error)
            /\ reports' = reports \cup {[id |-> c.id, fn |-> c.fn, codec |-> c.codec,
                                         count |-> c.count, entries |-> g_struct_entries[Tls(t)]]}
            /\ g_struct_entries' = [g_struct_entries EXCEPT ![Tls(t)] = <<>>]
            /\ UNCHANGED <<g_handlers, g_data_start, g_entries, heap, faults>>

(* The catch blocks; bs_parse_report()'s leaves g_handlers as it is.       *)
Throws(t) ==
  LET c == Top(t) IN
  /\ Between(t)
  /\ Leave(t, FALSE, TRUE)
  /\ CASE c.fn = "parse" ->
            /\ ResetRaw(t)
            /\ UNCHANGED <<g_entries, g_struct_entries, heap, faults>>
       [] c.fn = "report" ->
            /\ g_data_start' = [g_data_start EXCEPT ![Tls(t)] = None]
            /\ UNCHANGED <<g_handlers, g_entries, g_struct_entries, heap, faults>>
       [] c.fn = "typed" ->
            /\ g_handlers' = [g_handlers EXCEPT ![Tls(t)] = AfterThrow(@, c.codec)]
            /\ UNCHANGED <<g_data_start, g_entries, g_struct_entries, heap, faults>>
       [] OTHER ->
            /\ FreeEntries(Collected(g_struct_entries[Tls(t)]))
            /\ g_struct_entries' = [g_struct_entries EXCEPT ![Tls(t)] = <<>>]
            /\ UNCHANGED <<g_handlers, g_data_start, g_entries>>
  /\ UNCHANGED reports

Finish(t) == Returns(t, FALSE)

(* The framing asked for is not one of the codec's: bs::parse() throws, a  *)
(* walk is skipped with the error set.  A probed codec brings its framing. *)
UnsupportedFraming(t) ==
  /\ Between(t) /\ Top(t).count = 0 /\ ~Top(t).auto
  /\ IF Top(t).fn \in {"parse", "report"} /\ ~ThroughAdaptors(Top(t).codec)
     THEN Returns(t, TRUE) ELSE Throws(t)

(* bs_report_destroy(), bs_struct_report_destroy().                        *)
Destroy == \E r \in reports :
  /\ Running
  /\ reports' = reports \ {r}
  /\ IF r.fn = "struct_report" THEN FreeEntries(r.entries) ELSE UNCHANGED <<heap, faults>>
  /\ UNCHANGED <<tls, calls, answers, nextCall, nextMirror, taken>>

-----------------------------------------------------------------------------
Init ==
  /\ g_handlers = [t \in Threads |-> [s \in Slots |-> None]]
  /\ g_data_start = [t \in Threads |-> None]
  /\ g_entries = [t \in Threads |-> <<>>]
  /\ g_collector_codec = [t \in Threads |-> "Hevc"]
  /\ g_struct_entries = [t \in Threads |-> <<>>]
  /\ calls = [t \in Threads |-> <<>>]
  /\ answers = [t \in Threads |-> [fn |-> "parse", ok |-> TRUE, error |-> FALSE]]
  /\ heap = {} /\ reports = {} /\ faults = {} /\ taken = {}
  /\ nextCall = 1 /\ nextMirror = 1

Next ==
  \/ \E t \in Threads :
       \/ BsParse(t) \/ BsParseReport(t) \/ BsParseTyped(t) \/ BsParseStructReport(t) \/ Refused(t)
       \/ EmitNal(t) \/ EmitSlot(t) \/ SlotReturns(t) \/ Collect(t)
       \/ DeliverTyped(t) \/ DeliverSei(t) \/ TypedReturns(t) \/ CollectStruct(t)
       \/ Finish(t) \/ Throws(t) \/ UnsupportedFraming(t)
  \/ Destroy

Spec == Init /\ [][Next]_vars

-----------------------------------------------------------------------------
Kinds == {"", "sei"} \cup UNION {DOMAIN TypedMirrors[c] : c \in Codecs}

CallType == [id : 1..MaxCalls, fn : Fns, codec : Codecs, auto : BOOLEAN, count : 0..MaxUnits,
             missed : BOOLEAN, at : {"between", "nal", "slot", "typed"},
             to : 0..MaxCalls, base : 0..MaxCalls,
             kind : Kinds, mirror : Nat]

(* The thread-local variables, the open calls and the answers have their   *)
(* types; a codec is one of the codecs, never the request to probe for it. *)
TypeOK ==
  /\ g_handlers \in [Threads -> [Slots -> 0..MaxCalls]]
  /\ g_data_start \in [Threads -> 0..MaxCalls]
  /\ g_collector_codec \in [Threads -> Codecs \cup {"Hevc"}]
  /\ \A t \in Threads : \A i \in DOMAIN calls[t] : calls[t][i] \in CallType
  /\ answers \in [Threads -> [fn : Fns, ok : BOOLEAN, error : BOOLEAN]]
  /\ nextCall \in 1..MaxCalls + 1 /\ nextMirror \in Nat \ {0}
  /\ taken \subseteq 1..MaxCalls /\ faults \subseteq {"null", "dangling", "freed twice"}

(* Every unit calls its own input's place and none is passed over.         *)
Served(c) == ~c.missed /\ (c.at \in {"nal", "slot"} => c.base = c.id)

(* Whatever the other threads and the calls nested in callbacks do, a call *)
(* calls back the set it was given and no other.  Unless a nested call has *)
(* stashed in its place, it does so for every unit, with offsets into its  *)
(* own input; and nothing is reached through a pointer that leads nowhere  *)
(* but by a call in whose place another has stashed.                       *)
OwnCallbacks ==
  /\ \A t \in Threads : \A i \in DOMAIN calls[t] :
       LET c == calls[t][i] IN
       /\ c.at # "between" => c.to = c.id
       /\ c.id \notin taken => Served(c)
  /\ faults \cap {"null", "dangling"} # {} =>
       \E t \in Threads : Open(t) /\ Top(t).id \in taken

(* "Thread-local => reentrant": a call may be entered while another is in  *)
(* a callback, and both reach their own set, for all their units, in their *)
(* own input, and through no pointer that leads nowhere.                   *)
Reentrant ==
  /\ faults = {}
  /\ \A t \in Threads : \A i \in DOMAIN calls[t] : Served(calls[t][i])

(* The entries list the units of a call, the first to the last.            *)
Lists(entries, c) ==
  /\ Len(entries) = c.count
  /\ \A i \in DOMAIN entries :
       /\ entries[i].call = c.id /\ entries[i].unit = i
       /\ c.fn = "report" => entries[i].codec = c.codec /\ entries[i].base = c.id

(* A report lists the units of its own call, all of them and in order,     *)
(* named by the call's codec and placed in the call's input.               *)
ReportsAreWhole == \A r \in reports : Lists(r.entries, r)

(* The mirrors somebody still answers for: the one a callback is looking   *)
(* at, those a struct report is being made of, those of a report held.     *)
Held     == UNION {{calls[t][i].mirror : i \in DOMAIN calls[t]} : t \in Threads}
Entered  == UNION {{g_struct_entries[t][i].mirror : i \in DOMAIN g_struct_entries[t]} : t \in Threads}
Reported == UNION {{r.entries[i].mirror : i \in DOMAIN r.entries} :
                   r \in {s \in reports : s.fn = "struct_report"}}

(* Every mirror is answered for once and its structure freed with whoever  *)
(* answers for it: in a callback, in a catch block, in a destroyed report; *)
(* and nothing is freed twice.                                             *)
MirrorsAreFreed ==
  /\ "freed twice" \notin faults
  /\ {m \in 1..nextMirror : <<m, <<>>>> \in heap} = (Held \cup Entered \cup Reported) \ {0}

(* "The library frees the struct (and its heap buffers) once the callback  *)
(* returns": no block outlives those who answer for its mirror.            *)
NothingLeaks == \A b \in heap : b[1] \in Held \cup Entered \cup Reported

(* With no call open on any thread, however the calls ended, no typed      *)
(* callback set is left behind for a later call to find.                   *)
TypedSlotsAreIdle ==
  (\A t \in Threads : ~Open(t)) =>
     \A t \in Threads : \A s \in Codecs : g_handlers[Tls(t)][s] = None

-----------------------------------------------------------------------------
(* What every state keeps true, strong enough to follow from the state     *)
(* before: the reason the properties above hold.                           *)

Structs == UNION {{TypedMirrors[c][k] : k \in DOMAIN TypedMirrors[c]} : c \in Codecs}

ListedUnit   == [call : 1..MaxCalls, unit : 1..MaxUnits, codec : Codecs \cup {"Hevc"}, base : 0..MaxCalls]
ListedMirror == [call : 1..MaxCalls, unit : Nat, mirror : Nat \ {0}, struct : Structs]

Typed ==
  /\ TypeOK
  /\ calls \in [Threads -> Seq(CallType)]
  /\ g_entries \in [Threads -> Seq(ListedUnit)]
  /\ g_struct_entries \in [Threads -> Seq(ListedMirror)]
  /\ reports \subseteq [id : 1..MaxCalls, fn : {"report"}, codec : Codecs, count : 0..MaxUnits,
                        entries : Seq(ListedUnit)]
                \cup [id : 1..MaxCalls, fn : {"struct_report"}, codec : Codecs, count : 0..MaxUnits,
                      entries : Seq(ListedMirror)]

(* Where a call stands says which function it came from and what it holds. *)
Standing(c) ==
  /\ c.at \in {"nal", "slot"} => c.fn = "parse"
  /\ c.at = "typed" => c.fn = "typed" /\ c.kind \in {"sei"} \cup DOMAIN TypedMirrors[c.codec]
  /\ c.at # "between" => c.to = c.id
  /\ (c.mirror # 0) <=> (c.at = "typed" /\ c.kind # "sei")

(* Only the innermost call of a thread is outside a callback, the numbers  *)
(* grow inwards, and of two calls that stash in the same place the outer   *)
(* one is known to have lost it.                                           *)
StacksAreNested ==
  /\ \A n \in taken : n < nextCall
  /\ \A t \in Threads : \A i \in DOMAIN calls[t] :
       LET c == calls[t][i] IN
       /\ Standing(c)
       /\ c.id + i <= nextCall
       /\ i > 1 => c.at # "between"
       /\ \A j \in DOMAIN calls[t] :
            i < j /\ SlotOf(c.fn, c.codec) = SlotOf(calls[t][j].fn, calls[t][j].codec)
              => calls[t][j].id \in taken

(* An open call that has not lost its place finds what it stashed there.   *)
Finds(t, c) ==
  /\ Served(c)
  /\ c.fn \in {"parse", "report"} => g_handlers[t].raw = c.id /\ g_data_start[t] = c.id
  /\ c.fn = "typed" => g_handlers[t][c.codec] = c.id

(* Only a call in a callback loses its place: a report never does.         *)
KeepsPlace(t) == \A i \in DOMAIN calls[t] : LET c == calls[t][i] IN
  /\ c.id \notin taken => Finds(t, c)
  /\ c.id \in taken => c.fn \in {"parse", "typed"}

(* A pointer to an open call leads to one of the thread, of the pointer's  *)
(* kind, that has its place; a typed one leads nowhere else.               *)
LeadsHome(t) ==
  /\ \A s \in Slots :
       /\ g_handlers[t][s] < nextCall
       /\ \A u \in Threads : \A i \in DOMAIN calls[u] : LET c == calls[u][i] IN
            g_handlers[t][s] = c.id => u = t /\ SlotOf(c.fn, c.codec) = s /\ c.id \notin taken
  /\ \A s \in Codecs : g_handlers[t][s] # None =>
       \E i \in DOMAIN calls[t] : calls[t][i].id = g_handlers[t][s]

Stashed(t) == KeepsPlace(t) /\ LeadsHome(t)

(* A report under way has listed the units read so far.                    *)
Listing(t) ==
  /\ (Open(t) /\ Top(t).fn = "report") =>
        g_collector_codec[t] = Top(t).codec /\ Lists(g_entries[t], Top(t))
  /\ IF Open(t) /\ Top(t).fn = "struct_report" THEN Lists(g_struct_entries[t], Top(t))
                                               ELSE g_struct_entries[t] = <<>>

(* Calls and the reports they leave have numbers of their own.             *)
NumbersDiffer ==
  /\ \A t, u \in Threads : \A i \in DOMAIN calls[t], j \in DOMAIN calls[u] :
       calls[t][i].id = calls[u][j].id => t = u /\ i = j
  /\ \A r \in reports : /\ r.id < nextCall
                        /\ \A s \in reports : r.id = s.id => r = s
                        /\ \A t \in Threads : \A i \in DOMAIN calls[t] : calls[t][i].id # r.id

(* Who answers for a mirror: a callback, or an entry of a struct report.   *)
InCallback(c) == [call |-> c.id, unit |-> 0, mirror |-> c.mirror, struct |-> TypedMirrors[c.codec][c.kind]]

CallbackOwners ==
  UNION {{InCallback(calls[t][i]) : i \in {k \in DOMAIN calls[t] : calls[t][k].mirror # 0}} : t \in Threads}
EntryOwners  == UNION {Elements(g_struct_entries[t]) : t \in Threads}
ReportOwners == UNION {Elements(r.entries) : r \in {s \in reports : s.fn = "struct_report"}}
Owners       == CallbackOwners \cup EntryOwners \cup ReportOwners

(* Every owner's blocks are there, no two own the same mirror, and every   *)
(* structure there is owned.                                               *)
Owned(owners, blocks, next) ==
  /\ \A b \in blocks : b = <<b[1], b[2]>> /\ b[1] \in Nat /\ b[1] < next
  /\ \A o \in owners : o.mirror < next /\ Blocks(o.mirror, o.struct) \subseteq blocks
  /\ \A o, p \in owners : o.mirror = p.mirror => o = p
  /\ \A b \in blocks : b[2] = <<>> => \E o \in owners : o.mirror = b[1]

(* What holds of calls, reports and heap, whether or not the process still *)
(* runs.                                                                   *)
Consistent ==
  /\ Typed
  /\ StacksAreNested
  /\ \A t \in Threads : Stashed(t) /\ Listing(t)
  /\ NumbersDiffer
  /\ ReportsAreWhole
  /\ Owned(Owners, heap, nextMirror)

IInv ==
  /\ Consistent
  /\ "freed twice" \notin faults
  /\ faults # {} => \E t \in Threads : Open(t) /\ Top(t).id \in taken
=============================================================================
