----------------------------- MODULE CBridgeProofs -----------------------------
(***************************************************************************)
(* Proofs about the C API, for any number of threads, calls and units and  *)
(* any set of codecs: what a call stashed in its thread's variables is     *)
(* there when it looks, until a call nested in its callbacks stashes in    *)
(* the same place, and each block on the heap has one owner.               *)
(***************************************************************************)
EXTENDS CBridge, TLAPS

USE DEF Tls, None

(* The invariant of a process that runs.                                   *)
Live ==
  /\ Typed
  /\ StacksAreNested
  /\ \A t \in Threads : Stashed(t) /\ Listing(t)
  /\ NumbersDiffer
  /\ ReportsAreWhole
  /\ faults = {} /\ Owned(Owners, heap, nextMirror)

LEMMA LiveIsInv == Live <=> IInv /\ Running
BY DEF Live, IInv, Consistent, Running

(* The mirrors and the stacks of calls.                                    *)

LEMMA OwnIsAllocated == \A a, p : Mirror(a, p).own \subseteq Mirror(a, p).all
BY DEF Mirror

LEMMA StructsRelease == \A s \in Structs : Released(s) \subseteq Allocated(s)
<1> SUFFICES ASSUME NEW c \in Codecs, NEW k \in DOMAIN TypedMirrors[c]
             PROVE  TypedMirrors[c][k].own \subseteq TypedMirrors[c][k].all
    BY DEF Structs, Released, Allocated
<1>1. c \in AllCodecs
    BY CodecsAssumption
<1>3. \E a, p : TypedMirrors[c][k] = Mirror(a, p)
  <2>1. CASE c = "Hevc"
      BY <2>1 DEF TypedMirrors, BsHevcVideoParameterSet, BsHevcSequenceParameterSet,
                  BsHevcPictureParameterSet, BsHevcSliceSegmentHeader
  <2>2. CASE c = "Avc"
      BY <2>2 DEF TypedMirrors, BsAvcSequenceParameterSet, BsAvcPictureParameterSet, BsAvcSliceHeader
  <2>3. CASE c = "Vvc"
      BY <2>3 DEF TypedMirrors, BsVvcDci, BsVvcOpi, BsVvcVideoParameterSet, BsVvcSequenceParameterSet,
                  BsVvcPictureParameterSet, BsVvcPictureHeader, BsVvcSliceHeader
  <2>4. CASE c = "Av1"
      BY <2>4 DEF TypedMirrors, BsAv1SequenceHeader, BsAv1FrameHeader
  <2>5. CASE c \in {"Vp9", "Vp8"}
      BY <2>5 DEF TypedMirrors, BsVp9FrameHeader, BsVp8FrameHeader
  <2> QED
      BY <1>1, <2>1, <2>2, <2>3, <2>4, <2>5 DEF AllCodecs
<1> QED
    BY <1>3, OwnIsAllocated

LEMMA ReportStructs ==
  \A c \in Codecs : \A k \in DOMAIN ReportMirrors[c] :
     k \in DOMAIN TypedMirrors[c] /\ ReportMirrors[c][k] = TypedMirrors[c][k]
<1> SUFFICES ASSUME NEW c \in Codecs, NEW k \in DOMAIN ReportMirrors[c]
             PROVE  k \in DOMAIN TypedMirrors[c] /\ ReportMirrors[c][k] = TypedMirrors[c][k]
    OBVIOUS
<1>1. c \in AllCodecs
    BY CodecsAssumption
<1>2. c \in DOMAIN TypedMirrors /\ "Hevc" \in DOMAIN TypedMirrors /\ "Avc" \in DOMAIN TypedMirrors
    BY <1>1 DEF AllCodecs, TypedMirrors
<1>3. DOMAIN TypedMirrors["Hevc"] = {"vps", "sps", "pps", "slice"}
      /\ DOMAIN TypedMirrors["Avc"] = {"sps", "pps", "slice"}
    BY DEF TypedMirrors
<1>4. CASE c = "Hevc"
    BY <1>2, <1>3, <1>4 DEF ReportMirrors
<1>5. CASE c = "Avc"
    BY <1>2, <1>3, <1>5 DEF ReportMirrors
<1>6. CASE c # "Hevc" /\ c # "Avc"
    BY <1>2, <1>6 DEF ReportMirrors
<1> QED
    BY <1>4, <1>5, <1>6

LEMMA Pushed ==
  ASSUME NEW S, NEW s \in Seq(S), NEW x \in S
  PROVE  /\ <<x>> \o s \in Seq(S)
         /\ DOMAIN (<<x>> \o s) = 1..Len(s) + 1
         /\ (<<x>> \o s)[1] = x
         /\ \A i \in 2..Len(s) + 1 : i - 1 \in DOMAIN s /\ (<<x>> \o s)[i] = s[i - 1]
OBVIOUS

LEMMA Popped ==
  ASSUME NEW S, NEW s \in Seq(S), s # <<>>
  PROVE  /\ Tail(s) \in Seq(S)
         /\ DOMAIN s = 1..Len(s) /\ Len(s) \in Nat \ {0}
         /\ DOMAIN Tail(s) = 1..Len(s) - 1
         /\ Head(s) = s[1] /\ s[1] \in S
         /\ \A i \in DOMAIN Tail(s) : i + 1 \in DOMAIN s /\ Tail(s)[i] = s[i + 1]
OBVIOUS

LEMMA TopSet ==
  ASSUME NEW S, NEW s \in Seq(S), s # <<>>, NEW x \in S
  PROVE  /\ <<x>> \o Tail(s) \in Seq(S)
         /\ DOMAIN (<<x>> \o Tail(s)) = DOMAIN s
         /\ (<<x>> \o Tail(s))[1] = x
         /\ \A i \in DOMAIN s : i # 1 => (<<x>> \o Tail(s))[i] = s[i]
<1>1. Tail(s) \in Seq(S) /\ Len(Tail(s)) = Len(s) - 1 /\ Len(s) \in Nat \ {0}
    OBVIOUS
<1> QED
    BY <1>1, Pushed

-----------------------------------------------------------------------------
(* The three things an action does to the stack of its thread.             *)

LEMMA CallFields ==
  ASSUME NEW c \in CallType
  PROVE  /\ c.id \in 1..MaxCalls /\ c.id \in Nat \ {0}
         /\ c.fn \in Fns /\ c.codec \in Codecs /\ c.auto \in BOOLEAN
         /\ c.count \in 0..MaxUnits /\ c.count \in Nat
         /\ c.at \in {"between", "nal", "slot", "typed"} /\ c.mirror \in Nat
<1>1. /\ c.id \in 1..MaxCalls /\ c.fn \in Fns /\ c.codec \in Codecs /\ c.auto \in BOOLEAN
      /\ c.count \in 0..MaxUnits
      /\ c.at \in {"between", "nal", "slot", "typed"} /\ c.mirror \in Nat
    BY DEF CallType
<1> QED
    BY <1>1, BoundsAssumption

LEMMA NextTyped ==
  ASSUME Typed
  PROVE  /\ nextCall \in 1..MaxCalls + 1 /\ nextCall \in Nat
         /\ nextCall <= MaxCalls => nextCall \in 1..MaxCalls /\ nextCall \in 0..MaxCalls
<1>1. nextCall \in 1..MaxCalls + 1
    BY DEF Typed, TypeOK
<1> QED
    BY <1>1, BoundsAssumption

LEMMA PointersTyped ==
  ASSUME Typed, NEW u \in Threads, NEW s \in Slots
  PROVE  g_handlers[u][s] \in 0..MaxCalls /\ g_handlers[u][s] \in Nat
<1>1. g_handlers \in [Threads -> [Slots -> 0..MaxCalls]]
    BY DEF Typed, TypeOK
<1> QED
    BY <1>1, BoundsAssumption

Places == {"between", "nal", "slot", "typed"}

LEMMA CallUpdated ==
  ASSUME NEW c \in CallType
  PROVE  /\ \A n \in 0..MaxUnits : [c EXCEPT !.count = n] \in CallType
         /\ \A n \in 0..MaxUnits : [c EXCEPT !.count = n, !.missed = TRUE] \in CallType
         /\ \A at \in Places : \A to, base \in 0..MaxCalls :
              [c EXCEPT !.at = at, !.to = to, !.base = base] \in CallType
         /\ \A n \in 0..MaxUnits : \A at \in Places : \A to, base \in 0..MaxCalls :
              [c EXCEPT !.count = n, !.at = at, !.to = to, !.base = base] \in CallType
         /\ \A n \in 0..MaxUnits : \A at \in Places : \A to \in 0..MaxCalls : \A kind \in Kinds :
              [c EXCEPT !.count = n, !.at = at, !.to = to, !.kind = kind] \in CallType
         /\ \A n \in 0..MaxUnits : \A at \in Places : \A to \in 0..MaxCalls : \A kind \in Kinds : \A mirror \in Nat :
              [c EXCEPT !.count = n, !.at = at, !.to = to, !.kind = kind, !.mirror = mirror] \in CallType
         /\ \A at \in Places : \A to \in 0..MaxCalls : \A kind \in Kinds : \A mirror \in Nat :
              [c EXCEPT !.at = at, !.to = to, !.kind = kind, !.mirror = mirror] \in CallType
BY DEF CallType, Places

LEMMA TopFacts ==
  ASSUME Typed, StacksAreNested, NEW t \in Threads, Open(t)
  PROVE  /\ calls[t] \in Seq(CallType) /\ calls[t] # <<>>
         /\ DOMAIN calls[t] = 1..Len(calls[t]) /\ Len(calls[t]) \in Nat \ {0}
         /\ 1 \in DOMAIN calls[t] /\ Top(t) = calls[t][1]
         /\ Top(t) \in CallType /\ Standing(Top(t)) /\ Top(t).id < nextCall
<1>1. calls[t] \in Seq(CallType) /\ calls[t] # <<>>
    BY DEF Typed, Open
<1>2. /\ DOMAIN calls[t] = 1..Len(calls[t]) /\ Len(calls[t]) \in Nat \ {0}
      /\ 1 \in DOMAIN calls[t] /\ Top(t) = calls[t][1] /\ Top(t) \in CallType
    BY <1>1, Popped DEF Top
<1>3. Standing(Top(t)) /\ Top(t).id + 1 <= nextCall
    BY <1>2 DEF StacksAreNested
<1>4. Top(t).id \in Nat /\ nextCall \in Nat
    BY <1>2, CallFields, NextTyped
<1> QED
    BY <1>1, <1>2, <1>3, <1>4

LEMMA EnterStep ==
  ASSUME Typed, StacksAreNested, NEW t \in Threads, NEW fn \in Fns, NEW codec \in Codecs,
         NEW auto \in BOOLEAN, MayEnter(t), Enter(t, fn, codec, auto)
  PROVE  /\ calls' \in [Threads -> Seq(CallType)]
         /\ nextCall \in 1..MaxCalls /\ nextCall' = nextCall + 1
         /\ \A u \in Threads \ {t} : calls'[u] = calls[u]
         /\ DOMAIN calls'[t] = 1..Len(calls[t]) + 1 /\ Len(calls[t]) \in Nat
         /\ calls'[t][1] = NewCall(fn, codec, auto)
         /\ \A i \in DOMAIN calls'[t] : i # 1 => i - 1 \in DOMAIN calls[t] /\ calls'[t][i] = calls[t][i - 1]
         /\ taken' \subseteq 1..MaxCalls /\ \A n \in taken' : n < nextCall
         /\ \A i \in DOMAIN calls[t] : calls[t][i].fn \in {"parse", "typed"}
         /\ StacksAreNested'
<1> DEFINE new == NewCall(fn, codec, auto)
<1>1. nextCall \in 1..MaxCalls /\ nextCall' = nextCall + 1 /\ taken' = taken \cup Overwritten(t, fn, codec)
    BY NextTyped DEF MayEnter, Enter
<1>2. new \in CallType
    BY <1>1, BoundsAssumption DEF NewCall, CallType, Kinds
<1>3. calls[t] \in Seq(CallType) /\ calls' = [calls EXCEPT ![t] = <<new>> \o @]
    BY DEF Typed, Enter
<1> HIDE DEF new
<1>4. /\ calls'[t] = <<new>> \o calls[t]
      /\ calls' \in [Threads -> Seq(CallType)]
      /\ \A u \in Threads \ {t} : calls'[u] = calls[u]
    BY <1>2, <1>3, Pushed DEF Typed
<1>5. /\ DOMAIN calls'[t] = 1..Len(calls[t]) + 1 /\ Len(calls[t]) \in Nat
      /\ DOMAIN calls[t] = 1..Len(calls[t])
      /\ calls'[t][1] = new
      /\ \A i \in 2..Len(calls[t]) + 1 : i - 1 \in DOMAIN calls[t] /\ calls'[t][i] = calls[t][i - 1]
    BY <1>2, <1>3, <1>4, Pushed
<1>6. \A i \in DOMAIN calls'[t] : i # 1 => i \in 2..Len(calls[t]) + 1
    BY <1>5
<1>7. Standing(new)
    BY DEF Standing, new, NewCall
<1>8. \A u \in Threads \ {t} : \A i \in DOMAIN calls[u] :
        calls[u][i].id \in Nat /\ calls[u][i].id + i <= nextCall + 1
  <2> SUFFICES ASSUME NEW u \in Threads \ {t}, NEW i \in DOMAIN calls[u]
               PROVE  calls[u][i].id \in Nat /\ calls[u][i].id + i <= nextCall + 1
      OBVIOUS
  <2>1. calls[u] \in Seq(CallType)
      BY DEF Typed
  <2>2. calls[u][i].id \in Nat /\ i \in Nat
      BY <2>1, CallFields
  <2>3. calls[u][i].id + i <= nextCall
      BY DEF StacksAreNested
  <2> QED
      BY <1>1, <2>2, <2>3
<1>9. \A i \in DOMAIN calls[t] : /\ calls[t][i] \in CallType /\ calls[t][i].id \in Nat /\ i \in Nat \ {0}
                                 /\ Standing(calls[t][i])
                                 /\ calls[t][i].id + (i + 1) <= nextCall + 1
                                 /\ calls[t][i].at # "between"
                                 /\ calls[t][i].fn \in {"parse", "typed"}
  <2> SUFFICES ASSUME NEW i \in DOMAIN calls[t]
               PROVE  /\ calls[t][i] \in CallType /\ calls[t][i].id \in Nat /\ i \in Nat \ {0}
                      /\ Standing(calls[t][i])
                      /\ calls[t][i].id + (i + 1) <= nextCall + 1
                      /\ calls[t][i].at # "between"
                      /\ calls[t][i].fn \in {"parse", "typed"}
      OBVIOUS
  <2>1. calls[t][i] \in CallType /\ i \in Nat \ {0}
      BY <1>3
  <2>2. calls[t][i].id \in Nat
      BY <2>1, CallFields
  <2>3. Standing(calls[t][i]) /\ calls[t][i].id + i <= nextCall /\ (i > 1 => calls[t][i].at # "between")
      BY DEF StacksAreNested
  <2>4. calls[t][i].at # "between"
    <3>1. CASE i = 1
      <4>1. Open(t)
          BY <1>3 DEF Open
      <4>2. Top(t) = calls[t][1]
          BY <4>1, TopFacts
      <4> QED
          BY <3>1, <4>1, <4>2 DEF MayEnter, Callback
    <3> QED
        BY <2>1, <2>3, <3>1
  <2>5. calls[t][i].fn \in {"parse", "typed"}
      BY <2>1, <2>3, <2>4, CallFields DEF Standing
  <2> QED
      BY <1>1, <2>1, <2>2, <2>3, <2>4, <2>5
<1>10. taken' \subseteq 1..MaxCalls /\ \A n \in taken' : n < nextCall
  <2>1. \A n \in Overwritten(t, fn, codec) : n < nextCall /\ n \in 1..MaxCalls
    <3> SUFFICES ASSUME NEW i \in DOMAIN calls[t]
                 PROVE  calls[t][i].id < nextCall /\ calls[t][i].id \in 1..MaxCalls
        BY DEF Overwritten
    <3> QED
        BY <1>1, <1>9, CallFields
  <2> QED
      BY <1>1, <2>1 DEF StacksAreNested, Typed, TypeOK
<1>11. \A i \in DOMAIN calls[t] :
         SlotOf(fn, codec) = SlotOf(calls[t][i].fn, calls[t][i].codec) => calls[t][i].id \in taken'
    BY <1>1 DEF Overwritten
<1>12. StacksAreNested'
  <2>1. \A n \in taken' : n < nextCall'
      BY <1>1, <1>10, BoundsAssumption
  <2> SUFFICES ASSUME NEW u \in Threads, NEW i \in DOMAIN calls'[u]
               PROVE  /\ Standing(calls'[u][i])
                      /\ calls'[u][i].id + i <= nextCall'
                      /\ i > 1 => calls'[u][i].at # "between"
                      /\ \A j \in DOMAIN calls'[u] :
                           i < j /\ SlotOf(calls'[u][i].fn, calls'[u][i].codec)
                                      = SlotOf(calls'[u][j].fn, calls'[u][j].codec)
                             => calls'[u][j].id \in taken'
      BY <2>1 DEF StacksAreNested
  <2>2. CASE u # t
      BY <1>1, <1>4, <1>8, <2>2 DEF StacksAreNested
  <2>3. CASE u = t
    <3> USE <2>3
    <3>0. new.id = nextCall /\ new.fn = fn /\ new.codec = codec
        BY DEF new, NewCall
    <3>1. CASE i = 1
      <4>1. new.id + 1 <= nextCall'
          BY <1>1, <3>0
      <4>2. \A j \in DOMAIN calls'[t] :
               1 < j /\ SlotOf(new.fn, new.codec) = SlotOf(calls'[t][j].fn, calls'[t][j].codec)
                 => calls'[t][j].id \in taken'
        <5> SUFFICES ASSUME NEW j \in DOMAIN calls'[t], 1 < j,
                            SlotOf(fn, codec) = SlotOf(calls'[t][j].fn, calls'[t][j].codec)
                     PROVE  calls'[t][j].id \in taken'
            BY <3>0
        <5>1. j - 1 \in DOMAIN calls[t] /\ calls'[t][j] = calls[t][j - 1]
            BY <1>5, <1>6
        <5> QED
            BY <1>11, <5>1
      <4> QED
          BY <1>5, <1>7, <3>1, <4>1, <4>2
    <3>2. CASE i # 1
      <4>1. i - 1 \in DOMAIN calls[t] /\ calls'[t][i] = calls[t][i - 1] /\ i \in Nat
          BY <1>5, <1>6, <3>2
      <4>2. Standing(calls'[t][i]) /\ calls'[t][i].at # "between" /\ calls'[t][i].id + i <= nextCall'
          BY <1>1, <1>9, <4>1
      <4>3. ASSUME NEW j \in DOMAIN calls'[t], i < j,
                   SlotOf(calls'[t][i].fn, calls'[t][i].codec)
                     = SlotOf(calls'[t][j].fn, calls'[t][j].codec)
            PROVE  calls'[t][j].id \in taken'
        <5>1. j \in Nat /\ j # 1
            BY <1>5, <3>2, <4>1, <4>3
        <5>2. j - 1 \in DOMAIN calls[t] /\ calls'[t][j] = calls[t][j - 1] /\ i - 1 < j - 1
            BY <1>5, <1>6, <4>1, <4>3, <5>1
        <5>3. calls[t][j - 1].id \in taken
            BY <4>1, <4>3, <5>2 DEF StacksAreNested
        <5> QED
            BY <1>1, <5>2, <5>3
      <4> QED
          BY <4>2, <4>3
    <3> QED
        BY <3>1, <3>2
  <2> QED
      BY <2>2, <2>3
<1> QED
    BY <1>1, <1>4, <1>5, <1>6, <1>9, <1>10, <1>12 DEF new

LEMMA SetStep ==
  ASSUME Typed, StacksAreNested, NEW t \in Threads, Open(t), NEW c \in CallType, SetTop(t, c),
         c.id = Top(t).id, c.fn = Top(t).fn, c.codec = Top(t).codec, Standing(c),
         UNCHANGED <<nextCall, taken>>
  PROVE  /\ calls' \in [Threads -> Seq(CallType)]
         /\ \A u \in Threads \ {t} : calls'[u] = calls[u]
         /\ calls'[t] # <<>> /\ Head(calls'[t]) = c /\ calls'[t][1] = c /\ 1 \in DOMAIN calls[t]
         /\ \A i \in DOMAIN calls[t] : i # 1 => calls'[t][i] = calls[t][i]
         /\ \A u \in Threads : DOMAIN calls'[u] = DOMAIN calls[u]
         /\ \A u \in Threads : \A i \in DOMAIN calls[u] :
              /\ calls'[u][i].id = calls[u][i].id
              /\ calls'[u][i].fn = calls[u][i].fn
              /\ calls'[u][i].codec = calls[u][i].codec
         /\ StacksAreNested'
<1>1. /\ calls[t] \in Seq(CallType) /\ calls[t] # <<>> /\ DOMAIN calls[t] = 1..Len(calls[t])
      /\ 1 \in DOMAIN calls[t] /\ Top(t) = calls[t][1]
    BY TopFacts
<1>2. calls' = [calls EXCEPT ![t] = <<c>> \o Tail(@)] /\ calls \in [Threads -> Seq(CallType)]
    BY DEF SetTop, Typed
<1>3. /\ calls'[t] = <<c>> \o Tail(calls[t])
      /\ \A u \in Threads \ {t} : calls'[u] = calls[u]
    BY <1>2
<1>4. /\ <<c>> \o Tail(calls[t]) \in Seq(CallType)
      /\ DOMAIN calls'[t] = DOMAIN calls[t] /\ calls'[t][1] = c
      /\ \A i \in DOMAIN calls[t] : i # 1 => calls'[t][i] = calls[t][i]
    BY <1>1, <1>3, TopSet
<1>5. calls' \in [Threads -> Seq(CallType)]
    BY <1>2, <1>4
<1>6. calls'[t] # <<>> /\ Head(calls'[t]) = c
  <2>1. calls'[t] \in Seq(CallType)
      BY <1>5
  <2>2. calls'[t] # <<>>
      BY <1>1, <1>4, <2>1
  <2> QED
      BY <1>4, <2>1, <2>2, Popped
<1>7. \A u \in Threads : DOMAIN calls'[u] = DOMAIN calls[u]
    BY <1>3, <1>4
<1>8. \A u \in Threads : \A i \in DOMAIN calls[u] :
        /\ calls'[u][i].id = calls[u][i].id
        /\ calls'[u][i].fn = calls[u][i].fn
        /\ calls'[u][i].codec = calls[u][i].codec
  <2> SUFFICES ASSUME NEW u \in Threads, NEW i \in DOMAIN calls[u]
               PROVE  /\ calls'[u][i].id = calls[u][i].id
                      /\ calls'[u][i].fn = calls[u][i].fn
                      /\ calls'[u][i].codec = calls[u][i].codec
      OBVIOUS
  <2>1. CASE u = t /\ i = 1
      BY <1>1, <1>4, <2>1
  <2>2. CASE ~(u = t /\ i = 1)
      BY <1>3, <1>4, <2>2
  <2> QED
      BY <2>1, <2>2
<1>9. StacksAreNested'
  <2> SUFFICES ASSUME NEW u \in Threads, NEW i \in DOMAIN calls[u]
               PROVE  /\ Standing(calls'[u][i])
                      /\ calls'[u][i].id + i <= nextCall
                      /\ i > 1 => calls'[u][i].at # "between"
                      /\ \A j \in DOMAIN calls[u] :
                           i < j /\ SlotOf(calls'[u][i].fn, calls'[u][i].codec)
                                      = SlotOf(calls'[u][j].fn, calls'[u][j].codec)
                             => calls'[u][j].id \in taken
      BY <1>7 DEF StacksAreNested
  <2>1. /\ Standing(calls[u][i])
        /\ calls[u][i].id + i <= nextCall
        /\ i > 1 => calls[u][i].at # "between"
        /\ \A j \in DOMAIN calls[u] :
             i < j /\ SlotOf(calls[u][i].fn, calls[u][i].codec) = SlotOf(calls[u][j].fn, calls[u][j].codec)
               => calls[u][j].id \in taken
      BY DEF StacksAreNested
  <2>2. CASE u = t /\ i = 1
      BY <1>4, <1>8, <2>1, <2>2
  <2>3. CASE ~(u = t /\ i = 1)
      BY <1>3, <1>4, <1>8, <2>1, <2>3
  <2> QED
      BY <2>2, <2>3
<1> QED
    BY <1>1, <1>3, <1>4, <1>5, <1>6, <1>7, <1>8, <1>9

LEMMA LeaveStep ==
  ASSUME Typed, StacksAreNested, NEW t \in Threads, Open(t), NEW ok, NEW error, Leave(t, ok, error)
  PROVE  /\ calls' \in [Threads -> Seq(CallType)]
         /\ nextCall' = nextCall /\ taken' = taken
         /\ \A u \in Threads \ {t} : calls'[u] = calls[u]
         /\ calls'[t] = Tail(calls[t])
         /\ \A i \in DOMAIN calls'[t] : i + 1 \in DOMAIN calls[t] /\ calls'[t][i] = calls[t][i + 1]
         /\ \A i \in DOMAIN calls[t] : i # 1 => i - 1 \in DOMAIN calls'[t] /\ calls[t][i] = calls'[t][i - 1]
         /\ StacksAreNested'
<1>1. calls[t] \in Seq(CallType) /\ calls[t] # <<>> /\ nextCall \in Nat
    BY TopFacts, NextTyped
<1>2. calls' = [calls EXCEPT ![t] = Tail(@)] /\ calls \in [Threads -> Seq(CallType)]
      /\ nextCall' = nextCall /\ taken' = taken
    BY DEF Leave, Typed
<1>3. /\ calls'[t] = Tail(calls[t])
      /\ \A u \in Threads \ {t} : calls'[u] = calls[u]
    BY <1>2
<1>4. /\ Tail(calls[t]) \in Seq(CallType)
      /\ DOMAIN calls[t] = 1..Len(calls[t]) /\ Len(calls[t]) \in Nat \ {0}
      /\ DOMAIN calls'[t] = 1..Len(calls[t]) - 1
      /\ \A i \in DOMAIN calls'[t] : i + 1 \in DOMAIN calls[t] /\ calls'[t][i] = calls[t][i + 1]
    BY <1>1, <1>3, Popped
<1>5. calls' \in [Threads -> Seq(CallType)]
    BY <1>2, <1>4
<1>6. \A i \in DOMAIN calls[t] : i # 1 => i - 1 \in DOMAIN calls'[t] /\ calls[t][i] = calls'[t][i - 1]
  <2> SUFFICES ASSUME NEW i \in DOMAIN calls[t], i # 1
               PROVE  i - 1 \in DOMAIN calls'[t] /\ calls[t][i] = calls'[t][i - 1]
      OBVIOUS
  <2>1. i - 1 \in DOMAIN calls'[t] /\ (i - 1) + 1 = i
      BY <1>4
  <2> QED
      BY <1>4, <2>1
<1>7. StacksAreNested'
  <2> SUFFICES ASSUME NEW u \in Threads, NEW i \in DOMAIN calls'[u]
               PROVE  /\ Standing(calls'[u][i])
                      /\ calls'[u][i].id + i <= nextCall
                      /\ i > 1 => calls'[u][i].at # "between"
                      /\ \A j \in DOMAIN calls'[u] :
                           i < j /\ SlotOf(calls'[u][i].fn, calls'[u][i].codec)
                                      = SlotOf(calls'[u][j].fn, calls'[u][j].codec)
                             => calls'[u][j].id \in taken
      BY <1>2 DEF StacksAreNested
  <2>1. CASE u # t
      BY <1>3, <2>1 DEF StacksAreNested
  <2>2. CASE u = t
    <3>1. i + 1 \in DOMAIN calls[t] /\ calls'[t][i] = calls[t][i + 1] /\ i \in Nat \ {0}
        BY <1>4, <2>2
    <3>2. Standing(calls'[u][i]) /\ calls'[u][i].id + (i + 1) <= nextCall
          /\ (i + 1 > 1 => calls'[u][i].at # "between")
        BY <2>2, <3>1 DEF StacksAreNested
    <3>3. calls'[u][i].id \in Nat
      <4>1. calls[t][i + 1] \in CallType
          BY <1>1, <3>1
      <4> QED
          BY <2>2, <3>1, <4>1, CallFields
    <3>4. ASSUME NEW j \in DOMAIN calls'[t], i < j,
                 SlotOf(calls'[t][i].fn, calls'[t][i].codec) = SlotOf(calls'[t][j].fn, calls'[t][j].codec)
          PROVE  calls'[t][j].id \in taken
      <4>1. j + 1 \in DOMAIN calls[t] /\ calls'[t][j] = calls[t][j + 1] /\ i + 1 < j + 1
          BY <1>4, <3>1, <3>4
      <4> QED
          BY <3>1, <3>4, <4>1 DEF StacksAreNested
    <3>5. calls'[u][i].id + i <= nextCall
        BY <1>1, <3>1, <3>2, <3>3
    <3>6. i > 1 => calls'[u][i].at # "between"
        BY <3>1, <3>2
    <3> QED
        BY <2>2, <3>2, <3>4, <3>5, <3>6
  <2> QED
      BY <2>1, <2>2
<1> QED
    BY <1>2, <1>3, <1>4, <1>5, <1>6, <1>7

-----------------------------------------------------------------------------
(* What of the invariant follows from the change of the stack alone.       *)

LEMMA SetKeeps ==
  ASSUME Live, NEW t \in Threads, Open(t), NEW c \in CallType, SetTop(t, c),
         c.id = Top(t).id, c.fn = Top(t).fn, c.codec = Top(t).codec, Standing(c),
         c.id \notin taken => Served(c), UNCHANGED <<nextCall, taken>>
  PROVE  /\ UNCHANGED <<g_handlers, g_data_start>> => \A u \in Threads : Stashed(u)'
         /\ UNCHANGED reports => NumbersDiffer'
         /\ (c.mirror = 0 /\ Top(t).mirror = 0) => CallbackOwners' = CallbackOwners
         /\ (c.mirror # 0 /\ Top(t).mirror = 0) =>
               CallbackOwners' = CallbackOwners \cup {InCallback(c)}
         /\ (c.mirror = 0 /\ Top(t).mirror # 0) =>
               /\ InCallback(Top(t)) \in CallbackOwners
               /\ CallbackOwners' = CallbackOwners \ {InCallback(Top(t))}
         /\ (Top(t).fn \notin {"report", "struct_report"}
                /\ UNCHANGED <<g_collector_codec, g_entries, g_struct_entries>>) =>
               \A u \in Threads : Listing(u)'
<1>1. Typed /\ StacksAreNested /\ NumbersDiffer /\ \A u \in Threads : Stashed(u) /\ Listing(u)
    BY DEF Live
<1>2. /\ \A u \in Threads \ {t} : calls'[u] = calls[u]
      /\ calls'[t] # <<>> /\ Head(calls'[t]) = c /\ calls'[t][1] = c /\ 1 \in DOMAIN calls[t]
      /\ \A i \in DOMAIN calls[t] : i # 1 => calls'[t][i] = calls[t][i]
      /\ \A u \in Threads : DOMAIN calls'[u] = DOMAIN calls[u]
    BY <1>1, SetStep
<1>3. \A u \in Threads : \A i \in DOMAIN calls[u] :
        /\ calls'[u][i].id = calls[u][i].id
        /\ calls'[u][i].fn = calls[u][i].fn
        /\ calls'[u][i].codec = calls[u][i].codec
    BY <1>1, SetStep
<1>4. Top(t) = calls[t][1] /\ 1 \in DOMAIN calls[t]
    BY <1>1, TopFacts
<1>5. ASSUME UNCHANGED <<g_handlers, g_data_start>>, NEW u \in Threads PROVE Stashed(u)'
  <2>1. KeepsPlace(u) /\ LeadsHome(u)
      BY <1>1 DEF Stashed
  <2>2. LeadsHome(u)'
      BY <1>2, <1>3, <1>5, <2>1 DEF LeadsHome
  <2>3. ASSUME NEW i \in DOMAIN calls[u]
        PROVE  /\ calls'[u][i].id \notin taken => Finds(u, calls[u][i])'
               /\ calls'[u][i].id \in taken => calls'[u][i].fn \in {"parse", "typed"}
    <3>1. /\ calls[u][i].id \notin taken => Finds(u, calls[u][i])
          /\ calls[u][i].id \in taken => calls[u][i].fn \in {"parse", "typed"}
        BY <2>1 DEF KeepsPlace
    <3>2. calls'[u][i].id \notin taken => Served(calls'[u][i])
      <4>1. CASE u = t /\ i = 1
          BY <1>2, <4>1
      <4>2. CASE ~(u = t /\ i = 1)
          BY <1>2, <3>1, <4>2 DEF Finds
      <4> QED
          BY <4>1, <4>2
    <3>3. /\ calls'[u][i].id = calls[u][i].id
          /\ calls'[u][i].fn = calls[u][i].fn
          /\ calls'[u][i].codec = calls[u][i].codec
        BY <1>3
    <3>4. g_handlers' = g_handlers /\ g_data_start' = g_data_start
        BY <1>5
    <3> QED
        BY <3>1, <3>2, <3>3, <3>4, Zenon DEF Finds
  <2>4. DOMAIN calls'[u] = DOMAIN calls[u] /\ taken' = taken
      BY <1>2
  <2>5. KeepsPlace(u)'
      BY <2>3, <2>4, Zenon DEF KeepsPlace
  <2> QED
      BY <2>2, <2>5 DEF Stashed
<1>6. ASSUME UNCHANGED reports PROVE NumbersDiffer'
    BY <1>1, <1>2, <1>3, <1>6 DEF NumbersDiffer
<1>7. \A u \in Threads : \A i \in DOMAIN calls[u] :
        ~(u = t /\ i = 1) => calls'[u][i] = calls[u][i]
    BY <1>2
<1>8. ASSUME c.mirror = 0, Top(t).mirror = 0 PROVE CallbackOwners' = CallbackOwners
    BY <1>2, <1>4, <1>7, <1>8 DEF CallbackOwners
<1>9. ASSUME c.mirror # 0, Top(t).mirror = 0
      PROVE  CallbackOwners' = CallbackOwners \cup {InCallback(c)}
    BY <1>2, <1>4, <1>7, <1>9 DEF CallbackOwners
<1>10. ASSUME c.mirror = 0, Top(t).mirror # 0
       PROVE  /\ InCallback(Top(t)) \in CallbackOwners
              /\ CallbackOwners' = CallbackOwners \ {InCallback(Top(t))}
  <2>1. \A u \in Threads : \A i \in DOMAIN calls[u] :
           ~(u = t /\ i = 1) => InCallback(calls[u][i]) # InCallback(Top(t))
    <3> SUFFICES ASSUME NEW u \in Threads, NEW i \in DOMAIN calls[u], ~(u = t /\ i = 1)
                 PROVE  InCallback(calls[u][i]) # InCallback(Top(t))
        OBVIOUS
    <3>1. calls[u][i].id # calls[t][1].id
        BY <1>1, <1>4 DEF NumbersDiffer
    <3> QED
        BY <1>4, <3>1 DEF InCallback
  <2> QED
      BY <1>2, <1>4, <1>7, <1>10, <2>1 DEF CallbackOwners
<1>11. ASSUME Top(t).fn \notin {"report", "struct_report"},
              UNCHANGED <<g_collector_codec, g_entries, g_struct_entries>>, NEW u \in Threads
       PROVE  Listing(u)'
  <2>1. Listing(u)
      BY <1>1
  <2>2. CASE u = t
      BY <1>2, <1>11, <2>1, <2>2 DEF Listing, Open, Top
  <2>3. CASE u # t
      BY <1>2, <1>11, <2>1, <2>3 DEF Listing, Open, Top
  <2> QED
      BY <2>2, <2>3
<1> QED
    BY <1>5, <1>6, <1>8, <1>9, <1>10, <1>11

LEMMA EnterKeeps ==
  ASSUME Live, NEW t \in Threads, NEW fn \in Fns, NEW codec \in Codecs, NEW auto \in BOOLEAN,
         MayEnter(t), Enter(t, fn, codec, auto)
  PROVE  /\ NumbersDiffer'
         /\ CallbackOwners' = CallbackOwners
         /\ g_struct_entries[t] = <<>>
<1>1. Typed /\ StacksAreNested /\ NumbersDiffer /\ Listing(t)
    BY DEF Live
<1>2. /\ nextCall \in 1..MaxCalls /\ nextCall' = nextCall + 1
      /\ \A u \in Threads \ {t} : calls'[u] = calls[u]
      /\ DOMAIN calls'[t] = 1..Len(calls[t]) + 1 /\ Len(calls[t]) \in Nat
      /\ calls'[t][1] = NewCall(fn, codec, auto)
      /\ \A i \in DOMAIN calls'[t] : i # 1 => i - 1 \in DOMAIN calls[t] /\ calls'[t][i] = calls[t][i - 1]
    BY <1>1, EnterStep
<1>3. NewCall(fn, codec, auto).id = nextCall /\ NewCall(fn, codec, auto).mirror = 0
    BY DEF NewCall
<1>4. reports' = reports
    BY DEF Enter
<1>5. \A u \in Threads : \A i \in DOMAIN calls[u] : calls[u][i].id \in Nat /\ calls[u][i].id < nextCall
  <2> SUFFICES ASSUME NEW u \in Threads, NEW i \in DOMAIN calls[u]
               PROVE  calls[u][i].id \in Nat /\ calls[u][i].id < nextCall
      OBVIOUS
  <2>1. calls[u] \in Seq(CallType)
      BY <1>1 DEF Typed
  <2>2. calls[u][i] \in CallType /\ i \in Nat \ {0}
      BY <2>1
  <2>3. calls[u][i].id \in Nat
      BY <2>2, CallFields
  <2>4. calls[u][i].id + i <= nextCall
      BY <1>1 DEF StacksAreNested
  <2> QED
      BY <1>2, <2>2, <2>3, <2>4
<1>6. \A i \in DOMAIN calls[t] : i + 1 \in DOMAIN calls'[t] /\ calls'[t][i + 1] = calls[t][i] /\ i + 1 # 1
  <2> SUFFICES ASSUME NEW i \in DOMAIN calls[t]
               PROVE  i + 1 \in DOMAIN calls'[t] /\ calls'[t][i + 1] = calls[t][i] /\ i + 1 # 1
      OBVIOUS
  <2>1. calls[t] \in Seq(CallType)
      BY <1>1 DEF Typed
  <2>2. i \in 1..Len(calls[t])
      BY <2>1
  <2>3. i + 1 \in DOMAIN calls'[t] /\ i + 1 # 1 /\ (i + 1) - 1 = i
      BY <1>2, <2>2
  <2> QED
      BY <1>2, <2>3
<1>7. NumbersDiffer'
  <2>1. ASSUME NEW u \in Threads, NEW v \in Threads, NEW i \in DOMAIN calls'[u], NEW j \in DOMAIN calls'[v],
               calls'[u][i].id = calls'[v][j].id
        PROVE  u = v /\ i = j
    <3>1. \A w \in Threads : \A k \in DOMAIN calls'[w] : ~(w = t /\ k = 1) =>
             calls'[w][k].id \in Nat /\ calls'[w][k].id < nextCall
        BY <1>2, <1>5
    <3>2. CASE u = t /\ i = 1
        BY <1>2, <1>3, <2>1, <3>1, <3>2
    <3>3. CASE v = t /\ j = 1
        BY <1>2, <1>3, <2>1, <3>1, <3>3
    <3>4. CASE ~(u = t /\ i = 1) /\ ~(v = t /\ j = 1)
      <4>1. CASE u = t /\ v = t
        <5>1. i - 1 \in DOMAIN calls[t] /\ calls'[t][i] = calls[t][i - 1]
              /\ j - 1 \in DOMAIN calls[t] /\ calls'[t][j] = calls[t][j - 1] /\ i \in Nat /\ j \in Nat
            BY <1>2, <3>4, <4>1
        <5>2. i - 1 = j - 1
            BY <1>1, <2>1, <4>1, <5>1 DEF NumbersDiffer
        <5> QED
            BY <4>1, <5>1, <5>2
      <4>2. CASE u = t /\ v # t
        <5>1. i - 1 \in DOMAIN calls[t] /\ calls'[t][i] = calls[t][i - 1] /\ calls'[v] = calls[v]
            BY <1>2, <3>4, <4>2
        <5> QED
            BY <1>1, <2>1, <4>2, <5>1 DEF NumbersDiffer
      <4>3. CASE u # t /\ v = t
        <5>1. j - 1 \in DOMAIN calls[t] /\ calls'[t][j] = calls[t][j - 1] /\ calls'[u] = calls[u]
            BY <1>2, <3>4, <4>3
        <5> QED
            BY <1>1, <2>1, <4>3, <5>1 DEF NumbersDiffer
      <4>4. CASE u # t /\ v # t
          BY <1>1, <1>2, <2>1, <4>4 DEF NumbersDiffer
      <4> QED
          BY <4>1, <4>2, <4>3, <4>4
    <3> QED
        BY <3>2, <3>3, <3>4
  <2>2. ASSUME NEW r \in reports
        PROVE  /\ r.id < nextCall'
               /\ \A s \in reports : r.id = s.id => r = s
               /\ \A u \in Threads : \A i \in DOMAIN calls'[u] : calls'[u][i].id # r.id
    <3>1. /\ r.id < nextCall
          /\ \A s \in reports : r.id = s.id => r = s
          /\ \A u \in Threads : \A i \in DOMAIN calls[u] : calls[u][i].id # r.id
        BY <1>1 DEF NumbersDiffer
    <3>2. r.id \in Nat
        BY <1>1, BoundsAssumption DEF Typed
    <3>3. r.id < nextCall' /\ r.id # nextCall
        BY <1>2, <3>1, <3>2
    <3>4. ASSUME NEW u \in Threads, NEW i \in DOMAIN calls'[u] PROVE calls'[u][i].id # r.id
      <4>1. CASE u # t
          BY <1>2, <3>1, <4>1
      <4>2. CASE u = t /\ i = 1
          BY <1>2, <1>3, <3>3, <4>2
      <4>3. CASE u = t /\ i # 1
          BY <1>2, <3>1, <4>3
      <4> QED
          BY <4>1, <4>2, <4>3
    <3> QED
        BY <3>1, <3>3, <3>4
  <2> QED
      BY <1>4, <2>1, <2>2 DEF NumbersDiffer
<1>8. CallbackOwners' = CallbackOwners
  <2> DEFINE Looked(u)  == {InCallback(calls[u][i]) : i \in {k \in DOMAIN calls[u] : calls[u][k].mirror # 0}}
             Looks(u) == {InCallback(calls'[u][i]) : i \in {k \in DOMAIN calls'[u] : calls'[u][k].mirror # 0}}
  <2>1. ASSUME NEW u \in Threads PROVE Looks(u) = Looked(u)
    <3>1. CASE u # t
        BY <1>2, <3>1
    <3>2. CASE u = t
      <4>1. \A i \in DOMAIN calls'[t] : calls'[t][i].mirror # 0 => i # 1
          BY <1>2, <1>3
      <4>2. ASSUME NEW o \in Looks(t) PROVE o \in Looked(t)
        <5>1. PICK i \in DOMAIN calls'[t] : calls'[t][i].mirror # 0 /\ o = InCallback(calls'[t][i])
            OBVIOUS
        <5>2. i - 1 \in DOMAIN calls[t] /\ calls'[t][i] = calls[t][i - 1]
            BY <1>2, <4>1, <5>1
        <5> QED
            BY <5>1, <5>2
      <4>3. ASSUME NEW o \in Looked(t) PROVE o \in Looks(t)
        <5>1. PICK i \in DOMAIN calls[t] : calls[t][i].mirror # 0 /\ o = InCallback(calls[t][i])
            OBVIOUS
        <5>2. i + 1 \in DOMAIN calls'[t] /\ calls'[t][i + 1] = calls[t][i]
            BY <1>6
        <5> QED
            BY <5>1, <5>2
      <4>4. Looks(t) \subseteq Looked(t) /\ Looked(t) \subseteq Looks(t)
          BY <4>2, <4>3, Zenon
      <4> HIDE DEF Looks, Looked
      <4> QED
          BY <3>2, <4>4
    <3> QED
        BY <3>1, <3>2
  <2> QED
      BY <2>1 DEF CallbackOwners
<1>9. g_struct_entries[t] = <<>>
  <2>1. ~(Open(t) /\ Top(t).fn = "struct_report")
    <3> SUFFICES ASSUME Open(t) PROVE Top(t).fn # "struct_report"
        OBVIOUS
    <3>1. Top(t).at \in {"nal", "slot", "typed"} /\ Standing(Top(t))
        BY <1>1, TopFacts DEF MayEnter, Callback
    <3> QED
        BY <3>1 DEF Standing
  <2> QED
      BY <1>1, <2>1 DEF Listing
<1> QED
    BY <1>7, <1>8, <1>9

LEMMA LeaveKeeps ==
  ASSUME Live, NEW t \in Threads, Between(t), NEW ok, NEW error, Leave(t, ok, error)
  PROVE  /\ UNCHANGED reports => NumbersDiffer'
         /\ \A r : r.id = Top(t).id /\ reports' = reports \cup {r} => NumbersDiffer'
         /\ CallbackOwners' = CallbackOwners
         /\ \A i \in DOMAIN calls'[t] :
              /\ calls'[t][i].fn \in {"parse", "typed"}
              /\ SlotOf(Top(t).fn, Top(t).codec) = SlotOf(calls'[t][i].fn, calls'[t][i].codec)
                   => calls'[t][i].id \in taken
         /\ Open(t)' => Top(t)' = calls'[t][1] /\ 1 \in DOMAIN calls'[t]
<1>1. Typed /\ StacksAreNested /\ NumbersDiffer /\ Open(t)
    BY DEF Live, Between, At
<1>2. /\ calls' \in [Threads -> Seq(CallType)]
      /\ nextCall' = nextCall
      /\ \A u \in Threads \ {t} : calls'[u] = calls[u]
      /\ \A i \in DOMAIN calls'[t] : i + 1 \in DOMAIN calls[t] /\ calls'[t][i] = calls[t][i + 1]
      /\ \A i \in DOMAIN calls[t] : i # 1 => i - 1 \in DOMAIN calls'[t] /\ calls[t][i] = calls'[t][i - 1]
      /\ StacksAreNested'
    BY <1>1, LeaveStep
<1>3. Top(t) = calls[t][1] /\ 1 \in DOMAIN calls[t] /\ Top(t).mirror = 0 /\ Top(t).id < nextCall
    BY <1>1, TopFacts DEF Between, At, Standing
<1>4. \A i \in DOMAIN calls'[t] : i \in Nat \ {0} /\ i + 1 # 1
    BY <1>2
<1>5. \A u, v \in Threads : \A i \in DOMAIN calls'[u], j \in DOMAIN calls'[v] :
         calls'[u][i].id = calls'[v][j].id => u = v /\ i = j
  <2> SUFFICES ASSUME NEW u \in Threads, NEW v \in Threads, NEW i \in DOMAIN calls'[u], NEW j \in DOMAIN calls'[v],
                      calls'[u][i].id = calls'[v][j].id
               PROVE  u = v /\ i = j
      OBVIOUS
  <2>1. CASE u = t /\ v = t
    <3>1. i + 1 = j + 1 /\ i \in Nat /\ j \in Nat
        BY <1>1, <1>2, <1>4, <2>1 DEF NumbersDiffer
    <3> QED
        BY <2>1, <3>1
  <2>2. CASE u = t /\ v # t
    <3>1. i + 1 \in DOMAIN calls[t] /\ calls'[t][i] = calls[t][i + 1] /\ calls'[v] = calls[v]
        BY <1>2, <2>2
    <3> QED
        BY <1>1, <2>2, <3>1 DEF NumbersDiffer
  <2>3. CASE u # t /\ v = t
    <3>1. j + 1 \in DOMAIN calls[t] /\ calls'[t][j] = calls[t][j + 1] /\ calls'[u] = calls[u]
        BY <1>2, <2>3
    <3>2. calls[u][i].id = calls[t][j + 1].id /\ i \in DOMAIN calls[u]
        BY <2>3, <3>1
    <3> QED
        BY <1>1, <2>3, <3>1, <3>2 DEF NumbersDiffer
  <2>4. CASE u # t /\ v # t
    <3>1. calls'[u] = calls[u] /\ calls'[v] = calls[v]
        BY <1>2, <2>4
    <3> QED
        BY <1>1, <3>1 DEF NumbersDiffer
  <2> QED
      BY <2>1, <2>2, <2>3, <2>4
<1>6. \A r \in reports : /\ r.id < nextCall'
                         /\ \A s \in reports : r.id = s.id => r = s
                         /\ \A u \in Threads : \A i \in DOMAIN calls'[u] : calls'[u][i].id # r.id
  <2> SUFFICES ASSUME NEW r \in reports, NEW u \in Threads, NEW i \in DOMAIN calls'[u]
               PROVE  calls'[u][i].id # r.id
      BY <1>1, <1>2 DEF NumbersDiffer
  <2>1. CASE u = t
      BY <1>1, <1>2, <2>1 DEF NumbersDiffer
  <2>2. CASE u # t
      BY <1>1, <1>2, <2>2 DEF NumbersDiffer
  <2> QED
      BY <2>1, <2>2
<1>7. ASSUME UNCHANGED reports PROVE NumbersDiffer'
    BY <1>5, <1>6, <1>7 DEF NumbersDiffer
<1>8. ASSUME NEW r0, r0.id = Top(t).id, reports' = reports \cup {r0} PROVE NumbersDiffer'
  <2>1. \A r \in reports : r.id # r0.id
      BY <1>1, <1>3, <1>8 DEF NumbersDiffer
  <2>2. \A u \in Threads : \A i \in DOMAIN calls'[u] : calls'[u][i].id # r0.id
    <3> SUFFICES ASSUME NEW u \in Threads, NEW i \in DOMAIN calls'[u] PROVE calls'[u][i].id # r0.id
        OBVIOUS
    <3>1. CASE u = t
        BY <1>1, <1>2, <1>3, <1>4, <1>8, <3>1 DEF NumbersDiffer
    <3>2. CASE u # t
        BY <1>1, <1>2, <1>3, <1>8, <3>2 DEF NumbersDiffer
    <3> QED
        BY <3>1, <3>2
  <2>3. r0.id < nextCall'
      BY <1>2, <1>3, <1>8
  <2> QED
      BY <1>5, <1>6, <1>8, <2>1, <2>2, <2>3 DEF NumbersDiffer
<1>9. CallbackOwners' = CallbackOwners
  <2> DEFINE Looked(u) == {InCallback(calls[u][i]) : i \in {k \in DOMAIN calls[u] : calls[u][k].mirror # 0}}
             Looks(u)  == {InCallback(calls'[u][i]) : i \in {k \in DOMAIN calls'[u] : calls'[u][k].mirror # 0}}
  <2>1. ASSUME NEW u \in Threads PROVE Looks(u) = Looked(u)
    <3>1. CASE u # t
        BY <1>2, <3>1
    <3>2. CASE u = t
      <4>1. ASSUME NEW o \in Looks(t) PROVE o \in Looked(t)
        <5>1. PICK i \in DOMAIN calls'[t] : calls'[t][i].mirror # 0 /\ o = InCallback(calls'[t][i])
            OBVIOUS
        <5>2. i + 1 \in DOMAIN calls[t] /\ calls'[t][i] = calls[t][i + 1]
            BY <1>2
        <5> QED
            BY <5>1, <5>2
      <4>2. ASSUME NEW o \in Looked(t) PROVE o \in Looks(t)
        <5>1. PICK i \in DOMAIN calls[t] : calls[t][i].mirror # 0 /\ o = InCallback(calls[t][i])
            OBVIOUS
        <5>2. i - 1 \in DOMAIN calls'[t] /\ calls'[t][i - 1] = calls[t][i]
            BY <1>2, <1>3, <5>1
        <5> QED
            BY <5>1, <5>2
      <4> HIDE DEF Looks, Looked
      <4> QED
          BY <3>2, <4>1, <4>2
    <3> QED
        BY <3>1, <3>2
  <2>2. CallbackOwners' = UNION {Looks(u) : u \in Threads} /\ CallbackOwners = UNION {Looked(u) : u \in Threads}
      BY Zenon DEF CallbackOwners
  <2> HIDE DEF Looks, Looked
  <2> QED
      BY <2>1, <2>2
<1>10. ASSUME NEW i \in DOMAIN calls'[t]
       PROVE  /\ calls'[t][i].fn \in {"parse", "typed"}
              /\ SlotOf(Top(t).fn, Top(t).codec) = SlotOf(calls'[t][i].fn, calls'[t][i].codec)
                   => calls'[t][i].id \in taken
  <2>1. i + 1 \in DOMAIN calls[t] /\ calls'[t][i] = calls[t][i + 1] /\ i + 1 # 1 /\ i + 1 > 1
      BY <1>2, <1>4
  <2>2. Standing(calls'[t][i]) /\ calls'[t][i].at # "between" /\ calls'[t][i] \in CallType
      BY <1>1, <1>2, <2>1 DEF StacksAreNested
  <2>3. calls'[t][i].fn \in {"parse", "typed"}
      BY <2>2, CallFields DEF Standing
  <2>4. SlotOf(Top(t).fn, Top(t).codec) = SlotOf(calls'[t][i].fn, calls'[t][i].codec)
          => calls'[t][i].id \in taken
      BY <1>1, <1>3, <2>1 DEF StacksAreNested
  <2> QED
      BY <2>3, <2>4
<1>11. ASSUME Open(t)' PROVE Top(t)' = calls'[t][1] /\ 1 \in DOMAIN calls'[t]
  <2>1. calls'[t] \in Seq(CallType) /\ calls'[t] # <<>>
      BY <1>2, <1>11 DEF Open
  <2> QED
      BY <2>1, Popped DEF Top
<1> QED
    BY <1>7, <1>8, <1>9, <1>10, <1>11

(* A thread that does nothing keeps what it lists.                         *)
LEMMA Bystander ==
  ASSUME NEW u, Listing(u), calls'[u] = calls[u],
         g_entries'[u] = g_entries[u], g_collector_codec'[u] = g_collector_codec[u],
         g_struct_entries'[u] = g_struct_entries[u]
  PROVE  Listing(u)'
BY DEF Listing, Open, Top

(* Pointers and places do not depend on how many calls there have been.    *)
LEMMA StillStashed ==
  ASSUME Live, UNCHANGED <<g_handlers, g_data_start, calls, taken>>,
         nextCall' = nextCall \/ nextCall' = nextCall + 1
  PROVE  \A u \in Threads : Stashed(u)'
<1> SUFFICES ASSUME NEW u \in Threads PROVE KeepsPlace(u)' /\ LeadsHome(u)'
    BY DEF Stashed
<1>1. KeepsPlace(u) /\ LeadsHome(u) /\ Typed
    BY DEF Live, Stashed
<1>2. KeepsPlace(u)'
    BY <1>1 DEF KeepsPlace, Finds
<1>3. ASSUME NEW s \in Slots PROVE g_handlers[u][s] < nextCall'
  <2>1. g_handlers[u][s] \in 0..MaxCalls
      BY <1>1, PointersTyped
  <2>2. g_handlers[u][s] < nextCall
      BY <1>1 DEF LeadsHome
  <2> QED
      BY <1>1, <2>1, <2>2, NextTyped, BoundsAssumption
<1>4. LeadsHome(u)'
    BY <1>1, <1>3 DEF LeadsHome
<1> QED
    BY <1>2, <1>4

-----------------------------------------------------------------------------
(* The heap: a new mirror, and mirrors freed.                              *)

LEMMA Allocates ==
  ASSUME NEW O, NEW B, NEW n \in Nat, Owned(O, B, n), NEW o, o.mirror = n,
         \A p \in O : p.mirror \in Nat
  PROVE  Owned(O \cup {o}, B \cup Blocks(n, o.struct), n + 1)
<1>1. \A p \in O : p.mirror < n /\ p.mirror # n
    BY DEF Owned
<1>2. \A b \in Blocks(n, o.struct) : b = <<b[1], b[2]>> /\ b[1] = n
    BY DEF Blocks
<1>3. \A b \in B \cup Blocks(n, o.struct) : b = <<b[1], b[2]>> /\ b[1] \in Nat /\ b[1] < n + 1
    BY <1>2 DEF Owned
<1>4. \A p \in O \cup {o} : p.mirror < n + 1 /\ Blocks(p.mirror, p.struct) \subseteq B \cup Blocks(n, o.struct)
    BY DEF Owned
<1>5. \A p, q \in O \cup {o} : p.mirror = q.mirror => p = q
    BY <1>1 DEF Owned
<1>6. \A b \in B \cup Blocks(n, o.struct) : b[2] = <<>> => \E p \in O \cup {o} : p.mirror = b[1]
    BY <1>2 DEF Owned
<1> QED
    BY <1>3, <1>4, <1>5, <1>6 DEF Owned

LEMMA Frees ==
  ASSUME NEW O, NEW B, NEW n, Owned(O, B, n), NEW X \in SUBSET O,
         \A p \in O : p.struct \in Structs,
         NEW gone, gone = UNION {Deleted(o.mirror, o.struct) : o \in X}
  PROVE  gone \subseteq B /\ Owned(O \ X, B \ gone, n)
<1>1. \A b \in gone : \E o \in X : b[1] = o.mirror /\ b \in Blocks(o.mirror, o.struct)
    BY StructsRelease DEF Deleted, Blocks
<1>2. gone \subseteq B
    BY <1>1 DEF Owned
<1>3. \A o \in X : <<o.mirror, <<>>>> \in gone
    BY DEF Deleted
<1>4. ASSUME NEW o \in O \ X PROVE Blocks(o.mirror, o.struct) \subseteq B \ gone
  <2>1. \A b \in Blocks(o.mirror, o.struct) : b[1] = o.mirror
      BY DEF Blocks
  <2>2. Blocks(o.mirror, o.struct) \subseteq B
      BY DEF Owned
  <2>3. \A p \in X : p.mirror # o.mirror
      BY DEF Owned
  <2> QED
      BY <1>1, <2>1, <2>2, <2>3
<1>5. ASSUME NEW b \in B \ gone, b[2] = <<>> PROVE \E o \in O \ X : o.mirror = b[1]
  <2>1. b = <<b[1], <<>>>>
      BY <1>5 DEF Owned
  <2>2. PICK o \in O : o.mirror = b[1]
      BY <1>5 DEF Owned
  <2>3. o \notin X
      BY <1>3, <2>1, <2>2
  <2> QED
      BY <2>2, <2>3
<1> QED
    BY <1>2, <1>4, <1>5 DEF Owned

LEMMA OwnersTyped ==
  ASSUME Typed, StacksAreNested, NEW o \in Owners
  PROVE  o.mirror \in Nat \ {0} /\ o.struct \in Structs
<1>1. Typed /\ StacksAreNested
    OBVIOUS
<1>2. CASE o \in CallbackOwners
  <2>0. PICK t \in Threads : \E i \in DOMAIN calls[t] : calls[t][i].mirror # 0 /\ o = InCallback(calls[t][i])
      BY <1>2 DEF CallbackOwners
  <2>1. PICK i \in DOMAIN calls[t] : calls[t][i].mirror # 0 /\ o = InCallback(calls[t][i])
      BY <2>0
  <2>2. calls[t][i] \in CallType /\ Standing(calls[t][i])
    <3>1. calls[t] \in Seq(CallType)
        BY <1>1 DEF Typed
    <3> QED
        BY <1>1, <3>1 DEF StacksAreNested
  <2>3. calls[t][i].kind \in DOMAIN TypedMirrors[calls[t][i].codec] /\ calls[t][i].codec \in Codecs
      BY <2>1, <2>2, CallFields DEF Standing
  <2>4. o.mirror = calls[t][i].mirror /\ o.struct = TypedMirrors[calls[t][i].codec][calls[t][i].kind]
      BY <2>1 DEF InCallback
  <2> QED
      BY <2>1, <2>2, <2>3, <2>4, CallFields DEF Structs
<1>3. CASE o \in EntryOwners
  <2>1. PICK t \in Threads : o \in Elements(g_struct_entries[t])
      BY <1>3 DEF EntryOwners
  <2>2. g_struct_entries[t] \in Seq(ListedMirror)
      BY <1>1 DEF Typed
  <2>3. o \in ListedMirror
      BY <2>1, <2>2 DEF Elements
  <2> QED
      BY <2>3 DEF ListedMirror
<1>4. CASE o \in ReportOwners
  <2>1. PICK r \in reports : r.fn = "struct_report" /\ o \in Elements(r.entries)
      BY <1>4 DEF ReportOwners
  <2>2. r.entries \in Seq(ListedMirror)
      BY <1>1, <2>1 DEF Typed
  <2>3. o \in ListedMirror
      BY <2>1, <2>2 DEF Elements
  <2> QED
      BY <2>3 DEF ListedMirror
<1> QED
    BY <1>2, <1>3, <1>4 DEF Owners

(* An owner shows which call it belongs to.                                *)
LEMMA Provenance ==
  ASSUME Live
  PROVE  /\ \A o \in CallbackOwners : o.unit = 0
         /\ \A u \in Threads : \A o \in Elements(g_struct_entries[u]) :
              o.unit # 0 /\ Open(u) /\ o.call = Top(u).id
         /\ \A r \in reports : \A o \in Elements(r.entries) :
              r.fn = "struct_report" => o.unit # 0 /\ o.call = r.id
<1>1. Typed
    BY DEF Live
<1>2. \A o \in CallbackOwners : o.unit = 0
    BY DEF CallbackOwners, InCallback
<1>3. ASSUME NEW u \in Threads, NEW i \in DOMAIN g_struct_entries[u]
      PROVE  g_struct_entries[u][i].unit # 0 /\ Open(u) /\ g_struct_entries[u][i].call = Top(u).id
  <2>1. Listing(u) /\ g_struct_entries[u] \in Seq(ListedMirror)
      BY <1>1 DEF Live, Typed
  <2>2. i \in Nat \ {0} /\ g_struct_entries[u] # <<>>
      BY <2>1
  <2> QED
      BY <2>1, <2>2 DEF Listing, Lists
<1>4. ASSUME NEW r \in reports, r.fn = "struct_report", NEW i \in DOMAIN r.entries
      PROVE  r.entries[i].unit # 0 /\ r.entries[i].call = r.id
  <2>1. Lists(r.entries, r) /\ r.entries \in Seq(ListedMirror)
      BY <1>1, <1>4 DEF Live, Typed, ReportsAreWhole
  <2>2. i \in Nat \ {0}
      BY <2>1
  <2> QED
      BY <2>1, <2>2 DEF Lists
<1> QED
    BY <1>2, <1>3, <1>4 DEF Elements

-----------------------------------------------------------------------------
(* The calls that begin. *)

(* A thread's own variables, all of their types.                           *)
TlsTyped ==
  /\ g_handlers \in [Threads -> [Slots -> 0..MaxCalls]]
  /\ g_data_start \in [Threads -> 0..MaxCalls]
  /\ g_collector_codec \in [Threads -> Codecs \cup {"Hevc"}]
  /\ g_entries \in [Threads -> Seq(ListedUnit)]
  /\ g_struct_entries \in [Threads -> Seq(ListedMirror)]

(* No thread but t has changed a variable of its own.                      *)
OthersKeep(t) == \A u \in Threads \ {t} :
  /\ g_handlers'[u] = g_handlers[u] /\ g_data_start'[u] = g_data_start[u]
  /\ g_entries'[u] = g_entries[u] /\ g_collector_codec'[u] = g_collector_codec[u]
  /\ g_struct_entries'[u] = g_struct_entries[u]

LEMMA EnterStashes ==
  ASSUME Live, NEW t \in Threads, NEW fn \in Fns, NEW codec \in Codecs, NEW auto \in BOOLEAN,
         MayEnter(t), Enter(t, fn, codec, auto), OthersKeep(t),
         \A s \in Slots : g_handlers'[t][s] = IF s = SlotOf(fn, codec) THEN nextCall ELSE g_handlers[t][s],
         g_data_start'[t] = IF SlotOf(fn, codec) = "raw" THEN nextCall ELSE g_data_start[t],
         fn = "report" => g_collector_codec'[t] = codec /\ g_entries'[t] = <<>>,
         g_struct_entries'[t] = <<>>
  PROVE  (\A u \in Threads : Stashed(u)') /\ Listing(t)'
<1>1. Typed /\ StacksAreNested /\ NumbersDiffer /\ \A u \in Threads : KeepsPlace(u) /\ LeadsHome(u)
    BY DEF Live, Stashed
<1> DEFINE new  == NewCall(fn, codec, auto)
           slot == SlotOf(fn, codec)
<1>2. /\ calls' \in [Threads -> Seq(CallType)]
      /\ nextCall \in 1..MaxCalls /\ nextCall' = nextCall + 1
      /\ \A u \in Threads \ {t} : calls'[u] = calls[u]
      /\ DOMAIN calls'[t] = 1..Len(calls[t]) + 1 /\ Len(calls[t]) \in Nat
      /\ calls'[t][1] = new
      /\ \A i \in DOMAIN calls'[t] : i # 1 => i - 1 \in DOMAIN calls[t] /\ calls'[t][i] = calls[t][i - 1]
      /\ \A n \in taken' : n < nextCall
      /\ \A i \in DOMAIN calls[t] : calls[t][i].fn \in {"parse", "typed"}
    BY <1>1, EnterStep
<1>3. new.id = nextCall /\ new.fn = fn /\ new.codec = codec /\ new.count = 0 /\ Served(new)
    BY DEF NewCall, Served
<1> HIDE DEF new
<1>4. 1 \in DOMAIN calls'[t] /\ taken' = taken \cup Overwritten(t, fn, codec)
    BY <1>2 DEF Enter
<1>5. codec \in AllCodecs /\ "raw" \in Slots /\ \A s \in Codecs : s \in Slots /\ s # "raw" /\ s # "entries"
    BY CodecsAssumption DEF Slots, AllCodecs
<1>6. \A v \in Threads : \A i \in DOMAIN calls'[v] :
        (v = t /\ i = 1) \/ \E j \in DOMAIN calls[v] : calls'[v][i] = calls[v][j]
    BY <1>2
<1>7. ASSUME NEW v \in Threads, NEW j \in DOMAIN calls[v]
      PROVE  /\ calls[v][j] \in CallType /\ calls[v][j].id # nextCall
             /\ calls[v][j].codec \in Codecs
             /\ calls[v][j].id \in taken' =>
                  \/ calls[v][j].id \in taken
                  \/ v = t /\ slot = SlotOf(calls[v][j].fn, calls[v][j].codec)
             /\ (v = t /\ slot = SlotOf(calls[v][j].fn, calls[v][j].codec)) => calls[v][j].id \in taken'
  <2>1. calls[v] \in Seq(CallType)
      BY <1>1 DEF Typed
  <2>2. calls[v][j] \in CallType /\ j \in Nat \ {0}
      BY <2>1
  <2>3. calls[v][j].id \in Nat /\ calls[v][j].codec \in Codecs
      BY <2>2, CallFields
  <2>4. calls[v][j].id + j <= nextCall
      BY <1>1 DEF StacksAreNested
  <2>5. calls[v][j].id # nextCall
      BY <1>2, <2>2, <2>3, <2>4
  <2>6. ASSUME calls[v][j].id \in Overwritten(t, fn, codec)
        PROVE  v = t /\ slot = SlotOf(calls[v][j].fn, calls[v][j].codec)
    <3>1. PICK k \in DOMAIN calls[t] : /\ SlotOf(calls[t][k].fn, calls[t][k].codec) = slot
                                       /\ calls[t][k].id = calls[v][j].id
        BY <2>6 DEF Overwritten
    <3> QED
        BY <1>1, <3>1 DEF NumbersDiffer
  <2>7. ASSUME v = t, slot = SlotOf(calls[v][j].fn, calls[v][j].codec) PROVE calls[v][j].id \in taken'
      BY <1>4, <2>7 DEF Overwritten
  <2> QED
      BY <1>4, <2>2, <2>3, <2>5, <2>6, <2>7
<1>8. ASSUME NEW u \in Threads, NEW s \in Slots
      PROVE  /\ (u = t /\ s = slot) => g_handlers'[u][s] = nextCall
             /\ ~(u = t /\ s = slot) => g_handlers'[u][s] = g_handlers[u][s]
             /\ g_handlers[u][s] \in Nat /\ g_handlers[u][s] < nextCall
             /\ g_handlers'[u][s] < nextCall'
  <2>1. g_handlers[u][s] \in Nat /\ g_handlers[u][s] < nextCall
      BY <1>1, PointersTyped DEF LeadsHome
  <2>2. ~(u = t /\ s = slot) => g_handlers'[u][s] = g_handlers[u][s]
      BY DEF OthersKeep
  <2>3. (u = t /\ s = slot) => g_handlers'[u][s] = nextCall
      OBVIOUS
  <2> QED
      BY <1>2, <2>1, <2>2, <2>3
<1> HIDE DEF slot
<1>9. ASSUME NEW u \in Threads PROVE KeepsPlace(u)'
  <2> SUFFICES ASSUME NEW i \in DOMAIN calls'[u]
               PROVE  /\ calls'[u][i].id \notin taken' => Finds(u, calls[u][i])'
                      /\ calls'[u][i].id \in taken' => calls'[u][i].fn \in {"parse", "typed"}
      BY Zenon DEF KeepsPlace
  <2>1. CASE u = t /\ i = 1
    <3>1. calls'[u][i] = new /\ new.id \notin taken'
        BY <1>2, <1>3, <2>1
    <3>2. fn \in {"parse", "report"} => g_handlers'[t].raw = nextCall /\ g_data_start'[t] = nextCall
        BY <1>5 DEF SlotOf
    <3>3. fn = "typed" => g_handlers'[t][codec] = nextCall
        BY <1>5 DEF SlotOf
    <3> QED
        BY <1>3, <2>1, <3>1, <3>2, <3>3 DEF Finds
  <2>2. ASSUME NEW j \in DOMAIN calls[u], calls'[u][i] = calls[u][j]
        PROVE  /\ calls'[u][i].id \notin taken' => Finds(u, calls[u][i])'
               /\ calls'[u][i].id \in taken' => calls'[u][i].fn \in {"parse", "typed"}
    <3> DEFINE c == calls[u][j]
    <3>1. /\ c.id \notin taken => Finds(u, c)
          /\ c.id \in taken => c.fn \in {"parse", "typed"}
        BY <1>1 DEF KeepsPlace
    <3>2. c.id \in taken' => c.fn \in {"parse", "typed"}
        BY <1>2, <1>7, <3>1
    <3>3. ASSUME c.id \notin taken' PROVE Finds(u, calls[u][i])'
      <4>1. Finds(u, c) /\ ~(u = t /\ slot = SlotOf(c.fn, c.codec)) /\ c.codec \in Codecs
          BY <1>4, <1>7, <3>1, <3>3
      <4>2. c.fn \in {"parse", "report"} =>
               g_handlers'[u].raw = g_handlers[u].raw /\ g_data_start'[u] = g_data_start[u]
        <5>1. c.fn \in {"parse", "report"} => SlotOf(c.fn, c.codec) = "raw"
            BY DEF SlotOf
        <5>2. (u # t \/ slot # "raw") => g_data_start'[u] = g_data_start[u]
            BY DEF OthersKeep, slot
        <5> QED
            BY <1>5, <1>8, <4>1, <5>1, <5>2
      <4>3. c.fn = "typed" => g_handlers'[u][c.codec] = g_handlers[u][c.codec]
        <5>1. c.fn = "typed" => SlotOf(c.fn, c.codec) = c.codec
            BY DEF SlotOf
        <5> QED
            BY <1>5, <1>8, <4>1, <5>1
      <4> HIDE DEF c
      <4>4. calls'[u][i] = c
          BY <2>2 DEF c
      <4> QED
          BY <4>1, <4>2, <4>3, <4>4 DEF Finds
    <3> QED
        BY <2>2, <3>2, <3>3
  <2> QED
      BY <1>6, <2>1, <2>2
<1>10. ASSUME NEW u \in Threads PROVE LeadsHome(u)'
  <2>1. ASSUME NEW s \in Slots, NEW v \in Threads, NEW i \in DOMAIN calls'[v],
               g_handlers'[u][s] = calls'[v][i].id
        PROVE  v = u /\ SlotOf(calls'[v][i].fn, calls'[v][i].codec) = s /\ calls'[v][i].id \notin taken'
    <3>1. CASE v = t /\ i = 1
      <4>1. calls'[v][i] = new /\ new.id \notin taken'
          BY <1>2, <1>3, <3>1
      <4>2. u = t /\ s = slot
          BY <1>2, <1>3, <1>8, <2>1, <4>1
      <4> QED
          BY <1>3, <3>1, <4>1, <4>2 DEF slot
    <3>2. ASSUME NEW j \in DOMAIN calls[v], calls'[v][i] = calls[v][j]
          PROVE  v = u /\ SlotOf(calls'[v][i].fn, calls'[v][i].codec) = s /\ calls'[v][i].id \notin taken'
      <4>1. ~(u = t /\ s = slot) /\ g_handlers[u][s] = calls[v][j].id
          BY <1>7, <1>8, <2>1, <3>2
      <4>2. v = u /\ SlotOf(calls[v][j].fn, calls[v][j].codec) = s /\ calls[v][j].id \notin taken
          BY <1>1, <4>1 DEF LeadsHome
      <4> QED
          BY <1>7, <3>2, <4>1, <4>2
    <3> QED
        BY <1>6, <3>1, <3>2
  <2>2. ASSUME NEW s \in Codecs, g_handlers'[u][s] # None
        PROVE  \E i \in DOMAIN calls'[u] : calls'[u][i].id = g_handlers'[u][s]
    <3>1. CASE u = t /\ s = slot
        BY <1>2, <1>3, <1>4, <1>5, <1>8, <3>1
    <3>2. CASE ~(u = t /\ s = slot)
      <4>1. g_handlers'[u][s] = g_handlers[u][s]
          BY <1>5, <1>8, <3>2
      <4>2. PICK j \in DOMAIN calls[u] : calls[u][j].id = g_handlers[u][s]
          BY <1>1, <2>2, <4>1 DEF LeadsHome
      <4>3. CASE u # t
          BY <1>2, <4>1, <4>2, <4>3
      <4>4. CASE u = t
        <5>1. calls[t] \in Seq(CallType)
            BY <1>1 DEF Typed
        <5>2. j + 1 \in DOMAIN calls'[t] /\ j + 1 # 1 /\ (j + 1) - 1 = j
            BY <1>2, <4>2, <4>4, <5>1
        <5> QED
            BY <1>2, <4>1, <4>2, <4>4, <5>2
      <4> QED
          BY <4>3, <4>4
    <3> QED
        BY <3>1, <3>2
  <2> QED
      BY <1>8, <2>1, <2>2, Zenon DEF LeadsHome
<1>11. Top(t)' = new
  <2>1. calls'[t] \in Seq(CallType) /\ calls'[t] # <<>>
      BY <1>2, <1>4
  <2> QED
      BY <1>2, <2>1, Popped DEF Top
<1>12. Lists(<<>>, new)
    BY <1>3 DEF Lists
<1>13. Listing(t)'
    BY <1>3, <1>11, <1>12 DEF Listing
<1> QED
    BY <1>9, <1>10, <1>13 DEF Stashed

LEMMA Begins ==
  ASSUME Live, NEW t \in Threads, NEW fn \in Fns, NEW codec \in Codecs, NEW auto \in BOOLEAN,
         MayEnter(t), Enter(t, fn, codec, auto),
         TlsTyped', OthersKeep(t),
         \A s \in Slots : g_handlers'[t][s] = IF s = SlotOf(fn, codec) THEN nextCall ELSE g_handlers[t][s],
         g_data_start'[t] = IF SlotOf(fn, codec) = "raw" THEN nextCall ELSE g_data_start[t],
         fn = "report" => g_collector_codec'[t] = codec /\ g_entries'[t] = <<>>,
         g_struct_entries'[t] = <<>>
  PROVE  Live'
<1>1. Typed /\ StacksAreNested /\ (\A u \in Threads : Stashed(u) /\ Listing(u)) /\ ReportsAreWhole
      /\ faults = {} /\ Owned(Owners, heap, nextMirror)
    BY DEF Live
<1>2. /\ calls' \in [Threads -> Seq(CallType)]
      /\ nextCall \in 1..MaxCalls /\ nextCall' = nextCall + 1
      /\ \A u \in Threads \ {t} : calls'[u] = calls[u]
      /\ taken' \subseteq 1..MaxCalls
      /\ StacksAreNested'
    BY <1>1, EnterStep
<1>3. NumbersDiffer' /\ CallbackOwners' = CallbackOwners /\ g_struct_entries[t] = <<>>
    BY EnterKeeps
<1>4. UNCHANGED <<heap, reports, answers, nextMirror, faults>>
    BY DEF Enter
<1>5. Typed'
  <2>1. nextCall' \in 1..MaxCalls + 1
      BY <1>2, BoundsAssumption
  <2>2. \A u \in Threads : \A i \in DOMAIN calls'[u] : calls'[u][i] \in CallType
    <3> SUFFICES ASSUME NEW u \in Threads PROVE \A i \in DOMAIN calls'[u] : calls'[u][i] \in CallType
        OBVIOUS
    <3>1. calls'[u] \in Seq(CallType)
        BY <1>2
    <3> QED
        BY <3>1
  <2>3. /\ answers \in [Threads -> [fn : Fns, ok : BOOLEAN, error : BOOLEAN]]
        /\ nextMirror \in Nat \ {0}
      BY <1>1 DEF Typed, TypeOK
  <2>4. TypeOK'
      BY <1>1, <1>2, <1>4, <2>1, <2>2, <2>3 DEF TypeOK, TlsTyped
  <2> QED
      BY <1>1, <1>2, <1>4, <2>4 DEF Typed, TlsTyped
<1>6. \A u \in Threads : Stashed(u)' /\ Listing(u)'
  <2> SUFFICES ASSUME NEW u \in Threads PROVE Stashed(u)' /\ Listing(u)'
      OBVIOUS
  <2>0. Stashed(u)' /\ Listing(t)'
      BY EnterStashes
  <2>1. CASE u = t
      BY <2>0, <2>1
  <2>2. CASE u # t
      BY <1>1, <1>2, <2>0, <2>2, Bystander DEF OthersKeep
  <2> QED
      BY <2>1, <2>2
<1>7. ReportsAreWhole'
    BY <1>1, <1>4 DEF ReportsAreWhole
<1>8. EntryOwners' = EntryOwners
  <2>1. \A u \in Threads : g_struct_entries'[u] = g_struct_entries[u]
      BY <1>3 DEF OthersKeep
  <2> QED
      BY <2>1 DEF EntryOwners
<1>9. ReportOwners' = ReportOwners
    BY <1>4 DEF ReportOwners
<1>10. faults' = {} /\ Owned(Owners', heap', nextMirror')
    BY <1>1, <1>3, <1>4, <1>8, <1>9 DEF Owners
<1> QED
    BY <1>2, <1>3, <1>5, <1>6, <1>7, <1>10 DEF Live

LEMMA SlotsAssigned ==
  ASSUME NEW f \in [Threads -> [Slots -> 0..MaxCalls]], NEW t \in Threads, NEW s \in Slots,
         NEW n \in 0..MaxCalls
  PROVE  LET g == [f EXCEPT ![t][s] = n] IN
         /\ g \in [Threads -> [Slots -> 0..MaxCalls]]
         /\ \A u \in Threads \ {t} : g[u] = f[u]
         /\ \A r \in Slots : g[t][r] = IF r = s THEN n ELSE f[t][r]
OBVIOUS

LEMMA BsParseStep == ASSUME Live, NEW t \in Threads, BsParse(t) PROVE Live'
<1>1. PICK codec \in Codecs :
        /\ MayEnter(t) /\ Enter(t, "parse", codec, FALSE)
        /\ g_handlers' = [g_handlers EXCEPT ![t]["raw"] = nextCall]
        /\ g_data_start' = [g_data_start EXCEPT ![t] = nextCall]
        /\ UNCHANGED <<g_entries, g_collector_codec, g_struct_entries>>
    BY DEF BsParse
<1>2. Typed /\ "parse" \in Fns /\ "raw" \in Slots /\ SlotOf("parse", codec) = "raw" /\ TlsTyped
    BY DEF Live, Fns, Slots, SlotOf, Typed, TypeOK, TlsTyped
<1>3. nextCall \in 0..MaxCalls
    BY <1>1, <1>2, NextTyped DEF MayEnter
<1>4. /\ g_handlers' \in [Threads -> [Slots -> 0..MaxCalls]]
      /\ \A u \in Threads \ {t} : g_handlers'[u] = g_handlers[u]
      /\ \A s \in Slots : g_handlers'[t][s] = IF s = "raw" THEN nextCall ELSE g_handlers[t][s]
    BY <1>1, <1>2, <1>3, SlotsAssigned DEF TlsTyped
<1>5. TlsTyped' /\ OthersKeep(t) /\ g_data_start'[t] = nextCall
    BY <1>1, <1>2, <1>3, <1>4 DEF TlsTyped, OthersKeep
<1>6. g_struct_entries'[t] = <<>>
    BY <1>1, <1>2, EnterKeeps
<1>7. /\ \A s \in Slots : g_handlers'[t][s] =
              IF s = SlotOf("parse", codec) THEN nextCall ELSE g_handlers[t][s]
      /\ g_data_start'[t] = IF SlotOf("parse", codec) = "raw" THEN nextCall ELSE g_data_start[t]
      /\ "parse" = "report" => g_collector_codec'[t] = codec /\ g_entries'[t] = <<>>
      /\ FALSE \in BOOLEAN
    BY <1>2, <1>4, <1>5
<1> QED
    BY <1>1, <1>2, <1>5, <1>6, <1>7, Begins, Zenon

LEMMA BsParseReportStep == ASSUME Live, NEW t \in Threads, BsParseReport(t) PROVE Live'
<1>1. PICK asked \in Codecs \cup {Probed} : \E probed \in Codecs :
        LET codec == CodecOf(asked, probed) IN
        /\ MayEnter(t) /\ Enter(t, "report", codec, asked = Probed)
        /\ g_entries' = [g_entries EXCEPT ![t] = Cleared(@)]
        /\ g_collector_codec' = [g_collector_codec EXCEPT ![t] = codec]
        /\ g_handlers' = [g_handlers EXCEPT ![t]["raw"] = nextCall]
        /\ g_data_start' = [g_data_start EXCEPT ![t] = nextCall]
        /\ UNCHANGED g_struct_entries
    BY DEF BsParseReport
<1>2. PICK codec \in Codecs :
        /\ MayEnter(t) /\ Enter(t, "report", codec, asked = Probed)
        /\ g_entries' = [g_entries EXCEPT ![t] = <<>>]
        /\ g_collector_codec' = [g_collector_codec EXCEPT ![t] = codec]
        /\ g_handlers' = [g_handlers EXCEPT ![t]["raw"] = nextCall]
        /\ g_data_start' = [g_data_start EXCEPT ![t] = nextCall]
        /\ UNCHANGED g_struct_entries
    BY <1>1, Zenon DEF CodecOf, Cleared
<1>3. Typed /\ "report" \in Fns /\ "raw" \in Slots /\ SlotOf("report", codec) = "raw" /\ TlsTyped
      /\ (asked = Probed) \in BOOLEAN
    BY DEF Live, Fns, Slots, SlotOf, Typed, TypeOK, TlsTyped
<1>4. nextCall \in 0..MaxCalls
    BY <1>2, <1>3, NextTyped DEF MayEnter
<1>5. /\ g_handlers' \in [Threads -> [Slots -> 0..MaxCalls]]
      /\ \A u \in Threads \ {t} : g_handlers'[u] = g_handlers[u]
      /\ \A s \in Slots : g_handlers'[t][s] = IF s = "raw" THEN nextCall ELSE g_handlers[t][s]
    BY <1>2, <1>3, <1>4, SlotsAssigned DEF TlsTyped
<1>6. /\ TlsTyped' /\ OthersKeep(t) /\ g_data_start'[t] = nextCall
      /\ g_collector_codec'[t] = codec /\ g_entries'[t] = <<>>
    BY <1>2, <1>3, <1>4, <1>5 DEF TlsTyped, OthersKeep
<1>7. g_struct_entries'[t] = <<>>
    BY <1>2, <1>3, EnterKeeps
<1>8. /\ \A s \in Slots : g_handlers'[t][s] =
              IF s = SlotOf("report", codec) THEN nextCall ELSE g_handlers[t][s]
      /\ g_data_start'[t] = IF SlotOf("report", codec) = "raw" THEN nextCall ELSE g_data_start[t]
      /\ "report" = "report" => g_collector_codec'[t] = codec /\ g_entries'[t] = <<>>
      /\ FALSE \in BOOLEAN
    BY <1>3, <1>5, <1>6
<1> QED
    BY <1>2, <1>3, <1>6, <1>7, <1>8, Begins, Zenon

LEMMA BsParseTypedStep == ASSUME Live, NEW t \in Threads, BsParseTyped(t) PROVE Live'
<1>1. PICK codec \in Codecs :
        /\ MayEnter(t) /\ Enter(t, "typed", codec, FALSE)
        /\ g_handlers' = [g_handlers EXCEPT ![t][codec] = nextCall]
        /\ UNCHANGED <<g_data_start, g_entries, g_collector_codec, g_struct_entries>>
    BY DEF BsParseTyped
<1>2. Typed /\ "typed" \in Fns /\ codec \in Slots /\ SlotOf("typed", codec) = codec /\ TlsTyped
      /\ codec # "raw"
    BY CodecsAssumption DEF Live, Fns, Slots, SlotOf, Typed, TypeOK, TlsTyped, AllCodecs
<1>3. nextCall \in 0..MaxCalls
    BY <1>1, <1>2, NextTyped DEF MayEnter
<1>4. /\ g_handlers' \in [Threads -> [Slots -> 0..MaxCalls]]
      /\ \A u \in Threads \ {t} : g_handlers'[u] = g_handlers[u]
      /\ \A s \in Slots : g_handlers'[t][s] = IF s = codec THEN nextCall ELSE g_handlers[t][s]
    BY <1>1, <1>2, <1>3, SlotsAssigned DEF TlsTyped
<1>5. TlsTyped' /\ OthersKeep(t) /\ g_data_start'[t] = g_data_start[t]
    BY <1>1, <1>2, <1>3, <1>4 DEF TlsTyped, OthersKeep
<1>6. g_struct_entries'[t] = <<>>
    BY <1>1, <1>2, EnterKeeps
<1>7. /\ \A s \in Slots : g_handlers'[t][s] =
              IF s = SlotOf("typed", codec) THEN nextCall ELSE g_handlers[t][s]
      /\ g_data_start'[t] = IF SlotOf("typed", codec) = "raw" THEN nextCall ELSE g_data_start[t]
      /\ "typed" = "report" => g_collector_codec'[t] = codec /\ g_entries'[t] = <<>>
      /\ FALSE \in BOOLEAN
    BY <1>2, <1>4, <1>5
<1> QED
    BY <1>1, <1>2, <1>5, <1>6, <1>7, Begins, Zenon

LEMMA BsParseStructReportStep == ASSUME Live, NEW t \in Threads, BsParseStructReport(t) PROVE Live'
<1>1. PICK asked \in Codecs \cup {Probed} : \E probed \in Codecs :
        /\ MayEnter(t)
        /\ Enter(t, "struct_report", CodecOf(asked, probed), asked = Probed)
        /\ g_struct_entries' = [g_struct_entries EXCEPT ![t] = <<>>]
        /\ UNCHANGED <<g_handlers, g_data_start, g_entries, g_collector_codec>>
    BY DEF BsParseStructReport
<1>2. PICK codec \in Codecs :
        /\ MayEnter(t) /\ Enter(t, "struct_report", codec, asked = Probed)
        /\ g_struct_entries' = [g_struct_entries EXCEPT ![t] = <<>>]
        /\ UNCHANGED <<g_handlers, g_data_start, g_entries, g_collector_codec>>
    BY <1>1, Zenon DEF CodecOf
<1>3. /\ Typed /\ "struct_report" \in Fns /\ SlotOf("struct_report", codec) = "entries" /\ TlsTyped
      /\ (asked = Probed) \in BOOLEAN /\ "entries" \notin Slots
    BY CodecsAssumption DEF Live, Fns, Slots, SlotOf, Typed, TypeOK, TlsTyped, AllCodecs
<1>4. TlsTyped' /\ OthersKeep(t) /\ g_struct_entries'[t] = <<>>
    BY <1>2, <1>3 DEF TlsTyped, OthersKeep
<1> QED
    BY <1>2, <1>3, <1>4, Begins

LEMMA RefusedStep == ASSUME Live, NEW t \in Threads, Refused(t) PROVE Live'
<1>1. PICK fn \in Fns :
        /\ MayEnter(t)
        /\ answers' = [answers EXCEPT ![t] = [fn |-> fn, ok |-> FALSE, error |-> TRUE]]
        /\ nextCall' = nextCall + 1
        /\ UNCHANGED <<tls, calls, heap, reports, nextMirror, faults, taken>>
    BY DEF Refused
<1>2. /\ Typed /\ StacksAreNested /\ (\A u \in Threads : Stashed(u) /\ Listing(u)) /\ ReportsAreWhole
      /\ faults = {} /\ Owned(Owners, heap, nextMirror) /\ NumbersDiffer
    BY DEF Live
<1>3. nextCall \in 1..MaxCalls
    BY <1>1, <1>2, NextTyped DEF MayEnter
<1>4. Typed'
  <2>1. nextCall' \in 1..MaxCalls + 1
      BY <1>1, <1>3, BoundsAssumption
  <2>2. answers' \in [Threads -> [fn : Fns, ok : BOOLEAN, error : BOOLEAN]]
      BY <1>1, <1>2 DEF Typed, TypeOK
  <2>3. UNCHANGED <<g_handlers, g_data_start, g_entries, g_collector_codec, g_struct_entries,
                    calls, reports, nextMirror, faults, taken>>
      BY <1>1 DEF tls
  <2>4. TypeOK'
      BY <1>2, <2>1, <2>2, <2>3 DEF Typed, TypeOK
  <2> QED
      BY <1>2, <2>3, <2>4 DEF Typed
<1>5. StacksAreNested'
  <2>0. \A n \in taken : n < nextCall'
    <3>1. taken \subseteq 1..MaxCalls /\ \A n \in taken : n < nextCall
        BY <1>2 DEF Typed, TypeOK, StacksAreNested
    <3> QED
        BY <1>1, <1>3, <3>1
  <2> SUFFICES ASSUME NEW u \in Threads, NEW i \in DOMAIN calls[u]
               PROVE  calls[u][i].id + i <= nextCall'
      BY <1>1, <1>2, <2>0 DEF StacksAreNested
  <2>1. calls[u][i] \in CallType /\ i \in Nat
    <3>1. calls[u] \in Seq(CallType)
        BY <1>2 DEF Typed
    <3> QED
        BY <3>1
  <2>2. calls[u][i].id \in Nat /\ calls[u][i].id + i <= nextCall
      BY <1>2, <2>1, CallFields DEF StacksAreNested
  <2> QED
      BY <1>1, <1>3, <2>1, <2>2
<1>6. \A u \in Threads : Stashed(u)' /\ Listing(u)'
    BY <1>1, <1>2, Bystander, StillStashed DEF tls
<1>7. NumbersDiffer'
  <2>1. \A r \in reports : r.id \in Nat
      BY <1>2, BoundsAssumption DEF Typed
  <2>2. \A r \in reports : r.id < nextCall'
      BY <1>1, <1>2, <1>3, <2>1 DEF NumbersDiffer
  <2> QED
      BY <1>1, <1>2, <2>2 DEF NumbersDiffer
<1>8. ReportsAreWhole' /\ faults' = {} /\ Owned(Owners, heap, nextMirror)'
    BY <1>1, <1>2 DEF ReportsAreWhole, Owners, CallbackOwners, EntryOwners, ReportOwners, tls
<1> QED
    BY <1>4, <1>5, <1>6, <1>7, <1>8 DEF Live

-----------------------------------------------------------------------------
(* The calls that go on. *)

LEMMA OwnPointers ==
  ASSUME Live, NEW t \in Threads, Open(t)
  PROVE  /\ Top(t).id \in 1..MaxCalls /\ Top(t).id # None
         /\ Top(t).id \notin taken => Served(Top(t))
         /\ Top(t).fn = "report" =>
               LookUp(t) = Top(t).id /\ g_data_start[t] = Top(t).id /\ Top(t).id \notin taken
         /\ (Top(t).fn = "parse" /\ Stands(LookUp(t))) => LookUp(t) = Top(t).id
         /\ (Top(t).fn = "parse" /\ Top(t).id \notin taken) =>
               /\ LookUp(t) = Top(t).id /\ Stands(LookUp(t))
               /\ g_data_start[t] = Top(t).id
         /\ Top(t).fn = "typed" =>
               /\ g_handlers[t][Top(t).codec] \in {None, Top(t).id}
               /\ Top(t).id \notin taken => g_handlers[t][Top(t).codec] = Top(t).id
<1>1. Typed /\ StacksAreNested /\ KeepsPlace(t) /\ LeadsHome(t)
    BY DEF Live, Stashed
<1>2. Top(t) = calls[t][1] /\ 1 \in DOMAIN calls[t] /\ Top(t) \in CallType
    BY <1>1, TopFacts
<1>3. Top(t).id \in 1..MaxCalls /\ Top(t).id # None /\ Top(t).codec \in Codecs
    BY <1>2, CallFields
<1>4. /\ Top(t).id \notin taken => Finds(t, Top(t))
      /\ Top(t).id \in taken => Top(t).fn \in {"parse", "typed"}
    BY <1>1, <1>2 DEF KeepsPlace
<1>5. Stands(Top(t).id)
    BY <1>2 DEF Stands
<1>6. "raw" \in Slots /\ Top(t).codec \in Slots
    BY <1>3 DEF Slots
<1>7. ASSUME NEW slot \in Slots, slot = SlotOf(Top(t).fn, Top(t).codec),
             NEW u \in Threads, NEW i \in DOMAIN calls[u], calls[u][i].id = g_handlers[t][slot]
      PROVE  g_handlers[t][slot] = Top(t).id
  <2>1. u = t /\ SlotOf(calls[t][i].fn, calls[t][i].codec) = slot /\ calls[t][i].id \notin taken
      BY <1>1, <1>7 DEF LeadsHome
  <2>2. i \in Nat \ {0}
    <3>1. calls[t] \in Seq(CallType)
        BY <1>1 DEF Typed
    <3> QED
        BY <1>7, <2>1, <3>1
  <2>3. i = 1
    <3> SUFFICES ASSUME i # 1 PROVE FALSE
        OBVIOUS
    <3>1. 1 < i
        BY <2>2
    <3> QED
        BY <1>1, <1>2, <1>7, <2>1, <3>1 DEF StacksAreNested
  <2> QED
      BY <1>2, <1>7, <2>1, <2>3
<1>8. ASSUME Top(t).fn = "parse", Stands(LookUp(t)) PROVE LookUp(t) = Top(t).id
  <2>1. SlotOf(Top(t).fn, Top(t).codec) = "raw"
      BY <1>8 DEF SlotOf
  <2>2. CASE ThroughAdaptors(Top(t).codec)
      BY <1>6, <1>7, <1>8, <2>1, <2>2 DEF LookUp, Stands
  <2>3. CASE ~ThroughAdaptors(Top(t).codec)
      BY <2>3 DEF LookUp
  <2> QED
      BY <2>2, <2>3
<1>9. ASSUME Top(t).fn = "typed" PROVE g_handlers[t][Top(t).codec] \in {None, Top(t).id}
  <2>1. SlotOf(Top(t).fn, Top(t).codec) = Top(t).codec
      BY <1>9 DEF SlotOf
  <2>2. g_handlers[t][Top(t).codec] # None =>
           \E i \in DOMAIN calls[t] : calls[t][i].id = g_handlers[t][Top(t).codec]
      BY <1>1, <1>3 DEF LeadsHome
  <2> QED
      BY <1>6, <1>7, <2>1, <2>2
<1> QED
    BY <1>3, <1>4, <1>5, <1>8, <1>9 DEF Finds, LookUp

LEMMA Continues ==
  ASSUME Live, NEW t \in Threads, Open(t), NEW c \in CallType, SetTop(t, c),
         c.id = Top(t).id, c.fn = Top(t).fn, c.codec = Top(t).codec, Standing(c),
         c.id \notin taken => Served(c),
         TlsTyped', OthersKeep(t), UNCHANGED <<g_handlers, g_data_start, reports, answers, nextCall, taken>>,
         Listing(t)', faults' = {}, nextMirror' \in Nat \ {0}, Owned(Owners', heap', nextMirror')
  PROVE  Live'
<1>1. Typed /\ StacksAreNested /\ (\A u \in Threads : Stashed(u) /\ Listing(u)) /\ ReportsAreWhole
    BY DEF Live
<1>2. /\ calls' \in [Threads -> Seq(CallType)]
      /\ \A u \in Threads \ {t} : calls'[u] = calls[u]
      /\ StacksAreNested'
    BY <1>1, SetStep
<1>3. NumbersDiffer' /\ \A u \in Threads : Stashed(u)'
    BY SetKeeps
<1>4. Typed'
  <2>1. \A u \in Threads : \A i \in DOMAIN calls'[u] : calls'[u][i] \in CallType
    <3> SUFFICES ASSUME NEW u \in Threads PROVE \A i \in DOMAIN calls'[u] : calls'[u][i] \in CallType
        OBVIOUS
    <3>1. calls'[u] \in Seq(CallType)
        BY <1>2
    <3> QED
        BY <3>1
  <2>2. /\ answers \in [Threads -> [fn : Fns, ok : BOOLEAN, error : BOOLEAN]]
        /\ nextCall \in 1..MaxCalls + 1 /\ taken \subseteq 1..MaxCalls
      BY <1>1 DEF Typed, TypeOK
  <2>3. TypeOK'
      BY <2>1, <2>2 DEF TypeOK, TlsTyped
  <2> QED
      BY <1>1, <1>2, <2>3 DEF Typed, TlsTyped
<1>5. \A u \in Threads \ {t} : Listing(u)'
    BY <1>1, <1>2, Bystander DEF OthersKeep
<1>6. ReportsAreWhole'
    BY <1>1 DEF ReportsAreWhole
<1> QED
    BY <1>2, <1>3, <1>4, <1>5, <1>6 DEF Live

(* In particular one that only moves to another place.                     *)
LEMMA Moves ==
  ASSUME Live, NEW t \in Threads, Open(t), NEW c \in CallType, SetTop(t, c),
         c.id = Top(t).id, c.fn = Top(t).fn, c.codec = Top(t).codec, Standing(c),
         c.id \notin taken => Served(c),
         c.mirror = 0, Top(t).mirror = 0, Top(t).fn \in {"parse", "typed"}, UNCHANGED <<tls, user>>
  PROVE  Live'
<1>1. Typed /\ faults = {} /\ Owned(Owners, heap, nextMirror)
    BY DEF Live
<1>2. UNCHANGED <<g_handlers, g_data_start, g_entries, g_collector_codec, g_struct_entries,
                  heap, reports, answers, nextCall, nextMirror, faults, taken>>
    BY DEF tls, user
<1>3. CallbackOwners' = CallbackOwners /\ Listing(t)'
    BY <1>2, SetKeeps
<1>4. Owners' = Owners
    BY <1>2, <1>3 DEF Owners, EntryOwners, ReportOwners
<1>5. TlsTyped' /\ OthersKeep(t) /\ nextMirror' \in Nat \ {0} /\ faults' = {}
    BY <1>1, <1>2 DEF TlsTyped, OthersKeep, Typed, TypeOK
<1>6. Owned(Owners', heap', nextMirror')
    BY <1>1, <1>2, <1>4
<1> QED
    BY <1>2, <1>3, <1>5, <1>6, Continues

(* A unit that finds no callback set, or gets nowhere: the call has lost   *)
(* its place.                                                              *)
LEMMA Misses ==
  ASSUME Live, NEW t \in Threads, Between(t), Top(t).fn \in {"parse", "typed"}, Top(t).count < MaxUnits,
         Top(t).id \in taken, UNCHANGED <<tls, user>>,
         SetTop(t, [Top(t) EXCEPT !.count = @ + 1, !.missed = TRUE])
  PROVE  Live'
<1> DEFINE c == [Top(t) EXCEPT !.count = @ + 1, !.missed = TRUE]
<1>1. Open(t) /\ Top(t).at = "between"
    BY DEF Between, At
<1>2. Top(t) \in CallType /\ Standing(Top(t))
    BY TopFacts, <1>1 DEF Live
<1>3. Top(t).count + 1 \in 0..MaxUnits
    BY <1>2, CallFields, BoundsAssumption
<1>4. c \in CallType
    BY <1>2, <1>3, CallUpdated
<1>5. /\ c.id = Top(t).id /\ c.fn = Top(t).fn /\ c.codec = Top(t).codec /\ c.at = "between"
      /\ c.mirror = Top(t).mirror
    BY <1>1, <1>2 DEF CallType
<1>6. Top(t).mirror = 0 /\ Standing(c)
    BY <1>1, <1>2, <1>5 DEF Standing
<1>7. SetTop(t, c)
    OBVIOUS
<1> HIDE DEF c
<1> QED
    BY <1>1, <1>4, <1>5, <1>6, <1>7, Moves

LEMMA FaultStep ==
  ASSUME Live, NEW t \in Threads, Open(t), Top(t).id \in taken,
         NEW fault \in {"null", "dangling"}, Faults(fault)
  PROVE  IInv'
<1>1. /\ Typed /\ StacksAreNested /\ (\A u \in Threads : Stashed(u) /\ Listing(u)) /\ ReportsAreWhole
      /\ faults = {} /\ Owned(Owners, heap, nextMirror) /\ NumbersDiffer
    BY DEF Live
<1>2. /\ faults' = {fault}
      /\ UNCHANGED <<g_handlers, g_data_start, g_entries, g_collector_codec, g_struct_entries,
                     calls, heap, reports, answers, nextCall, nextMirror, taken>>
    BY <1>1 DEF Faults, tls
<1>3. Typed'
  <2>1. TypeOK'
      BY <1>1, <1>2 DEF Typed, TypeOK
  <2> QED
      BY <1>1, <1>2, <2>1 DEF Typed
<1>4. StacksAreNested' /\ NumbersDiffer' /\ ReportsAreWhole'
    BY <1>1, <1>2 DEF StacksAreNested, NumbersDiffer, ReportsAreWhole
<1>5. \A u \in Threads : Stashed(u)' /\ Listing(u)'
    BY <1>1, <1>2, Bystander, StillStashed
<1>6. Owned(Owners, heap, nextMirror)'
    BY <1>1, <1>2 DEF Owners, CallbackOwners, EntryOwners, ReportOwners
<1>7. (Open(t) /\ Top(t).id \in taken)'
    BY <1>2 DEF Open, Top
<1> QED
    BY <1>2, <1>3, <1>4, <1>5, <1>6, <1>7 DEF IInv, Consistent

LEMMA LiveStays == Live' => IInv'
BY DEF Live, IInv, Consistent

LEMMA EmitNalStep == ASSUME Live, NEW t \in Threads, EmitNal(t) PROVE IInv'
<1> DEFINE c == [Top(t) EXCEPT !.count = @ + 1, !.at = "nal", !.to = Top(t).id, !.base = g_data_start[t]]
<1>1. /\ Between(t) /\ Open(t) /\ Top(t).at = "between" /\ Top(t).fn = "parse" /\ Top(t).count < MaxUnits
    BY DEF EmitNal, MoreUnits, Between, At
<1>2. /\ Top(t).id \in 1..MaxCalls /\ Top(t).id # None
      /\ Top(t).id \notin taken => Served(Top(t)) /\ g_data_start[t] = Top(t).id
      /\ Stands(LookUp(t)) => LookUp(t) = Top(t).id
      /\ (LookUp(t) = None \/ ~Stands(LookUp(t))) => Top(t).id \in taken
    BY <1>1, OwnPointers
<1>3. Typed /\ Top(t) \in CallType /\ Standing(Top(t))
    BY TopFacts, <1>1 DEF Live
<1>4. CASE LookUp(t) = None /\ SetTop(t, [Top(t) EXCEPT !.count = @ + 1, !.missed = TRUE])
           /\ UNCHANGED <<tls, user>>
    BY <1>1, <1>2, <1>4, Misses, LiveStays
<1>5. CASE ~Stands(LookUp(t)) /\ Faults("dangling")
    BY <1>1, <1>2, <1>5, FaultStep
<1>6. CASE Stands(LookUp(t)) /\ UNCHANGED <<tls, user>>
           /\ SetTop(t, [Top(t) EXCEPT !.count = @ + 1, !.at = "nal", !.to = LookUp(t),
                                       !.base = g_data_start[t]])
  <2>1. SetTop(t, c)
      BY <1>2, <1>6
  <2>2. Top(t).count + 1 \in 0..MaxUnits
      BY <1>1, <1>3, CallFields, BoundsAssumption
  <2>3. c \in CallType
    <3>1. Top(t).id \in 0..MaxCalls
        BY <1>2, BoundsAssumption
    <3>2. g_data_start[t] \in 0..MaxCalls
        BY <1>3 DEF Typed, TypeOK
    <3> QED
        BY <1>3, <2>2, <3>1, <3>2, CallUpdated, "nal" \in Places DEF Places
  <2>4. /\ c.id = Top(t).id /\ c.fn = Top(t).fn /\ c.codec = Top(t).codec /\ c.at = "nal" /\ c.to = c.id
        /\ c.base = g_data_start[t] /\ c.mirror = Top(t).mirror /\ c.missed = Top(t).missed
        /\ c.kind = Top(t).kind
      BY <1>3 DEF CallType
  <2>5. Top(t).mirror = 0 /\ Standing(c)
      BY <1>1, <1>3, <2>4 DEF Standing
  <2>6. c.id \notin taken => Served(c)
      BY <1>2, <2>4 DEF Served
  <2> HIDE DEF c
  <2> QED
      BY <1>1, <1>6, <2>1, <2>3, <2>4, <2>5, <2>6, Moves, LiveStays
<1> QED
    BY <1>4, <1>5, <1>6 DEF EmitNal

LEMMA EmitSlotStep == ASSUME Live, NEW t \in Threads, EmitSlot(t) PROVE IInv'
<1> DEFINE c == [Top(t) EXCEPT !.at = "slot", !.to = Top(t).id, !.base = SlotBase(t)]
<1>1. Open(t) /\ Top(t).at = "nal"
    BY DEF EmitSlot, At
<1>2. Typed /\ Top(t) \in CallType /\ Standing(Top(t)) /\ Top(t).fn = "parse" /\ Top(t).mirror = 0
    BY TopFacts, <1>1 DEF Live, Standing
<1>3. /\ Top(t).id \in 1..MaxCalls /\ Top(t).id # None
      /\ Top(t).id \notin taken => Served(Top(t)) /\ g_data_start[t] = Top(t).id
      /\ Stands(LookUp(t)) => LookUp(t) = Top(t).id
      /\ (LookUp(t) = None \/ ~Stands(LookUp(t))) => Top(t).id \in taken
    BY <1>1, <1>2, OwnPointers
<1>4. CASE LookUp(t) = None /\ Faults("null")
    BY <1>1, <1>3, <1>4, FaultStep
<1>5. CASE ~Stands(LookUp(t)) /\ Faults("dangling")
    BY <1>1, <1>3, <1>5, FaultStep
<1>6. CASE Stands(LookUp(t)) /\ UNCHANGED <<tls, user>>
           /\ SetTop(t, [Top(t) EXCEPT !.at = "slot", !.to = LookUp(t), !.base = SlotBase(t)])
  <2>1. SetTop(t, c)
      BY <1>3, <1>6
  <2>2. SlotBase(t) \in 0..MaxCalls
    <3>1. Top(t).base \in 0..MaxCalls /\ g_data_start[t] \in 0..MaxCalls
        BY <1>2 DEF CallType, Typed, TypeOK
    <3> QED
        BY <3>1 DEF SlotBase
  <2>3. c \in CallType
    <3>1. Top(t).id \in 0..MaxCalls
        BY <1>3, BoundsAssumption
    <3> QED
        BY <1>2, <2>2, <3>1, CallUpdated, "slot" \in Places DEF Places
  <2>4. /\ c.id = Top(t).id /\ c.fn = Top(t).fn /\ c.codec = Top(t).codec /\ c.at = "slot" /\ c.to = c.id
        /\ c.base = SlotBase(t) /\ c.mirror = Top(t).mirror /\ c.missed = Top(t).missed
      BY <1>2 DEF CallType
  <2>5. Standing(c)
      BY <1>2, <2>4 DEF Standing
  <2>6. c.id \notin taken => Served(c)
      BY <1>1, <1>3, <2>4 DEF Served, SlotBase
  <2> HIDE DEF c
  <2> QED
      BY <1>1, <1>2, <1>6, <2>1, <2>3, <2>4, <2>5, <2>6, Moves, LiveStays
<1> QED
    BY <1>4, <1>5, <1>6 DEF EmitSlot

LEMMA SlotReturnsStep == ASSUME Live, NEW t \in Threads, SlotReturns(t) PROVE Live'
<1> DEFINE c == [Top(t) EXCEPT !.at = "between", !.to = None, !.base = None]
<1>1. Open(t) /\ Top(t).at = "slot" /\ SetTop(t, c) /\ UNCHANGED <<tls, user>>
    BY DEF SlotReturns, At
<1>2. Top(t) \in CallType /\ Standing(Top(t)) /\ Top(t).fn = "parse" /\ Top(t).mirror = 0
    BY TopFacts, <1>1 DEF Live, Standing
<1>3. c \in CallType
  <2>1. None \in 0..MaxCalls
      BY BoundsAssumption
  <2> QED
      BY <1>2, <2>1, CallUpdated, "between" \in Places DEF Places
<1>4. /\ c.id = Top(t).id /\ c.fn = Top(t).fn /\ c.codec = Top(t).codec /\ c.at = "between"
      /\ c.mirror = Top(t).mirror /\ c.missed = Top(t).missed
    BY <1>2 DEF CallType
<1>5. Standing(c) /\ (c.id \notin taken => Served(c))
    BY <1>1, <1>2, <1>4, OwnPointers DEF Standing, Served
<1> HIDE DEF c
<1> QED
    BY <1>1, <1>2, <1>3, <1>4, <1>5, Moves

LEMMA DeliverSeiStep == ASSUME Live, NEW t \in Threads, DeliverSei(t) PROVE Live'
<1> DEFINE c == [Top(t) EXCEPT !.count = @ + 1, !.at = "typed", !.to = Top(t).id, !.kind = "sei"]
           h == g_handlers[t][Top(t).codec]
<1>1. /\ Between(t) /\ Open(t) /\ Top(t).at = "between" /\ Top(t).fn = "typed" /\ Top(t).count < MaxUnits
      /\ UNCHANGED <<tls, user>>
    BY DEF DeliverSei, MoreUnits, Between, At
<1>2. /\ Top(t).id \in 1..MaxCalls /\ Top(t).id # None /\ h \in {None, Top(t).id}
      /\ Top(t).id \notin taken => Served(Top(t)) /\ h # None
    BY <1>1, OwnPointers
<1>3. CASE h = None
  <2>1. SetTop(t, [Top(t) EXCEPT !.count = @ + 1, !.missed = TRUE])
      BY <1>3 DEF DeliverSei
  <2> QED
      BY <1>1, <1>2, <1>3, <2>1, Misses
<1>4. CASE h = Top(t).id
  <2>1. SetTop(t, c)
      BY <1>2, <1>4 DEF DeliverSei
  <2>2. Top(t) \in CallType /\ Standing(Top(t))
      BY TopFacts, <1>1 DEF Live
  <2>3. Top(t).count + 1 \in 0..MaxUnits
      BY <1>1, <2>2, CallFields, BoundsAssumption
  <2>4. c \in CallType
    <3>1. Top(t).id \in 0..MaxCalls /\ "sei" \in Kinds
        BY <1>2, BoundsAssumption DEF Kinds
    <3> QED
        BY <2>2, <2>3, <3>1, CallUpdated, "typed" \in Places DEF Places
  <2>5. /\ c.id = Top(t).id /\ c.fn = Top(t).fn /\ c.codec = Top(t).codec /\ c.at = "typed" /\ c.to = c.id
        /\ c.mirror = Top(t).mirror /\ c.missed = Top(t).missed /\ c.kind = "sei"
      BY <2>2 DEF CallType
  <2>6. Top(t).mirror = 0 /\ Standing(c)
      BY <1>1, <2>2, <2>5 DEF Standing
  <2>7. c.id \notin taken => Served(c)
      BY <1>2, <2>5 DEF Served
  <2> HIDE DEF c
  <2> QED
      BY <1>1, <2>1, <2>4, <2>5, <2>6, <2>7, Moves
<1> QED
    BY <1>2, <1>3, <1>4

LEMMA ListsOneMore ==
  ASSUME NEW S, NEW s \in Seq(S), NEW e \in S, NEW c, NEW d, Lists(s, c), c.count \in Nat,
         d.count = c.count + 1, d.id = c.id, d.fn = c.fn, d.codec = c.codec,
         e.call = c.id, e.unit = d.count, c.fn = "report" => e.codec = c.codec /\ e.base = c.id
  PROVE  Lists(Append(s, e), d)
<1>1. Len(s) = c.count /\ DOMAIN s = 1..Len(s)
    BY DEF Lists
<1>2. /\ Len(Append(s, e)) = d.count
      /\ DOMAIN Append(s, e) = 1..d.count
      /\ Append(s, e)[d.count] = e
      /\ \A i \in 1..d.count : i # d.count => i \in DOMAIN s /\ Append(s, e)[i] = s[i]
    BY <1>1
<1> QED
    BY <1>2 DEF Lists

LEMMA CollectStep == ASSUME Live, NEW t \in Threads, Collect(t) PROVE Live'
<1> DEFINE c == [Top(t) EXCEPT !.count = @ + 1]
           e == [call |-> c.id, unit |-> c.count, codec |-> g_collector_codec[t], base |-> g_data_start[t]]
<1>1. /\ Open(t) /\ Top(t).at = "between" /\ Top(t).fn = "report" /\ Top(t).count < MaxUnits
      /\ SetTop(t, c)
      /\ UNCHANGED <<g_handlers, g_data_start, g_collector_codec, g_struct_entries, user>>
    BY DEF Collect, MoreUnits, Between, At
<1>2. LookUp(t) # None /\ g_data_start[t] = Top(t).id /\ Top(t).id \in 1..MaxCalls /\ Served(Top(t))
    BY <1>1, OwnPointers
<1>3. g_entries' = [g_entries EXCEPT ![t] = Append(@, e)]
    BY <1>2 DEF Collect
<1>4. Typed /\ Top(t) \in CallType /\ Standing(Top(t)) /\ Listing(t) /\ faults = {}
      /\ Owned(Owners, heap, nextMirror)
    BY TopFacts, <1>1 DEF Live
<1>5. Top(t).count + 1 \in 1..MaxUnits /\ Top(t).count \in Nat /\ Top(t).count + 1 \in 0..MaxUnits
    BY <1>1, <1>4, CallFields, BoundsAssumption
<1>6. c \in CallType
    BY <1>4, <1>5, CallUpdated
<1>7. /\ c.id = Top(t).id /\ c.fn = Top(t).fn /\ c.codec = Top(t).codec /\ c.at = "between"
      /\ c.mirror = Top(t).mirror /\ c.missed = Top(t).missed /\ c.count = Top(t).count + 1
    BY <1>1, <1>4 DEF CallType
<1>8. Top(t).mirror = 0 /\ Standing(c) /\ Served(c)
    BY <1>1, <1>2, <1>4, <1>7 DEF Standing, Served
<1>9. g_collector_codec[t] = Top(t).codec /\ Lists(g_entries[t], Top(t)) /\ g_struct_entries[t] = <<>>
    BY <1>1, <1>4 DEF Listing
<1> HIDE DEF c
<1>10. e \in ListedUnit /\ e.call = c.id /\ e.unit = c.count /\ e.codec = c.codec /\ e.base = c.id
  <2>1. Top(t).id \in 0..MaxCalls /\ Top(t).codec \in Codecs
      BY <1>2, <1>4, CallFields, BoundsAssumption
  <2> QED
      BY <1>2, <1>5, <1>7, <1>9, <2>1 DEF ListedUnit
<1> HIDE DEF e
<1>11. g_entries[t] \in Seq(ListedUnit) /\ Append(g_entries[t], e) \in Seq(ListedUnit)
    BY <1>4, <1>10 DEF Typed
<1>12. g_entries'[t] = Append(g_entries[t], e) /\ \A u \in Threads \ {t} : g_entries'[u] = g_entries[u]
    BY <1>3, <1>4 DEF Typed
<1>13. TlsTyped' /\ OthersKeep(t)
    BY <1>1, <1>3, <1>4, <1>11, <1>12 DEF TlsTyped, OthersKeep, Typed, TypeOK
<1>14. Lists(g_entries'[t], c)
    BY <1>5, <1>7, <1>9, <1>10, <1>11, <1>12, ListsOneMore
<1>15. Open(t)' /\ Top(t)' = c
    BY <1>1, <1>4, <1>6, <1>7, <1>8, SetStep DEF Live, Open, Top, user
<1>16. Listing(t)'
    BY <1>1, <1>7, <1>9, <1>14, <1>15 DEF Listing
<1>17. CallbackOwners' = CallbackOwners
    BY <1>1, <1>6, <1>7, <1>8, SetKeeps DEF user
<1>18. Owners' = Owners
    BY <1>1, <1>17 DEF Owners, EntryOwners, ReportOwners, user
<1>19. /\ UNCHANGED <<g_handlers, g_data_start, reports, answers, nextCall, taken>>
       /\ faults' = {} /\ nextMirror' \in Nat \ {0} /\ Owned(Owners', heap', nextMirror')
    BY <1>1, <1>4, <1>18 DEF user, Typed, TypeOK
<1> QED
    BY <1>1, <1>6, <1>7, <1>8, <1>13, <1>16, <1>19, Continues

LEMMA CollectStructStep == ASSUME Live, NEW t \in Threads, CollectStruct(t) PROVE Live'
<1> DEFINE c == [Top(t) EXCEPT !.count = @ + 1]
<1>1. /\ Open(t) /\ Top(t).at = "between" /\ Top(t).fn = "struct_report" /\ Top(t).count < MaxUnits
      /\ SetTop(t, c) /\ nextMirror' = nextMirror + 1
      /\ UNCHANGED <<g_handlers, g_data_start, g_entries, g_collector_codec, reports, answers, nextCall,
                     faults, taken>>
    BY DEF CollectStruct, MoreUnits, Between, At
<1>2. PICK k \in DOMAIN ReportMirrors[c.codec] :
       /\ g_struct_entries' = [g_struct_entries EXCEPT ![t] =
            Append(@, [call |-> c.id, unit |-> c.count, mirror |-> nextMirror,
                       struct |-> ReportMirrors[c.codec][k]])]
       /\ heap' = heap \cup Blocks(nextMirror, ReportMirrors[c.codec][k])
    BY DEF CollectStruct
<1> DEFINE e == [call |-> c.id, unit |-> c.count, mirror |-> nextMirror,
                 struct |-> ReportMirrors[c.codec][k]]
<1>3. Typed /\ Top(t) \in CallType /\ Standing(Top(t)) /\ Listing(t) /\ faults = {}
      /\ Owned(Owners, heap, nextMirror) /\ nextMirror \in Nat \ {0}
    BY TopFacts, <1>1 DEF Live, Typed, TypeOK
<1>4. Top(t).count + 1 \in 0..MaxUnits /\ Top(t).count \in Nat /\ Top(t).codec \in Codecs
      /\ Top(t).id \in 1..MaxCalls
    BY <1>1, <1>3, CallFields, BoundsAssumption
<1>5. c \in CallType
    BY <1>3, <1>4, CallUpdated
<1>6. /\ c.id = Top(t).id /\ c.fn = Top(t).fn /\ c.codec = Top(t).codec /\ c.at = "between"
      /\ c.mirror = Top(t).mirror /\ c.missed = Top(t).missed /\ c.count = Top(t).count + 1
    BY <1>1, <1>3 DEF CallType
<1>7. Top(t).mirror = 0 /\ Standing(c) /\ (c.id \notin taken => Served(c))
    BY <1>1, <1>3, <1>6, OwnPointers DEF Standing, Served
<1>8. Lists(g_struct_entries[t], Top(t))
    BY <1>1, <1>3 DEF Listing
<1> HIDE DEF c
<1>9. ReportMirrors[c.codec][k] \in Structs
    BY <1>2, <1>4, <1>6, ReportStructs DEF Structs
<1>10. e \in ListedMirror /\ e.call = c.id /\ e.unit = c.count /\ e.mirror = nextMirror
       /\ e.struct = ReportMirrors[c.codec][k]
    BY <1>3, <1>4, <1>6, <1>9 DEF ListedMirror
<1>11. g_struct_entries' = [g_struct_entries EXCEPT ![t] = Append(@, e)]
       /\ heap' = heap \cup Blocks(nextMirror, e.struct)
    BY <1>2
<1> HIDE DEF e
<1>12. g_struct_entries[t] \in Seq(ListedMirror) /\ Append(g_struct_entries[t], e) \in Seq(ListedMirror)
    BY <1>3, <1>10 DEF Typed
<1>13. /\ g_struct_entries'[t] = Append(g_struct_entries[t], e)
       /\ \A u \in Threads \ {t} : g_struct_entries'[u] = g_struct_entries[u]
    BY <1>3, <1>11 DEF Typed
<1>14. TlsTyped' /\ OthersKeep(t)
    BY <1>1, <1>3, <1>11, <1>12, <1>13 DEF TlsTyped, OthersKeep, Typed, TypeOK
<1>15. Lists(g_struct_entries'[t], c)
    BY <1>1, <1>4, <1>6, <1>8, <1>10, <1>12, <1>13, ListsOneMore
<1>16. Open(t)' /\ Top(t)' = c
    BY <1>1, <1>3, <1>5, <1>6, <1>7, SetStep DEF Live, Open, Top
<1>17. Listing(t)'
    BY <1>1, <1>6, <1>15, <1>16 DEF Listing
<1>18. CallbackOwners' = CallbackOwners
    BY <1>1, <1>5, <1>6, <1>7, SetKeeps
<1>19. EntryOwners' = EntryOwners \cup {e}
  <2>1. Elements(g_struct_entries'[t]) = Elements(g_struct_entries[t]) \cup {e}
      BY <1>10, <1>12, <1>13 DEF Elements
  <2> QED
      BY <1>13, <2>1 DEF EntryOwners
<1>20. Owners' = Owners \cup {e}
    BY <1>1, <1>18, <1>19 DEF Owners, ReportOwners
<1>21. \A p \in Owners : p.mirror \in Nat
    BY OwnersTyped DEF Live
<1>22. Owned(Owners', heap', nextMirror')
    BY <1>1, <1>3, <1>10, <1>11, <1>20, <1>21, Allocates
<1>23. faults' = {} /\ nextMirror' \in Nat \ {0}
    BY <1>1, <1>3
<1> QED
    BY <1>1, <1>5, <1>6, <1>7, <1>14, <1>17, <1>22, <1>23, Continues

LEMMA DeliverTypedStep == ASSUME Live, NEW t \in Threads, DeliverTyped(t) PROVE Live'
<1> DEFINE h == g_handlers[t][Top(t).codec]
<1>1. /\ Between(t) /\ Open(t) /\ Top(t).at = "between" /\ Top(t).fn = "typed" /\ Top(t).count < MaxUnits
      /\ UNCHANGED <<tls, reports, answers, nextCall, faults, taken>>
    BY DEF DeliverTyped, MoreUnits, Between, At
<1>2. /\ Top(t).id \in 1..MaxCalls /\ Top(t).id # None /\ h \in {None, Top(t).id}
      /\ Top(t).id \notin taken => Served(Top(t)) /\ h # None
    BY <1>1, OwnPointers
<1>3. Typed /\ Top(t) \in CallType /\ Standing(Top(t)) /\ faults = {}
      /\ Owned(Owners, heap, nextMirror) /\ nextMirror \in Nat \ {0}
    BY TopFacts, <1>1 DEF Live, Typed, TypeOK
<1>4. Top(t).count + 1 \in 0..MaxUnits /\ Top(t).codec \in Codecs
    BY <1>1, <1>3, CallFields, BoundsAssumption
<1>5. [Top(t) EXCEPT !.count = @ + 1].codec = Top(t).codec
    BY <1>3 DEF CallType
<1>6. CASE h = None
  <2>1. SetTop(t, [Top(t) EXCEPT !.count = @ + 1, !.missed = TRUE]) /\ UNCHANGED <<heap, nextMirror>>
      BY <1>6 DEF DeliverTyped
  <2>2. UNCHANGED <<tls, user>>
      BY <1>1, <2>1 DEF user
  <2> QED
      BY <1>1, <1>2, <1>6, <2>1, <2>2, Misses
<1>7. ASSUME NEW k \in DOMAIN TypedMirrors[Top(t).codec],
             SetTop(t, [Top(t) EXCEPT !.count = @ + 1, !.at = "typed", !.to = Top(t).id, !.kind = k,
                                      !.mirror = nextMirror]),
             heap' = heap \cup Blocks(nextMirror, TypedMirrors[Top(t).codec][k]),
             nextMirror' = nextMirror + 1
      PROVE  Live'
  <2> DEFINE c == [Top(t) EXCEPT !.count = @ + 1, !.at = "typed", !.to = Top(t).id, !.kind = k,
                                 !.mirror = nextMirror]
  <2>1. c \in CallType
    <3>1. Top(t).id \in 0..MaxCalls
        BY <1>2, BoundsAssumption
    <3>2. k \in Kinds
        BY <1>4, <1>7 DEF Kinds
    <3> QED
        BY <1>3, <1>4, <3>1, <3>2, CallUpdated, "typed" \in Places DEF Places
  <2>2. /\ c.id = Top(t).id /\ c.fn = Top(t).fn /\ c.codec = Top(t).codec /\ c.at = "typed" /\ c.to = c.id
        /\ c.mirror = nextMirror /\ c.missed = Top(t).missed /\ c.kind = k
      BY <1>3 DEF CallType
  <2>3. k # "sei"
    <3>1. Top(t).codec \in AllCodecs
        BY <1>4, CodecsAssumption
    <3> QED
        BY <1>7, <3>1 DEF TypedMirrors, AllCodecs
  <2>4. Top(t).mirror = 0 /\ Standing(c) /\ (c.id \notin taken => Served(c))
      BY <1>1, <1>2, <1>3, <1>7, <2>2, <2>3 DEF Standing, Served
  <2>5. SetTop(t, c)
      BY <1>7
  <2> HIDE DEF c
  <2>6. CallbackOwners' = CallbackOwners \cup {InCallback(c)} /\ Listing(t)'
      BY <1>1, <1>3, <2>1, <2>2, <2>4, <2>5, SetKeeps DEF tls
  <2>7. InCallback(c).mirror = nextMirror /\ InCallback(c).struct = TypedMirrors[Top(t).codec][k]
      BY <2>2 DEF InCallback
  <2>8. Owners' = Owners \cup {InCallback(c)}
      BY <1>1, <2>6 DEF Owners, EntryOwners, ReportOwners, tls
  <2>9. \A p \in Owners : p.mirror \in Nat
      BY OwnersTyped DEF Live
  <2>10. Owned(Owners', heap', nextMirror')
      BY <1>3, <1>7, <2>7, <2>8, <2>9, Allocates
  <2>11. TlsTyped' /\ OthersKeep(t) /\ faults' = {} /\ nextMirror' \in Nat \ {0}
      BY <1>1, <1>3, <1>7 DEF TlsTyped, OthersKeep, Typed, TypeOK, tls
  <2>12. UNCHANGED <<g_handlers, g_data_start, reports, answers, nextCall, taken>>
      BY <1>1 DEF tls
  <2> QED
      BY <1>1, <2>1, <2>2, <2>4, <2>5, <2>6, <2>10, <2>11, <2>12, Continues
<1>8. CASE h = Top(t).id
  <2>1. PICK k \in DOMAIN TypedMirrors[Top(t).codec] :
          /\ SetTop(t, [Top(t) EXCEPT !.count = @ + 1, !.at = "typed", !.to = Top(t).id, !.kind = k,
                                      !.mirror = nextMirror])
          /\ heap' = heap \cup Blocks(nextMirror, TypedMirrors[Top(t).codec][k])
          /\ nextMirror' = nextMirror + 1
      BY <1>2, <1>5, <1>8 DEF DeliverTyped
  <2> QED
      BY <1>7, <2>1
<1> QED
    BY <1>2, <1>6, <1>8

LEMMA TypedReturnsStep == ASSUME Live, NEW t \in Threads, TypedReturns(t) PROVE Live'
<1> DEFINE c    == [Top(t) EXCEPT !.at = "between", !.to = None, !.kind = "", !.mirror = 0]
           gone == IF Top(t).kind = "sei" THEN {}
                   ELSE Deleted(Top(t).mirror, TypedMirrors[Top(t).codec][Top(t).kind])
<1>1. /\ Open(t) /\ Top(t).at = "typed" /\ SetTop(t, c)
      /\ heap' = heap \ gone
      /\ faults' = IF gone \subseteq heap THEN faults ELSE faults \cup {"freed twice"}
      /\ UNCHANGED <<tls, reports, answers, nextCall, nextMirror, taken>>
    BY DEF TypedReturns, At
<1>2. Typed /\ Top(t) \in CallType /\ Standing(Top(t)) /\ faults = {}
      /\ Owned(Owners, heap, nextMirror) /\ nextMirror \in Nat \ {0}
    BY TopFacts, <1>1 DEF Live, Typed, TypeOK
<1>3. c \in CallType
  <2>1. None \in 0..MaxCalls /\ "" \in Kinds
      BY BoundsAssumption DEF Kinds
  <2> QED
      BY <1>2, <2>1, CallUpdated, "between" \in Places DEF Places
<1>4. /\ c.id = Top(t).id /\ c.fn = Top(t).fn /\ c.codec = Top(t).codec /\ c.at = "between"
      /\ c.mirror = 0 /\ c.missed = Top(t).missed
    BY <1>2 DEF CallType
<1>5. /\ Standing(c) /\ Top(t).fn = "typed" /\ (Top(t).mirror # 0 <=> Top(t).kind # "sei")
      /\ c.id \notin taken => Served(c)
    BY <1>1, <1>2, <1>4, OwnPointers DEF Standing, Served
<1> HIDE DEF c
<1>6. UNCHANGED <<g_handlers, g_data_start, reports, answers, nextCall, taken>>
      /\ UNCHANGED <<g_collector_codec, g_entries, g_struct_entries>>
    BY <1>1 DEF tls
<1>7. Listing(t)'
    BY <1>1, <1>3, <1>4, <1>5, <1>6, SetKeeps
<1>8. TlsTyped' /\ OthersKeep(t) /\ nextMirror' \in Nat \ {0}
    BY <1>1, <1>2, <1>6 DEF TlsTyped, OthersKeep, Typed, TypeOK
<1>9. gone \subseteq heap /\ Owned(Owners', heap', nextMirror')
  <2>1. CASE Top(t).kind = "sei"
    <3>1. CallbackOwners' = CallbackOwners
        BY <1>1, <1>3, <1>4, <1>5, <1>6, <2>1, SetKeeps
    <3>2. Owners' = Owners
        BY <1>6, <3>1 DEF Owners, EntryOwners, ReportOwners
    <3>3. gone = {} /\ heap' = heap
        BY <1>1, <2>1
    <3> QED
        BY <1>1, <1>2, <3>2, <3>3
  <2>2. CASE Top(t).kind # "sei"
    <3> DEFINE o == InCallback(Top(t))
    <3>1. o \in CallbackOwners /\ CallbackOwners' = CallbackOwners \ {o}
        BY <1>1, <1>3, <1>4, <1>5, <1>6, <2>2, SetKeeps
    <3>2. gone = UNION {Deleted(x.mirror, x.struct) : x \in {o}}
        BY <2>2 DEF InCallback
    <3>3. o.unit = 0
        BY DEF InCallback
    <3> HIDE DEF o, gone
    <3>4. o \notin EntryOwners /\ o \notin ReportOwners
        BY <3>3, Provenance DEF EntryOwners, ReportOwners
    <3>5. Owners' = Owners \ {o} /\ {o} \in SUBSET Owners
        BY <1>6, <3>1, <3>4 DEF Owners, EntryOwners, ReportOwners
    <3>6. \A p \in Owners : p.struct \in Structs
        BY OwnersTyped DEF Live
    <3>7. gone \subseteq heap /\ Owned(Owners \ {o}, heap \ gone, nextMirror)
        BY <1>2, <3>2, <3>5, <3>6, Frees
    <3>8. heap' = heap \ gone
        BY <1>1 DEF gone
    <3> QED
        BY <1>1, <3>5, <3>7, <3>8
  <2> QED
      BY <2>1, <2>2
<1>10. faults' = {}
    BY <1>1, <1>2, <1>9
<1> QED
    BY <1>1, <1>3, <1>4, <1>5, <1>6, <1>7, <1>8, <1>9, <1>10, Continues

-----------------------------------------------------------------------------
(* The calls that end, and the reports destroyed.                          *)

ReportsTyped ==
  reports \subseteq [id : 1..MaxCalls, fn : {"report"}, codec : Codecs, count : 0..MaxUnits,
                     entries : Seq(ListedUnit)]
             \cup [id : 1..MaxCalls, fn : {"struct_report"}, codec : Codecs, count : 0..MaxUnits,
                   entries : Seq(ListedMirror)]

(* The calls around the one that ends keep their places, but those whose   *)
(* place it had taken.                                                     *)
LEMMA EndStashes ==
  ASSUME Live, NEW t \in Threads, Between(t), NEW ok, NEW error, Leave(t, ok, error), OthersKeep(t),
         \A s \in Slots : g_handlers'[t][s] \in {g_handlers[t][s], None},
         \A s \in Slots : s # SlotOf(Top(t).fn, Top(t).codec) => g_handlers'[t][s] = g_handlers[t][s],
         Top(t).fn = "typed" => g_handlers'[t][Top(t).codec] = None,
         SlotOf(Top(t).fn, Top(t).codec) # "raw" => g_data_start'[t] = g_data_start[t]
  PROVE  \A u \in Threads : Stashed(u)'
<1>1. Typed /\ StacksAreNested /\ Open(t) /\ \A u \in Threads : KeepsPlace(u) /\ LeadsHome(u)
    BY DEF Live, Between, At, Stashed
<1>2. /\ calls' \in [Threads -> Seq(CallType)]
      /\ nextCall' = nextCall /\ taken' = taken
      /\ \A u \in Threads \ {t} : calls'[u] = calls[u]
      /\ \A i \in DOMAIN calls'[t] : i + 1 \in DOMAIN calls[t] /\ calls'[t][i] = calls[t][i + 1]
      /\ \A i \in DOMAIN calls[t] : i # 1 => i - 1 \in DOMAIN calls'[t] /\ calls[t][i] = calls'[t][i - 1]
    BY <1>1, LeaveStep
<1>3. \A i \in DOMAIN calls'[t] :
        /\ calls'[t][i].fn \in {"parse", "typed"}
        /\ SlotOf(Top(t).fn, Top(t).codec) = SlotOf(calls'[t][i].fn, calls'[t][i].codec)
             => calls'[t][i].id \in taken
    BY LeaveKeeps
<1>4. Top(t) = calls[t][1] /\ 1 \in DOMAIN calls[t] /\ Top(t) \in CallType
    BY <1>1, TopFacts
<1>5. "raw" \in Slots /\ \A s \in Codecs : s \in Slots /\ s # "raw" /\ s # "entries"
    BY CodecsAssumption DEF Slots, AllCodecs
<1>6. \A v \in Threads : \A i \in DOMAIN calls'[v] : \E j \in DOMAIN calls[v] : calls'[v][i] = calls[v][j]
    BY <1>2
<1>7. \A v \in Threads : \A i \in DOMAIN calls'[v] :
         calls'[v][i].id # None /\ calls'[v][i].codec \in Codecs
  <2> SUFFICES ASSUME NEW v \in Threads, NEW i \in DOMAIN calls'[v]
               PROVE  calls'[v][i].id # None /\ calls'[v][i].codec \in Codecs
      OBVIOUS
  <2>1. calls'[v] \in Seq(CallType)
      BY <1>2
  <2>2. calls'[v][i] \in CallType
      BY <2>1
  <2> QED
      BY <2>2, CallFields
<1>8. ASSUME NEW u \in Threads PROVE KeepsPlace(u)'
  <2> SUFFICES ASSUME NEW i \in DOMAIN calls'[u]
               PROVE  /\ calls'[u][i].id \notin taken => Finds(u, calls[u][i])'
                      /\ calls'[u][i].id \in taken => calls'[u][i].fn \in {"parse", "typed"}
      BY <1>2, Zenon DEF KeepsPlace
  <2>1. PICK j \in DOMAIN calls[u] : calls'[u][i] = calls[u][j]
      BY <1>6
  <2> DEFINE c == calls[u][j]
  <2>2. /\ c.id \notin taken => Finds(u, c)
        /\ c.id \in taken => c.fn \in {"parse", "typed"}
      BY <1>1 DEF KeepsPlace
  <2>3. calls'[u][i] = c
      BY <2>1
  <2> HIDE DEF c
  <2>4. c.codec \in Codecs
      BY <1>7, <2>3
  <2>5. ASSUME c.id \notin taken PROVE Finds(u, calls[u][i])'
    <3>1. Finds(u, c)
        BY <2>2, <2>5
    <3>2. ASSUME c.fn \in {"parse", "report"}
          PROVE  g_handlers'[u].raw = g_handlers[u].raw /\ g_data_start'[u] = g_data_start[u]
      <4>1. SlotOf(c.fn, c.codec) = "raw"
          BY <3>2 DEF SlotOf
      <4>2. u = t => SlotOf(Top(t).fn, Top(t).codec) # "raw"
          BY <1>3, <2>3, <2>5, <4>1
      <4> QED
          BY <1>5, <4>2 DEF OthersKeep
    <3>3. ASSUME c.fn = "typed" PROVE g_handlers'[u][c.codec] = g_handlers[u][c.codec]
      <4>1. SlotOf(c.fn, c.codec) = c.codec
          BY <3>3 DEF SlotOf
      <4>2. u = t => SlotOf(Top(t).fn, Top(t).codec) # c.codec
          BY <1>3, <2>3, <2>5, <4>1
      <4> QED
          BY <1>5, <2>4, <4>2 DEF OthersKeep
    <3> QED
        BY <2>3, <3>1, <3>2, <3>3 DEF Finds
  <2> QED
      BY <2>2, <2>3, <2>5
<1>9. ASSUME NEW u \in Threads, NEW s \in Slots
      PROVE  /\ g_handlers'[u][s] \in {g_handlers[u][s], None}
             /\ g_handlers'[u][s] < nextCall
  <2>1. g_handlers'[u][s] \in {g_handlers[u][s], None}
      BY DEF OthersKeep
  <2>2. g_handlers[u][s] < nextCall /\ None < nextCall
    <3>1. nextCall \in 1..MaxCalls + 1
        BY <1>1, NextTyped
    <3> QED
        BY <1>1, <3>1, BoundsAssumption DEF LeadsHome
  <2> QED
      BY <2>1, <2>2
<1>10. ASSUME NEW u \in Threads PROVE LeadsHome(u)'
  <2>1. ASSUME NEW s \in Slots, NEW v \in Threads, NEW i \in DOMAIN calls'[v],
               g_handlers'[u][s] = calls'[v][i].id
        PROVE  v = u /\ SlotOf(calls'[v][i].fn, calls'[v][i].codec) = s /\ calls'[v][i].id \notin taken
    <3>1. PICK j \in DOMAIN calls[v] : calls'[v][i] = calls[v][j]
        BY <1>6
    <3>2. g_handlers[u][s] = calls[v][j].id
        BY <1>7, <1>9, <2>1, <3>1
    <3> QED
        BY <1>1, <3>1, <3>2 DEF LeadsHome
  <2>2. ASSUME NEW s \in Codecs, g_handlers'[u][s] # None
        PROVE  \E i \in DOMAIN calls'[u] : calls'[u][i].id = g_handlers'[u][s]
    <3>1. g_handlers'[u][s] = g_handlers[u][s]
        BY <1>5, <1>9, <2>2
    <3>2. PICK j \in DOMAIN calls[u] : calls[u][j].id = g_handlers[u][s]
        BY <1>1, <2>2, <3>1 DEF LeadsHome
    <3>3. CASE u # t
        BY <1>2, <3>1, <3>2, <3>3
    <3>4. CASE u = t
      <4>1. j # 1
        <5> SUFFICES ASSUME j = 1 PROVE FALSE
            OBVIOUS
        <5>1. SlotOf(Top(t).fn, Top(t).codec) = s
            BY <1>1, <1>4, <1>5, <3>2, <3>4 DEF LeadsHome
        <5>2. Top(t).fn = "typed" /\ Top(t).codec = s
            BY <1>4, <1>5, <5>1, CallFields DEF SlotOf, Fns
        <5> QED
            BY <2>2, <3>4, <5>2
      <4> QED
          BY <1>2, <3>1, <3>2, <3>4, <4>1
    <3> QED
        BY <3>3, <3>4
  <2> QED
      BY <1>2, <1>9, <2>1, <2>2, Zenon DEF LeadsHome
<1> QED
    BY <1>8, <1>10 DEF Stashed

LEMMA Ends ==
  ASSUME Live, NEW t \in Threads, Between(t), NEW ok \in BOOLEAN, NEW error \in BOOLEAN, Leave(t, ok, error),
         TlsTyped', OthersKeep(t),
         \A s \in Slots : g_handlers'[t][s] \in {g_handlers[t][s], None},
         \A s \in Slots : s # SlotOf(Top(t).fn, Top(t).codec) => g_handlers'[t][s] = g_handlers[t][s],
         Top(t).fn = "typed" => g_handlers'[t][Top(t).codec] = None,
         SlotOf(Top(t).fn, Top(t).codec) # "raw" => g_data_start'[t] = g_data_start[t],
         g_struct_entries'[t] = <<>>,
         NumbersDiffer', ReportsTyped', ReportsAreWhole', faults' = {}, Owned(Owners', heap', nextMirror')
  PROVE  Live'
<1>1. Typed /\ StacksAreNested /\ Open(t) /\ (\A u \in Threads : Listing(u))
    BY DEF Live, Between, At
<1>2. /\ calls' \in [Threads -> Seq(CallType)]
      /\ nextCall' = nextCall /\ taken' = taken
      /\ \A u \in Threads \ {t} : calls'[u] = calls[u]
      /\ StacksAreNested'
    BY <1>1, LeaveStep
<1>3. /\ \A i \in DOMAIN calls'[t] : calls'[t][i].fn \in {"parse", "typed"}
      /\ Open(t)' => Top(t)' = calls'[t][1] /\ 1 \in DOMAIN calls'[t]
    BY LeaveKeeps
<1>4. Top(t) \in CallType
    BY <1>1, TopFacts
<1>5. \A u \in Threads : Stashed(u)'
    BY EndStashes
<1>6. Listing(t)'
    BY <1>3 DEF Listing
<1>7. \A u \in Threads \ {t} : Listing(u)'
    BY <1>1, <1>2, Bystander DEF OthersKeep
<1>8. Typed'
  <2>1. answers' \in [Threads -> [fn : Fns, ok : BOOLEAN, error : BOOLEAN]]
      BY <1>1, <1>4, CallFields DEF Leave, Typed, TypeOK
  <2>2. nextMirror' = nextMirror
      BY DEF Leave
  <2>3. \A u \in Threads : \A i \in DOMAIN calls'[u] : calls'[u][i] \in CallType
    <3> SUFFICES ASSUME NEW u \in Threads PROVE \A i \in DOMAIN calls'[u] : calls'[u][i] \in CallType
        OBVIOUS
    <3>1. calls'[u] \in Seq(CallType)
        BY <1>2
    <3> QED
        BY <3>1
  <2>4. nextCall \in 1..MaxCalls + 1 /\ nextMirror \in Nat \ {0} /\ taken \subseteq 1..MaxCalls
      BY <1>1 DEF Typed, TypeOK
  <2>5. TypeOK'
      BY <1>2, <2>1, <2>2, <2>3, <2>4 DEF TypeOK, TlsTyped
  <2> QED
      BY <1>2, <2>5 DEF Typed, TlsTyped, ReportsTyped
<1> QED
    BY <1>2, <1>5, <1>6, <1>7, <1>8 DEF Live

LEMMA RawReset ==
  ASSUME TlsTyped, NEW t \in Threads, ResetRaw(t)
  PROVE  /\ g_handlers' \in [Threads -> [Slots -> 0..MaxCalls]] /\ g_data_start' \in [Threads -> 0..MaxCalls]
         /\ \A u \in Threads \ {t} : g_handlers'[u] = g_handlers[u] /\ g_data_start'[u] = g_data_start[u]
         /\ \A s \in Slots : s # "raw" => g_handlers'[t][s] = g_handlers[t][s]
         /\ \A s \in Slots : g_handlers'[t][s] \in {g_handlers[t][s], None}
<1>1. None \in 0..MaxCalls /\ "raw" \in Slots
    BY BoundsAssumption DEF Slots
<1>2. g_handlers' = [g_handlers EXCEPT ![t]["raw"] = None] /\ g_data_start' = [g_data_start EXCEPT ![t] = None]
    BY DEF ResetRaw
<1> QED
    BY <1>1, <1>2, SlotsAssigned DEF TlsTyped

(* A call that leaves reports and heap as they are.                        *)
LEMMA EndsQuietly ==
  ASSUME Live, NEW t \in Threads, Between(t), NEW ok \in BOOLEAN, NEW error \in BOOLEAN, Leave(t, ok, error),
         Top(t).fn # "struct_report",
         TlsTyped', OthersKeep(t),
         \A s \in Slots : g_handlers'[t][s] \in {g_handlers[t][s], None},
         \A s \in Slots : s # SlotOf(Top(t).fn, Top(t).codec) => g_handlers'[t][s] = g_handlers[t][s],
         Top(t).fn = "typed" => g_handlers'[t][Top(t).codec] = None,
         SlotOf(Top(t).fn, Top(t).codec) # "raw" => g_data_start'[t] = g_data_start[t],
         UNCHANGED <<g_struct_entries, heap, reports, faults>>
  PROVE  Live'
<1>1. Typed /\ Listing(t) /\ ReportsAreWhole /\ faults = {} /\ Owned(Owners, heap, nextMirror) /\ Open(t)
    BY DEF Live, Between, At
<1>2. g_struct_entries'[t] = <<>>
    BY <1>1 DEF Listing
<1>3. NumbersDiffer' /\ CallbackOwners' = CallbackOwners
    BY LeaveKeeps
<1>4. Owners' = Owners
    BY <1>3 DEF Owners, EntryOwners, ReportOwners
<1>5. ReportsTyped' /\ ReportsAreWhole' /\ faults' = {} /\ Owned(Owners', heap', nextMirror')
    BY <1>1, <1>4 DEF Typed, ReportsTyped, ReportsAreWhole, Leave
<1> QED
    BY <1>2, <1>3, <1>5, Ends

LEMMA EndFacts ==
  ASSUME Live, NEW t \in Threads, Between(t)
  PROVE  /\ Open(t) /\ TlsTyped /\ Typed /\ Listing(t) /\ Top(t) \in CallType
         /\ Top(t).fn \in Fns /\ Top(t).codec \in Slots
         /\ Top(t).fn \in {"parse", "report"} => SlotOf(Top(t).fn, Top(t).codec) = "raw"
         /\ Top(t).fn = "typed" => /\ SlotOf(Top(t).fn, Top(t).codec) = Top(t).codec
                                   /\ Top(t).codec # "raw"
         /\ Top(t).fn = "struct_report" => SlotOf(Top(t).fn, Top(t).codec) = "entries"
<1>1. Open(t) /\ Typed /\ StacksAreNested /\ Listing(t) /\ TlsTyped
    BY DEF Live, Between, At, Typed, TypeOK, TlsTyped
<1>2. Top(t) \in CallType
    BY <1>1, TopFacts
<1>3. Top(t).fn \in Fns /\ Top(t).codec \in Slots /\ Top(t).codec # "raw"
    BY <1>2, CallFields, CodecsAssumption DEF Slots, AllCodecs
<1> QED
    BY <1>1, <1>2, <1>3 DEF SlotOf, Fns

LEMMA ReturnsStep == ASSUME Live, NEW t \in Threads, NEW error \in BOOLEAN, Returns(t, error) PROVE Live'
<1>1. Between(t) /\ Top(t).fn \in {"parse", "report", "typed", "struct_report"} /\ TlsTyped /\ Typed
      /\ Listing(t) /\ Top(t) \in CallType /\ Top(t).codec \in Slots
    BY EndFacts DEF Returns, Fns
<1>2. TRUE \in BOOLEAN /\ (~error) \in BOOLEAN
    OBVIOUS
<1>3. CASE Top(t).fn = "parse"
  <2>1. Leave(t, ~error, error) /\ ResetRaw(t)
        /\ UNCHANGED <<g_entries, g_struct_entries, heap, reports, faults>>
      BY <1>3 DEF Returns
  <2>2. UNCHANGED g_collector_codec
      BY <2>1 DEF Leave
  <2>3. /\ TlsTyped' /\ OthersKeep(t)
        /\ \A s \in Slots : s # SlotOf(Top(t).fn, Top(t).codec) => g_handlers'[t][s] = g_handlers[t][s]
        /\ \A s \in Slots : g_handlers'[t][s] \in {g_handlers[t][s], None}
      BY <1>1, <1>3, <2>1, <2>2, RawReset, EndFacts DEF TlsTyped, OthersKeep
  <2> QED
      BY <1>1, <1>2, <1>3, <2>1, <2>3, EndFacts, EndsQuietly
<1>4. CASE Top(t).fn = "report"
  <2> DEFINE r == [id |-> Top(t).id, fn |-> Top(t).fn, codec |-> Top(t).codec,
                   count |-> Top(t).count, entries |-> g_entries[t]]
  <2>1. Leave(t, TRUE, error) /\ ResetRaw(t) /\ reports' = reports \cup {r}
        /\ UNCHANGED <<g_entries, g_struct_entries, heap, faults>>
      BY <1>4 DEF Returns
  <2>2. UNCHANGED <<g_collector_codec, nextMirror>>
      BY <2>1 DEF Leave
  <2>3. /\ TlsTyped' /\ OthersKeep(t)
        /\ \A s \in Slots : s # SlotOf(Top(t).fn, Top(t).codec) => g_handlers'[t][s] = g_handlers[t][s]
        /\ \A s \in Slots : g_handlers'[t][s] \in {g_handlers[t][s], None}
      BY <1>1, <1>4, <2>1, <2>2, RawReset, EndFacts DEF TlsTyped, OthersKeep
  <2>4. g_struct_entries'[t] = <<>> /\ Lists(g_entries[t], Top(t))
      BY <1>1, <1>4, <2>1 DEF Listing, Between, At
  <2>5. r.id = Top(t).id /\ r.fn = "report" /\ Lists(r.entries, r)
      BY <1>4, <2>4 DEF Lists
  <2>6. NumbersDiffer' /\ CallbackOwners' = CallbackOwners
      BY <1>1, <1>2, <2>1, <2>5, LeaveKeeps
  <2>7. ReportsTyped'
    <3>1. r \in [id : 1..MaxCalls, fn : {"report"}, codec : Codecs, count : 0..MaxUnits,
                 entries : Seq(ListedUnit)]
        BY <1>1, <1>4, CallFields DEF Typed
    <3> QED
        BY <1>1, <2>1, <3>1 DEF Typed, ReportsTyped
  <2> HIDE DEF r
  <2>8. ReportsAreWhole'
      BY <2>1, <2>5 DEF Live, ReportsAreWhole
  <2>9. Owners' = Owners
      BY <2>1, <2>5, <2>6 DEF Owners, EntryOwners, ReportOwners
  <2>10. faults' = {} /\ Owned(Owners', heap', nextMirror')
      BY <2>1, <2>2, <2>9 DEF Live
  <2>11. SlotOf(Top(t).fn, Top(t).codec) = "raw"
      BY <1>1, <1>4, EndFacts
  <2> QED
      BY <1>1, <1>2, <1>4, <2>1, <2>3, <2>4, <2>6, <2>7, <2>8, <2>10, <2>11, Ends
<1>5. CASE Top(t).fn = "typed"
  <2>1. Leave(t, TRUE, error) /\ g_handlers' = [g_handlers EXCEPT ![t][Top(t).codec] = None]
        /\ UNCHANGED <<g_data_start, g_entries, g_struct_entries, heap, reports, faults>>
      BY <1>5 DEF Returns
  <2>2. UNCHANGED g_collector_codec
      BY <2>1 DEF Leave
  <2>3. None \in 0..MaxCalls
      BY BoundsAssumption
  <2>4. /\ g_handlers' \in [Threads -> [Slots -> 0..MaxCalls]]
        /\ \A u \in Threads \ {t} : g_handlers'[u] = g_handlers[u]
        /\ \A s \in Slots : g_handlers'[t][s] = IF s = Top(t).codec THEN None ELSE g_handlers[t][s]
      BY <1>1, <2>1, <2>3, SlotsAssigned DEF TlsTyped
  <2>5. TlsTyped' /\ OthersKeep(t)
      BY <1>1, <2>1, <2>2, <2>4 DEF TlsTyped, OthersKeep
  <2>6. SlotOf(Top(t).fn, Top(t).codec) = Top(t).codec /\ Top(t).codec # "raw"
      BY <1>1, <1>5, EndFacts
  <2> QED
      BY <1>1, <1>2, <1>5, <2>1, <2>4, <2>5, <2>6, EndsQuietly
<1>6. CASE Top(t).fn = "struct_report"
  <2> DEFINE r == [id |-> Top(t).id, fn |-> Top(t).fn, codec |-> Top(t).codec,
                   count |-> Top(t).count, entries |-> g_struct_entries[t]]
  <2>1. Leave(t, TRUE, error) /\ reports' = reports \cup {r}
        /\ g_struct_entries' = [g_struct_entries EXCEPT ![t] = <<>>]
        /\ UNCHANGED <<g_handlers, g_data_start, g_entries, heap, faults>>
      BY <1>6 DEF Returns
  <2>2. UNCHANGED <<g_collector_codec, nextMirror>>
      BY <2>1 DEF Leave
  <2>3. TlsTyped' /\ OthersKeep(t) /\ g_struct_entries'[t] = <<>>
        /\ \A u \in Threads \ {t} : g_struct_entries'[u] = g_struct_entries[u]
      BY <1>1, <2>1, <2>2 DEF TlsTyped, OthersKeep
  <2>4. Lists(g_struct_entries[t], Top(t))
      BY <1>1, <1>6 DEF Listing, Between, At
  <2>5. r.id = Top(t).id /\ r.fn = "struct_report" /\ r.entries = g_struct_entries[t] /\ Lists(r.entries, r)
      BY <1>6, <2>4 DEF Lists
  <2>6. NumbersDiffer' /\ CallbackOwners' = CallbackOwners
      BY <1>1, <1>2, <2>1, <2>5, LeaveKeeps
  <2>7. ReportsTyped'
    <3>1. r \in [id : 1..MaxCalls, fn : {"struct_report"}, codec : Codecs, count : 0..MaxUnits,
                 entries : Seq(ListedMirror)]
        BY <1>1, <1>6, CallFields DEF Typed
    <3> QED
        BY <1>1, <2>1, <3>1 DEF Typed, ReportsTyped
  <2> HIDE DEF r
  <2>8. ReportsAreWhole'
      BY <2>1, <2>5 DEF Live, ReportsAreWhole
  <2>9. Owners' = Owners
    <3>1. ReportOwners' = ReportOwners \cup Elements(g_struct_entries[t])
        BY <2>1, <2>5 DEF ReportOwners
    <3>2. EntryOwners' \cup Elements(g_struct_entries[t]) = EntryOwners
      <4>1. Elements(<<>>) = {}
          BY DEF Elements
      <4> QED
          BY <2>3, <4>1 DEF EntryOwners
    <3> QED
        BY <2>6, <3>1, <3>2 DEF Owners
  <2>10. faults' = {} /\ Owned(Owners', heap', nextMirror')
      BY <2>1, <2>2, <2>9 DEF Live
  <2> QED
      BY <1>1, <1>2, <1>6, <2>1, <2>3, <2>6, <2>7, <2>8, <2>10, Ends
<1> QED
    BY <1>1, <1>3, <1>4, <1>5, <1>6

(* Whoever drops a whole list frees what only the list answers for.        *)
LEMMA ListFreed ==
  ASSUME Live, NEW X \in SUBSET Owners, NEW entries, X = Elements(entries), FreeEntries(entries),
         Owners' = Owners \ X, nextMirror' = nextMirror
  PROVE  faults' = {} /\ Owned(Owners', heap', nextMirror')
<1> DEFINE gone == UNION {Deleted(e.mirror, e.struct) : e \in X}
<1>1. /\ heap' = heap \ gone
      /\ faults' = IF gone \subseteq heap THEN faults ELSE faults \cup {"freed twice"}
    BY DEF FreeEntries
<1>2. faults = {} /\ Owned(Owners, heap, nextMirror) /\ \A p \in Owners : p.struct \in Structs
    BY OwnersTyped DEF Live
<1>3. gone \subseteq heap /\ Owned(Owners \ X, heap \ gone, nextMirror)
    BY <1>2, Frees
<1> QED
    BY <1>1, <1>2, <1>3

LEMMA ThrowsStep == ASSUME Live, NEW t \in Threads, Throws(t) PROVE Live'
<1>1. Between(t) /\ Top(t).fn \in {"parse", "report", "typed", "struct_report"} /\ TlsTyped /\ Typed
      /\ Listing(t) /\ Top(t) \in CallType /\ Top(t).codec \in Slots
    BY EndFacts DEF Throws, Fns
<1>2. /\ Leave(t, FALSE, TRUE) /\ UNCHANGED <<reports, g_collector_codec, nextMirror>>
      /\ TRUE \in BOOLEAN /\ FALSE \in BOOLEAN
    BY DEF Throws, Leave
<1>3. CASE Top(t).fn = "parse"
  <2>1. ResetRaw(t) /\ UNCHANGED <<g_entries, g_struct_entries, heap, faults>>
      BY <1>3 DEF Throws
  <2>2. /\ TlsTyped' /\ OthersKeep(t)
        /\ \A s \in Slots : s # SlotOf(Top(t).fn, Top(t).codec) => g_handlers'[t][s] = g_handlers[t][s]
        /\ \A s \in Slots : g_handlers'[t][s] \in {g_handlers[t][s], None}
      BY <1>1, <1>2, <1>3, <2>1, RawReset, EndFacts DEF TlsTyped, OthersKeep
  <2> QED
      BY <1>1, <1>2, <1>3, <2>1, <2>2, EndFacts, EndsQuietly
<1>4. CASE Top(t).fn = "report"
  <2>1. g_data_start' = [g_data_start EXCEPT ![t] = None]
        /\ UNCHANGED <<g_handlers, g_entries, g_struct_entries, heap, faults>>
      BY <1>4 DEF Throws
  <2>2. TlsTyped' /\ OthersKeep(t)
      BY <1>1, <1>2, <2>1, BoundsAssumption DEF TlsTyped, OthersKeep
  <2>3. SlotOf(Top(t).fn, Top(t).codec) = "raw"
      BY <1>1, <1>4, EndFacts
  <2> QED
      BY <1>1, <1>2, <1>4, <2>1, <2>2, <2>3, EndsQuietly
<1>5. CASE Top(t).fn = "typed"
  <2>1. g_handlers' = [g_handlers EXCEPT ![t] = [@ EXCEPT ![Top(t).codec] = None]]
        /\ UNCHANGED <<g_data_start, g_entries, g_struct_entries, heap, faults>>
      BY <1>5 DEF Throws, AfterThrow
  <2>2. None \in 0..MaxCalls
      BY BoundsAssumption
  <2>3. /\ g_handlers' \in [Threads -> [Slots -> 0..MaxCalls]]
        /\ \A u \in Threads \ {t} : g_handlers'[u] = g_handlers[u]
        /\ \A s \in Slots : g_handlers'[t][s] = IF s = Top(t).codec THEN None ELSE g_handlers[t][s]
      BY <1>1, <2>1, <2>2 DEF TlsTyped
  <2>4. TlsTyped' /\ OthersKeep(t)
      BY <1>1, <1>2, <2>1, <2>3 DEF TlsTyped, OthersKeep
  <2>5. SlotOf(Top(t).fn, Top(t).codec) = Top(t).codec /\ Top(t).codec # "raw"
      BY <1>1, <1>5, EndFacts
  <2> QED
      BY <1>1, <1>2, <1>5, <2>1, <2>3, <2>4, <2>5, EndsQuietly
<1>6. CASE Top(t).fn = "struct_report"
  <2> DEFINE X == Elements(g_struct_entries[t])
  <2>1. FreeEntries(g_struct_entries[t])
        /\ g_struct_entries' = [g_struct_entries EXCEPT ![t] = <<>>]
        /\ UNCHANGED <<g_handlers, g_data_start, g_entries>>
      BY <1>6 DEF Throws, Collected
  <2>2. TlsTyped' /\ OthersKeep(t) /\ g_struct_entries'[t] = <<>>
        /\ \A u \in Threads \ {t} : g_struct_entries'[u] = g_struct_entries[u]
      BY <1>1, <1>2, <2>1 DEF TlsTyped, OthersKeep
  <2>3. NumbersDiffer' /\ CallbackOwners' = CallbackOwners
      BY <1>1, <1>2, LeaveKeeps
  <2>4. ReportsTyped' /\ ReportsAreWhole'
      BY <1>1, <1>2 DEF Live, Typed, ReportsTyped, ReportsAreWhole
  <2>5. Owners' = Owners \ X /\ X \in SUBSET Owners
    <3>1. \A u \in Threads : Open(u) => Top(u) = calls[u][1] /\ 1 \in DOMAIN calls[u]
        BY TopFacts DEF Live
    <3>2. \A u \in Threads : Open(u) /\ Open(t) /\ u # t => Top(u).id # Top(t).id
        BY <3>1 DEF Live, NumbersDiffer
    <3>3. \A u \in Threads \ {t} : X \cap Elements(g_struct_entries[u]) = {}
        BY <3>2, Provenance
    <3>4. X \cap CallbackOwners = {}
        BY Provenance
    <3>5. \A r \in reports : Open(t) => Top(t).id # r.id
        BY <3>1 DEF Live, NumbersDiffer
    <3>6. X \cap ReportOwners = {}
        BY <3>5, Provenance DEF ReportOwners
    <3>7. EntryOwners' = EntryOwners \ X /\ X \subseteq EntryOwners
      <4>1. Elements(<<>>) = {}
          BY DEF Elements
      <4> HIDE DEF X
      <4>2. EntryOwners = X \cup UNION {Elements(g_struct_entries[u]) : u \in Threads \ {t}}
          BY DEF EntryOwners, X
      <4>3. EntryOwners' = UNION {Elements(g_struct_entries[u]) : u \in Threads \ {t}}
          BY <2>2, <4>1 DEF EntryOwners
      <4> QED
          BY <3>3, <4>2, <4>3
    <3>8. ReportOwners' = ReportOwners
        BY <1>2 DEF ReportOwners
    <3> QED
        BY <2>3, <3>4, <3>6, <3>7, <3>8 DEF Owners
  <2>6. faults' = {} /\ Owned(Owners', heap', nextMirror')
      BY <1>2, <2>1, <2>5, ListFreed
  <2> QED
      BY <1>1, <1>2, <1>6, <2>1, <2>2, <2>3, <2>4, <2>6, Ends
<1> QED
    BY <1>1, <1>3, <1>4, <1>5, <1>6

LEMMA DestroyStep == ASSUME Live, Destroy PROVE Live'
<1>1. PICK r \in reports :
        /\ reports' = reports \ {r}
        /\ IF r.fn = "struct_report" THEN FreeEntries(r.entries) ELSE UNCHANGED <<heap, faults>>
        /\ UNCHANGED <<tls, calls, answers, nextCall, nextMirror, taken>>
    BY DEF Destroy
<1>2. /\ Typed /\ StacksAreNested /\ (\A u \in Threads : Stashed(u) /\ Listing(u)) /\ ReportsAreWhole
      /\ faults = {} /\ Owned(Owners, heap, nextMirror) /\ NumbersDiffer
    BY DEF Live
<1>3. StacksAreNested' /\ (faults' = {} => Typed')
  <2>1. UNCHANGED <<g_handlers, g_data_start, g_entries, g_collector_codec, g_struct_entries,
                    calls, answers, nextCall, nextMirror, taken>>
      BY <1>1 DEF tls
  <2>2. faults' = {} => TypeOK'
      BY <1>2, <2>1 DEF Typed, TypeOK
  <2> QED
      BY <1>1, <1>2, <2>1, <2>2 DEF Typed, StacksAreNested
<1>4. \A u \in Threads : Stashed(u)' /\ Listing(u)'
    BY <1>1, <1>2, Bystander, StillStashed DEF tls
<1>5. NumbersDiffer' /\ ReportsAreWhole'
    BY <1>1, <1>2 DEF NumbersDiffer, ReportsAreWhole
<1>6. CallbackOwners' = CallbackOwners /\ EntryOwners' = EntryOwners
    BY <1>1 DEF CallbackOwners, EntryOwners, tls
<1>7. CASE r.fn # "struct_report"
  <2>1. ReportOwners' = ReportOwners
      BY <1>1, <1>7 DEF ReportOwners
  <2>2. Owners' = Owners
      BY <1>6, <2>1 DEF Owners
  <2> QED
      BY <1>1, <1>2, <1>3, <1>4, <1>5, <1>7, <2>2 DEF Live
<1>8. CASE r.fn = "struct_report"
  <2> DEFINE X == Elements(r.entries)
  <2>1. \A u \in Threads : Open(u) => Top(u).id # r.id
      BY <1>2, TopFacts DEF NumbersDiffer
  <2>2. X \cap EntryOwners = {}
      BY <1>8, <2>1, Provenance DEF EntryOwners
  <2>3. X \cap CallbackOwners = {}
      BY <1>8, Provenance
  <2>4. \A s \in reports \ {r} : s.fn = "struct_report" => X \cap Elements(s.entries) = {}
      BY <1>2, <1>8, Provenance DEF NumbersDiffer
  <2> HIDE DEF X
  <2>5. ReportOwners = X \cup UNION {Elements(s.entries) : s \in {q \in reports \ {r} : q.fn = "struct_report"}}
      BY <1>8 DEF ReportOwners, X
  <2>6. ReportOwners' = UNION {Elements(s.entries) : s \in {q \in reports \ {r} : q.fn = "struct_report"}}
      BY <1>1 DEF ReportOwners
  <2>7. ReportOwners' = ReportOwners \ X /\ X \subseteq ReportOwners
      BY <2>4, <2>5, <2>6
  <2>8. Owners' = Owners \ X /\ X \in SUBSET Owners
      BY <1>6, <2>2, <2>3, <2>7 DEF Owners
  <2>9. faults' = {} /\ Owned(Owners', heap', nextMirror')
      BY <1>1, <1>8, <2>8, ListFreed DEF X
  <2> QED
      BY <1>3, <1>4, <1>5, <2>9 DEF Live
<1> QED
    BY <1>7, <1>8

-----------------------------------------------------------------------------
(* The invariant, and what follows from it. *)

LEMMA InitIInv == Init => IInv
<1> SUFFICES ASSUME Init PROVE IInv
    OBVIOUS
<1>1. Typed
  <2>1. 1 \in 1..MaxCalls + 1 /\ 0 \in 0..MaxCalls
      BY BoundsAssumption
  <2>2. TypeOK
      BY <2>1 DEF Init, TypeOK, Fns
  <2> QED
      BY <2>2 DEF Init, Typed
<1>2. \A t \in Threads : DOMAIN calls[t] = {} /\ ~Open(t)
    BY DEF Init, Open
<1>3. StacksAreNested /\ NumbersDiffer /\ ReportsAreWhole
    BY <1>2 DEF StacksAreNested, NumbersDiffer, ReportsAreWhole, Init
<1>4. \A t \in Threads : Stashed(t) /\ Listing(t)
  <2>1. \A s \in Codecs : s \in Slots
      BY DEF Slots
  <2>2. \A t \in Threads : Listing(t)
      BY <1>2 DEF Listing, Init
  <2>3. \A t \in Threads : KeepsPlace(t)
      BY <1>2 DEF KeepsPlace
  <2>4. \A t \in Threads : LeadsHome(t)
      BY <1>2, <2>1 DEF LeadsHome, Init
  <2> QED
      BY <2>2, <2>3, <2>4 DEF Stashed
<1>5. Owners = {}
    BY <1>2 DEF Owners, CallbackOwners, EntryOwners, ReportOwners, Elements, Init
<1>6. faults = {} /\ Owned(Owners, heap, nextMirror)
    BY <1>5 DEF Owned, Init
<1> QED
    BY <1>1, <1>3, <1>4, <1>6 DEF IInv, Consistent

LEMMA StutterIInv == IInv /\ UNCHANGED vars => IInv'
<1> SUFFICES ASSUME IInv, UNCHANGED vars PROVE IInv'
    OBVIOUS
<1>1. UNCHANGED <<g_handlers, g_data_start, g_entries, g_collector_codec, g_struct_entries, calls, heap,
                  reports, answers, nextCall, nextMirror, faults, taken>>
    BY DEF vars, tls, user
<1>2. /\ Typed /\ StacksAreNested /\ (\A t \in Threads : Stashed(t) /\ Listing(t)) /\ NumbersDiffer
      /\ ReportsAreWhole /\ Owned(Owners, heap, nextMirror)
    BY DEF IInv, Consistent
<1>3. Typed'
    BY <1>1, <1>2 DEF Typed, TypeOK
<1>4. StacksAreNested' /\ NumbersDiffer' /\ ReportsAreWhole'
    BY <1>1, <1>2 DEF StacksAreNested, NumbersDiffer, ReportsAreWhole
<1>5. ASSUME NEW t \in Threads PROVE Stashed(t)' /\ Listing(t)'
  <2>1. KeepsPlace(t) /\ LeadsHome(t) /\ Listing(t)
      BY <1>2 DEF Stashed
  <2>2. KeepsPlace(t)'
      BY <1>1, <2>1 DEF KeepsPlace, Finds
  <2>3. LeadsHome(t)'
      BY <1>1, <2>1 DEF LeadsHome
  <2>4. Listing(t)'
      BY <1>1, <2>1, Bystander
  <2> QED
      BY <2>2, <2>3, <2>4 DEF Stashed
<1>6. Owned(Owners, heap, nextMirror)'
    BY <1>1, <1>2 DEF Owners, CallbackOwners, EntryOwners, ReportOwners
<1>7. /\ "freed twice" \notin faults'
      /\ faults' # {} => \E t \in Threads : (Open(t) /\ Top(t).id \in taken)'
    BY <1>1 DEF IInv, Open, Top
<1> QED
    BY <1>3, <1>4, <1>5, <1>6, <1>7 DEF IInv, Consistent

LEMMA NextIInv == IInv /\ [Next]_vars => IInv'
<1> SUFFICES ASSUME IInv, [Next]_vars PROVE IInv'
    OBVIOUS
<1>1. CASE UNCHANGED vars
    BY <1>1, StutterIInv
<1>2. CASE Destroy
  <2>1. Running
      BY <1>2 DEF Destroy
  <2> QED
      BY <1>2, <2>1, LiveIsInv, DestroyStep, LiveStays
<1>3. ASSUME NEW t \in Threads,
             BsParse(t) \/ BsParseReport(t) \/ BsParseTyped(t) \/ BsParseStructReport(t) \/ Refused(t)
      PROVE  IInv'
  <2>1. Running
      BY <1>3 DEF BsParse, BsParseReport, BsParseTyped, BsParseStructReport, Refused, MayEnter
  <2>2. Live
      BY <2>1, LiveIsInv
  <2> QED
      BY <1>3, <2>2, BsParseStep, BsParseReportStep, BsParseTypedStep, BsParseStructReportStep,
         RefusedStep, LiveStays
<1>4. ASSUME NEW t \in Threads, EmitNal(t) \/ EmitSlot(t) \/ SlotReturns(t) \/ Collect(t)
      PROVE  IInv'
  <2>1. Running
      BY <1>4 DEF EmitNal, EmitSlot, SlotReturns, Collect, MoreUnits, Between, At
  <2>2. Live
      BY <2>1, LiveIsInv
  <2> QED
      BY <1>4, <2>2, EmitNalStep, EmitSlotStep, SlotReturnsStep, CollectStep, LiveStays
<1>5. ASSUME NEW t \in Threads, DeliverTyped(t) \/ DeliverSei(t) \/ TypedReturns(t) \/ CollectStruct(t)
      PROVE  IInv'
  <2>1. Running
      BY <1>5 DEF DeliverTyped, DeliverSei, TypedReturns, CollectStruct, MoreUnits, Between, At
  <2>2. Live
      BY <2>1, LiveIsInv
  <2> QED
      BY <1>5, <2>2, DeliverTypedStep, DeliverSeiStep, TypedReturnsStep, CollectStructStep, LiveStays
<1>6. ASSUME NEW t \in Threads, Finish(t) \/ Throws(t) \/ UnsupportedFraming(t) PROVE IInv'
  <2>1. \/ Returns(t, FALSE) \/ Returns(t, TRUE) \/ Throws(t)
      BY <1>6 DEF Finish, UnsupportedFraming
  <2>2. Running
      BY <2>1 DEF Returns, Throws, Between, At
  <2>3. Live
      BY <2>2, LiveIsInv
  <2>4. FALSE \in BOOLEAN /\ TRUE \in BOOLEAN
      OBVIOUS
  <2> QED
      BY <2>1, <2>3, <2>4, ReturnsStep, ThrowsStep, LiveStays
<1> QED
    BY <1>1, <1>2, <1>3, <1>4, <1>5, <1>6, Zenon DEF Next

(* The inductive invariant: each open call of a thread finds in the        *)
(* thread's variables what it stashed there, unless a call nested in its   *)
(* callbacks has stashed over it, and each structure on the heap has one   *)
(* owner.                                                                  *)
THEOREM Invariant == Spec => []IInv
BY InitIInv, NextIInv, PTL DEF Spec

(* The thread-local variables, the open calls and the answers keep their   *)
(* types, for any number of threads, calls and units.                      *)
THEOREM TypeCorrect == Spec => []TypeOK
<1>1. IInv => TypeOK
    BY DEF IInv, Consistent, Typed
<1> QED
    BY <1>1, Invariant, PTL

(* A call calls back its own set and no other, whatever the other threads  *)
(* and the calls nested in callbacks do, the ones that take its place      *)
(* included.  A call whose place no nested call has taken does so for      *)
(* every unit, with offsets into its own input, and only one whose place   *)
(* was taken goes through a pointer that leads nowhere.                    *)
THEOREM OwnSet == Spec => []OwnCallbacks
<1>1. IInv => OwnCallbacks
  <2> SUFFICES ASSUME IInv PROVE OwnCallbacks
      OBVIOUS
  <2>1. /\ StacksAreNested /\ \A t \in Threads : KeepsPlace(t)
        /\ faults # {} => \E t \in Threads : Open(t) /\ Top(t).id \in taken
      BY DEF IInv, Consistent, Stashed
  <2>2. ASSUME NEW t \in Threads, NEW i \in DOMAIN calls[t]
        PROVE  /\ calls[t][i].at # "between" => calls[t][i].to = calls[t][i].id
               /\ calls[t][i].id \notin taken => Served(calls[t][i])
      BY <2>1 DEF StacksAreNested, Standing, KeepsPlace, Finds
  <2> QED
      BY <2>1, <2>2 DEF OwnCallbacks
<1> QED
    BY <1>1, Invariant, PTL

(* A report lists all units of its own call, in order.                     *)
THEOREM WholeReports == Spec => []ReportsAreWhole
<1>1. IInv => ReportsAreWhole
    BY DEF IInv, Consistent
<1> QED
    BY <1>1, Invariant, PTL

(* No structure is freed twice, and the ones there are those somebody      *)
(* answers for.                                                            *)
THEOREM FreedOnce == Spec => []MirrorsAreFreed
<1>1. IInv => MirrorsAreFreed
  <2> SUFFICES ASSUME IInv PROVE MirrorsAreFreed
      OBVIOUS
  <2>1. /\ "freed twice" \notin faults /\ Owned(Owners, heap, nextMirror)
        /\ Typed /\ StacksAreNested /\ nextMirror \in Nat
      BY DEF IInv, Consistent, Typed, TypeOK
  <2>2. \A o \in Owners : /\ o.mirror \in Nat \ {0} /\ o.mirror \in 1..nextMirror
                          /\ <<o.mirror, <<>>>> \in heap
    <3> SUFFICES ASSUME NEW o \in Owners
                 PROVE  /\ o.mirror \in Nat \ {0} /\ o.mirror \in 1..nextMirror
                        /\ <<o.mirror, <<>>>> \in heap
        OBVIOUS
    <3>1. o.mirror \in Nat \ {0} /\ o.mirror < nextMirror
        BY <2>1, OwnersTyped DEF Owned
    <3>2. <<o.mirror, <<>>>> \in Blocks(o.mirror, o.struct)
        BY DEF Blocks
    <3>3. Blocks(o.mirror, o.struct) \subseteq heap
        BY <2>1 DEF Owned
    <3>4. nextMirror \in Nat
        BY <2>1
    <3>5. o.mirror \in 1..nextMirror
        BY <3>1, <3>4
    <3> QED
        BY <3>1, <3>2, <3>3, <3>5
  <2> DEFINE Answering == {o.mirror : o \in Owners}
  <2>3. ASSUME NEW m \in (Held \cup Entered \cup Reported) \ {0} PROVE m \in Answering
    <3>1. CASE m \in Held
      <4>1. PICK t \in Threads : \E i \in DOMAIN calls[t] : m = calls[t][i].mirror
          BY <3>1 DEF Held
      <4>2. PICK i \in DOMAIN calls[t] : m = calls[t][i].mirror
          BY <4>1
      <4>3. InCallback(calls[t][i]) \in CallbackOwners
          BY <4>2 DEF CallbackOwners
      <4> QED
          BY <4>2, <4>3 DEF Owners, InCallback
    <3>2. CASE m \in Entered
        BY <3>2 DEF Entered, Owners, EntryOwners, Elements
    <3>3. CASE m \in Reported
        BY <3>3 DEF Reported, Owners, ReportOwners, Elements
    <3> QED
        BY <3>1, <3>2, <3>3
  <2>4. ASSUME NEW m \in Answering PROVE m \in (Held \cup Entered \cup Reported) \ {0}
    <3>1. PICK o \in Owners : m = o.mirror
        OBVIOUS
    <3>2. m # 0
        BY <2>2, <3>1
    <3>3. CASE o \in CallbackOwners
        BY <3>1, <3>2, <3>3 DEF CallbackOwners, InCallback, Held
    <3>4. CASE o \in EntryOwners
        BY <3>1, <3>2, <3>4 DEF EntryOwners, Elements, Entered
    <3>5. CASE o \in ReportOwners
        BY <3>1, <3>2, <3>5 DEF ReportOwners, Elements, Reported
    <3> QED
        BY <3>3, <3>4, <3>5 DEF Owners
  <2>5. ASSUME NEW m \in 1..nextMirror, <<m, <<>>>> \in heap PROVE m \in Answering
    <3>1. <<m, <<>>>>[2] = <<>> /\ <<m, <<>>>>[1] = m
        OBVIOUS
    <3> QED
        BY <2>1, <2>5, <3>1 DEF Owned
  <2>6. {m \in 1..nextMirror : <<m, <<>>>> \in heap} = Answering
      BY <2>2, <2>5
  <2> HIDE DEF Answering
  <2> QED
      BY <2>1, <2>3, <2>4, <2>6 DEF MirrorsAreFreed
<1> QED
    BY <1>1, Invariant, PTL

(* With no call open, no typed callback set is left behind.                *)
THEOREM IdleSlots == Spec => []TypedSlotsAreIdle
<1>1. IInv => TypedSlotsAreIdle
  <2> SUFFICES ASSUME IInv, \A t \in Threads : ~Open(t), NEW t \in Threads, NEW s \in Codecs
               PROVE  g_handlers[t][s] = None
      BY DEF TypedSlotsAreIdle
  <2>1. calls[t] = <<>> /\ LeadsHome(t)
      BY DEF Open, IInv, Consistent, Stashed
  <2> QED
      BY <2>1 DEF LeadsHome
<1> QED
    BY <1>1, Invariant, PTL
=============================================================================
