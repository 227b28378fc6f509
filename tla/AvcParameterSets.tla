-------------------------- MODULE AvcParameterSets --------------------------
(***************************************************************************)
(* avc::ParameterSetManager (parser/avc_parameter_set_manager.hpp): two    *)
(* arrays of optional parameter sets, as pure operators on one record.     *)
(***************************************************************************)
EXTENDS AvcPocTracker

CONSTANTS
  MaxSps, MaxPps,           \* kMaxSpsCount, kMaxPpsCount
  Contents,                 \* what an SPS says: [name -> Sps of the tracker]
  NoSet                     \* std::nullopt, and nullptr

ASSUME LimitsAssumption ==
  /\ MaxSps \in Nat \ {0} /\ MaxPps \in Nat \ {0}
  /\ \A c \in DOMAIN Contents : Contents[c] \in Sps

SpsRecord == [kind : {"sps"}, id : Nat, content : DOMAIN Contents]
PpsRecord == [kind : {"pps"}, id : Nat, sps : Nat, content : STRING]

ASSUME NoSetAssumption == NoSet \notin SpsRecord \union PpsRecord

Manager ==
  [sps : [0 .. MaxSps - 1 -> SpsRecord \union {NoSet}],
   pps : [0 .. MaxPps - 1 -> PpsRecord \union {NoSet}]]

EmptyManager ==
  [sps |-> [i \in 0 .. MaxSps - 1 |-> NoSet], pps |-> [i \in 0 .. MaxPps - 1 |-> NoSet]]

-----------------------------------------------------------------------------
(* A set whose id is beyond the array is dropped.                          *)
StoreSps(m, set) ==
  IF set.id < MaxSps THEN [m EXCEPT !.sps[set.id] = set] ELSE m

StorePps(m, set) ==
  IF set.id < MaxPps THEN [m EXCEPT !.pps[set.id] = set] ELSE m

(* Fault: an SPS takes the pictures sets that refer to it along.           *)
StoreAndForget(m, set) ==
  IF set.kind = "pps" THEN StorePps(m, set)
  ELSE [StoreSps(m, set) EXCEPT !.pps =
          [i \in DOMAIN m.pps |->
             IF m.pps[i] # NoSet /\ m.pps[i].sps = set.id THEN NoSet ELSE m.pps[i]]]

Store(m, set) == IF set.kind = "sps" THEN StoreSps(m, set) ELSE StorePps(m, set)

FindSps(m, id) == IF id < MaxSps THEN m.sps[id] ELSE NoSet
FindPps(m, id) == IF id < MaxPps THEN m.pps[id] ELSE NoSet

(* resolve(): PPS -> SPS.  Without an SPS there is no PPS.                 *)
Resolve(m, id) ==
  LET pps == FindPps(m, id)
      sps == IF pps = NoSet THEN NoSet ELSE FindSps(m, pps.sps)
  IN [pps |-> IF sps = NoSet THEN NoSet ELSE pps, sps |-> sps]
=============================================================================
