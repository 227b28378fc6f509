-------------------------- MODULE HevcParameterSets --------------------------
(***************************************************************************)
(* bs::ParameterSetManager (parser/hevc_parameter_set_manager.hpp): three  *)
(* arrays of optional parameter sets, as pure operators on one record.     *)
(* A set is a record with the ids the code looks at and a content.         *)
(***************************************************************************)
EXTENDS Integers

CONSTANTS
  MaxVps, MaxSps, MaxPps,   \* kMaxVpsCount, kMaxSpsCount, kMaxPpsCount
  VpsContents,              \* what else a VPS says
  SpsContents,              \* what else an SPS says ...
  PpsContents,              \* ... and a PPS
  NoSet                     \* std::nullopt, and nullptr

ASSUME LimitsAssumption ==
  /\ MaxVps \in Nat /\ MaxSps \in Nat /\ MaxPps \in Nat
  /\ MaxVps > 0 /\ MaxSps > 0 /\ MaxPps > 0

(* A parameter set as the parsers return it: any id the syntax can carry.  *)
Vps == [kind : {"vps"}, id : Nat, content : VpsContents]
Sps == [kind : {"sps"}, id : Nat, vps : Nat, content : SpsContents]
Pps == [kind : {"pps"}, id : Nat, sps : Nat, content : PpsContents]

ASSUME NoSetAssumption == NoSet \notin Vps \union Sps \union Pps

Manager ==
  [vps : [0 .. MaxVps - 1 -> Vps \union {NoSet}],
   sps : [0 .. MaxSps - 1 -> Sps \union {NoSet}],
   pps : [0 .. MaxPps - 1 -> Pps \union {NoSet}]]

EmptyManager ==
  [vps |-> [i \in 0 .. MaxVps - 1 |-> NoSet],
   sps |-> [i \in 0 .. MaxSps - 1 |-> NoSet],
   pps |-> [i \in 0 .. MaxPps - 1 |-> NoSet]]

-----------------------------------------------------------------------------
(* A set whose id is beyond the array is dropped.                          *)
StoreVps(m, set) ==
  IF set.id < MaxVps THEN [m EXCEPT !.vps[set.id] = set] ELSE m

StoreSps(m, set) ==
  IF set.id < MaxSps THEN [m EXCEPT !.sps[set.id] = set] ELSE m

(* Fault: a set that is already there is kept.                             *)
StorePpsOnce(m, set) ==
  IF set.id < MaxPps /\ m.pps[set.id] = NoSet
  THEN [m EXCEPT !.pps[set.id] = set] ELSE m

StorePps(m, set) ==
  IF set.id < MaxPps THEN [m EXCEPT !.pps[set.id] = set] ELSE m

Store(m, set) ==
  CASE set.kind = "vps" -> StoreVps(m, set)
    [] set.kind = "sps" -> StoreSps(m, set)
    [] set.kind = "pps" -> StorePps(m, set)

FindVps(m, id) == IF id < MaxVps THEN m.vps[id] ELSE NoSet
FindSps(m, id) == IF id < MaxSps THEN m.sps[id] ELSE NoSet
FindPps(m, id) == IF id < MaxPps THEN m.pps[id] ELSE NoSet

(* resolve_pps(): PPS -> SPS -> VPS.  Without an SPS there is no PPS.      *)
Unresolved == [pps |-> NoSet, sps |-> NoSet, vps |-> NoSet]

Resolve(m, id) ==
  LET pps == FindPps(m, id)
      sps == IF pps = NoSet THEN NoSet ELSE FindSps(m, pps.sps)
  IN IF sps = NoSet THEN Unresolved
     ELSE [pps |-> pps, sps |-> sps, vps |-> FindVps(m, sps.vps)]
=============================================================================
