-------------------------- MODULE VvcParameterSets --------------------------
(***************************************************************************)
(* vvc::ParameterSetManager (parser/vvc_parameter_set_manager.hpp): the    *)
(* arrays of optional parameter sets and the last DCI, OPI and picture     *)
(* header, as pure operators on one record.                                *)
(***************************************************************************)
EXTENDS Integers

CONSTANTS
  MaxVps, MaxSps, MaxPps,   \* the lengths of the arrays: 16, 16 and 64
  SpsContents,              \* what else an SPS says
  PictureHeaders,           \* the stored picture headers
  NoSet                     \* std::nullopt, and nullptr

ASSUME LimitsAssumption ==
  /\ MaxVps \in Nat /\ MaxSps \in Nat /\ MaxPps \in Nat
  /\ MaxVps > 0 /\ MaxSps > 0 /\ MaxPps > 0

Dci == [kind : {"dci"}, id : {0}]
Opi == [kind : {"opi"}, id : {0}]
Vps == [kind : {"vps"}, id : Nat]
Sps == [kind : {"sps"}, id : Nat, vps : Nat, content : SpsContents]
Pps == [kind : {"pps"}, id : Nat, sps : Nat]
AnySet == Dci \union Opi \union Vps \union Sps \union Pps

ASSUME NoSetAssumption == NoSet \notin AnySet \union PictureHeaders

Manager ==
  [dci : Dci \union {NoSet}, opi : Opi \union {NoSet},
   ph : PictureHeaders \union {NoSet},
   vps : [0 .. MaxVps - 1 -> Vps \union {NoSet}],
   sps : [0 .. MaxSps - 1 -> Sps \union {NoSet}],
   pps : [0 .. MaxPps - 1 -> Pps \union {NoSet}]]

EmptyManager ==
  [dci |-> NoSet, opi |-> NoSet, ph |-> NoSet,
   vps |-> [i \in 0 .. MaxVps - 1 |-> NoSet],
   sps |-> [i \in 0 .. MaxSps - 1 |-> NoSet],
   pps |-> [i \in 0 .. MaxPps - 1 |-> NoSet]]

-----------------------------------------------------------------------------
InRange(set) ==
  /\ set.kind = "vps" => set.id < MaxVps
  /\ set.kind = "sps" => set.id < MaxSps
  /\ set.kind = "pps" => set.id < MaxPps

(* Fault: PPSs are filed under their SPS.                                  *)
StorePpsBySps(m, set) ==
  IF ~ InRange(set) THEN m
  ELSE CASE set.kind = "dci" -> [m EXCEPT !.dci = set]
         [] set.kind = "opi" -> [m EXCEPT !.opi = set]
         [] set.kind = "vps" -> [m EXCEPT !.vps[set.id] = set]
         [] set.kind = "sps" -> [m EXCEPT !.sps[set.id] = set]
         [] set.kind = "pps" -> [m EXCEPT !.pps[set.sps] = set]

(* The store_*() members; a set whose id is beyond the array is dropped.   *)
Store(m, set) ==
  IF ~ InRange(set) THEN m
  ELSE CASE set.kind = "dci" -> [m EXCEPT !.dci = set]
         [] set.kind = "opi" -> [m EXCEPT !.opi = set]
         [] set.kind = "vps" -> [m EXCEPT !.vps[set.id] = set]
         [] set.kind = "sps" -> [m EXCEPT !.sps[set.id] = set]
         [] set.kind = "pps" -> [m EXCEPT !.pps[set.id] = set]

StorePh(m, ph) == [m EXCEPT !.ph = ph]

FindVps(m, id) == IF id < MaxVps THEN m.vps[id] ELSE NoSet
FindSps(m, id) == IF id < MaxSps THEN m.sps[id] ELSE NoSet
FindPps(m, id) == IF id < MaxPps THEN m.pps[id] ELSE NoSet

(* resolve().  Unlike its HEVC namesake it keeps a PPS without an SPS.     *)
Resolve(m, id) ==
  LET pps == FindPps(m, id)
      sps == IF pps = NoSet THEN NoSet ELSE FindSps(m, pps.sps)
      vps == IF sps = NoSet THEN NoSet ELSE FindVps(m, sps.vps)
  IN [pps |-> pps, sps |-> sps, vps |-> vps]
=============================================================================
