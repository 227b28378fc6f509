--------------------------- MODULE MCVvcDispatch ---------------------------
(* A small instance of VvcDispatch: one SPS slot whose content changes the *)
(* LSB width, two PPS slots, sets beyond each limit, a PPS that names a    *)
(* missing SPS, headers with and without the MSB cycle, and one whose PPS  *)
(* id wraps into a stored PPS.                                             *)
EXTENDS VvcDispatch

MCLsbPeriod == [c \in {"short", "long"} |-> IF c = "short" THEN 2 ELSE 4]

MCSets ==
  {[kind |-> "opi", id |-> 0],
   [kind |-> "sps", id |-> 0, vps |-> 0, content |-> "short"],
   [kind |-> "sps", id |-> 0, vps |-> 0, content |-> "long"],
   [kind |-> "sps", id |-> 1, vps |-> 0, content |-> "long"],
   [kind |-> "pps", id |-> 0, sps |-> 0], [kind |-> "pps", id |-> 0, sps |-> 1],
   [kind |-> "pps", id |-> 1, sps |-> 0], [kind |-> "pps", id |-> 2, sps |-> 0]}

MCSentHeaders ==
  {[pps |-> 0, nonRef |-> FALSE, recovery |-> FALSE, lsb |-> 0, cycle |-> NoCycle],
   [pps |-> 1, nonRef |-> TRUE, recovery |-> FALSE, lsb |-> 1, cycle |-> NoCycle],
   [pps |-> 0, nonRef |-> FALSE, recovery |-> FALSE, lsb |-> 1, cycle |-> 0],
   [pps |-> 3, nonRef |-> FALSE, recovery |-> FALSE, lsb |-> 1, cycle |-> NoCycle]}

MCParsedHeaders ==
  {DefaultHeader} \union
  {ParsedHeader(ph, NoSet) : ph \in MCSentHeaders} \union
  {ParsedHeader(ph, set) : ph \in MCSentHeaders,
                           set \in {s \in MCSets : s.kind = "sps"}}

MCSliceTypes == {[nut |-> 7, tid |-> 0], [nut |-> 0, tid |-> 0], [nut |-> 0, tid |-> 1]}

MCCalls == {{"sps", "pps", "ph", "slice"}, {"opi", "vps"}}
=============================================================================
