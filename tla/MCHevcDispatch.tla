--------------------------- MODULE MCHevcDispatch ---------------------------
(* A small instance of HevcDispatch: one VPS and one SPS slot, two PPS     *)
(* slots, an SPS that changes the LSB width, ids beyond each limit, a PPS  *)
(* that names a missing SPS, and a pps_id that wraps in its byte.          *)
EXTENDS HevcDispatch

MCLsbPeriod == [c \in {"short", "long"} |-> IF c = "short" THEN 2 ELSE 4]

MCSets ==
  {[kind |-> "vps", id |-> i, content |-> "v"] : i \in 0 .. 1} \union
  {[kind |-> "sps", id |-> 0, vps |-> 0, content |-> c] : c \in {"short", "long"}} \union
  {[kind |-> "sps", id |-> 1, vps |-> 0, content |-> "long"]} \union
  {[kind |-> "pps", id |-> 0, sps |-> 0, content |-> "p"],
   [kind |-> "pps", id |-> 0, sps |-> 1, content |-> "p"],
   [kind |-> "pps", id |-> 1, sps |-> 0, content |-> "q"],
   [kind |-> "pps", id |-> 2, sps |-> 0, content |-> "p"]}

MCSlices ==
  {[kind |-> "slice", nut |-> 1, tid |-> 0, pps |-> p, lsb |-> l, wellFormed |-> TRUE] :
     p \in {0, 1, 3}, l \in 0 .. 1} \union
  {[kind |-> "slice", nut |-> 1, tid |-> 0, pps |-> 0, lsb |-> 1, wellFormed |-> FALSE],
   [kind |-> "slice", nut |-> 19, tid |-> 0, pps |-> 0, lsb |-> 0, wellFormed |-> TRUE],
   [kind |-> "slice", nut |-> 1, tid |-> 1, pps |-> 0, lsb |-> 1, wellFormed |-> TRUE],
   [kind |-> "slice", nut |-> 1, tid |-> 0, pps |-> 2, lsb |-> 1, wellFormed |-> TRUE]}

MCCalls ==
  {{"vps", "sps", "pps", "slice"}, {"sps"}, {"raw"}, {"report"}}
=============================================================================
