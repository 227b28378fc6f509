--------------------------- MODULE MCStateDispatch ---------------------------
(* A small instance of StateDispatch: one SPS slot and two PPS slots, SPSs *)
(* of two order-count types, ids beyond each limit, a PPS that names a     *)
(* missing SPS, a pps_id that wraps in its byte, two sequence headers.     *)
EXTENDS StateDispatch

MCCodecs == {"Avc", "Av1", "Vp8"}

MCContents ==
  [lsb |-> [type |-> 0, refOffsets |-> <<>>, nonRefOffset |-> 0, topToBottom |-> 0,
            maxFrameNum |-> 2, maxLsb |-> 4],
   num |-> [type |-> 2, refOffsets |-> <<>>, nonRefOffset |-> 0, topToBottom |-> 0,
            maxFrameNum |-> 2, maxLsb |-> 4]]

MCSets ==
  {[kind |-> "sps", id |-> 0, content |-> c] : c \in {"lsb", "num"}} \union
  {[kind |-> "sps", id |-> 1, content |-> "lsb"],
   [kind |-> "pps", id |-> 0, sps |-> 0, content |-> "p"],
   [kind |-> "pps", id |-> 0, sps |-> 1, content |-> "p"],
   [kind |-> "pps", id |-> 1, sps |-> 0, content |-> "q"],
   [kind |-> "pps", id |-> 2, sps |-> 0, content |-> "p"]}

MCHeader(idr, reference, n) ==
  [idr |-> idr, reference |-> reference, frameNum |-> n % 2, lsb |-> n,
   structure |-> "frame", deltaBottom |-> 0, delta |-> <<0, 0>>]

MCSlices ==
  {[pps |-> p, wellFormed |-> TRUE, header |-> MCHeader(FALSE, TRUE, n)] :
     p \in {0, 3}, n \in {0, 2}} \union
  {[pps |-> 1, wellFormed |-> TRUE, header |-> MCHeader(FALSE, FALSE, 1)],
   [pps |-> 0, wellFormed |-> FALSE, header |-> MCHeader(FALSE, TRUE, 2)],
   [pps |-> 0, wellFormed |-> TRUE, header |-> MCHeader(TRUE, TRUE, 0)]}

MCCalls ==
  [Avc |-> {{"sps", "pps", "slice"}, {"raw"}, {"report"}},
   Av1 |-> {{"sequence_header", "frame_header"}, {"frame_header"}, {"sequence_header"}},
   Vp9 |-> {{"frame_header"}, {}}, Vp8 |-> {{"frame_header"}, {}}]

MCMinLsbPeriod == 4
=============================================================================
