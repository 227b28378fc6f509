------------------------------ MODULE MCAvcPoc ------------------------------
(* Small instances of AvcPoc: two-bit frame numbers and LSBs; a cycle of   *)
(* three offsets (which MaxFrameNum is not a multiple of), an empty cycle, *)
(* and one SPS of each of the other types.                                 *)
EXTENDS AvcPoc

MCMaxFrameNum == 4
MCMaxLsb == 4
MCMinLsbPeriod == 4
MCCounts == -6 .. 9
MCDeltas == {-1, 0, 2}

MCSpsSet ==
  {[type |-> 0, refOffsets |-> <<>>, nonRefOffset |-> 0, topToBottom |-> 0,
    maxFrameNum |-> 4, maxLsb |-> 4],
   [type |-> 1, refOffsets |-> <<2, 5, -1>>, nonRefOffset |-> -3, topToBottom |-> 1,
    maxFrameNum |-> 4, maxLsb |-> 4],
   [type |-> 1, refOffsets |-> <<>>, nonRefOffset |-> -3, topToBottom |-> -1,
    maxFrameNum |-> 4, maxLsb |-> 4],
   [type |-> 2, refOffsets |-> <<>>, nonRefOffset |-> 0, topToBottom |-> 0,
    maxFrameNum |-> 4, maxLsb |-> 4]}
=============================================================================
