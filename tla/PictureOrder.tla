---------------------------- MODULE PictureOrder ----------------------------
(***************************************************************************)
(* What a picture-order-count tracker of this library promises, whichever  *)
(* codec it serves.                                                        *)
(*                                                                         *)
(* A stream transmits only the low part (the LSB, modulo MaxLsb) of each   *)
(* picture's order count.  The tracker must rebuild the whole count from   *)
(* the previous anchor picture, as long as the encoder keeps every picture *)
(* within half an LSB period of the anchor.  A tracker that joins a stream *)
(* in the middle cannot know how many periods went by before, so what it   *)
(* shows is the encoder's time line moved by a constant number of periods; *)
(* an instantaneous refresh picture makes that constant zero.              *)
(***************************************************************************)
EXTENDS Integers

CONSTANT MaxLsb      \* the LSB period, MaxPicOrderCntLsb

VARIABLES
  live,              \* has a picture been seen since construction or reset?
  coded,             \* order count the encoder gave the current picture
  anchor,            \* order count of the encoder's last anchor picture
  shift,             \* displacement of the shown time line
  shown              \* order count the tracker reports

vars == <<live, coded, anchor, shift, shown>>

(* The half-open window around the anchor in which an LSB identifies a     *)
(* picture.                                                                *)
Identifiable(p) ==
  /\ 2 * (p - anchor) > - MaxLsb
  /\ 2 * (p - anchor) <= MaxLsb

Init ==
  /\ live = FALSE
  /\ coded = 0 /\ anchor = 0 /\ shift = 0 /\ shown = 0

(* The tracker meets the stream at an anchor picture, or the encoder       *)
(* starts a new coded video sequence the tracker does not recognise.       *)
Join ==
  /\ live' = TRUE
  /\ coded' \in Int
  /\ anchor' = coded'
  /\ shown' = coded' + shift'
  /\ shift' \in Int
  /\ shift' % MaxLsb = 0

(* An instantaneous refresh: both time lines restart at zero.              *)
Refresh ==
  /\ live' = TRUE
  /\ coded' = 0 /\ anchor' = 0 /\ shift' = 0 /\ shown' = 0

(* An ordinary picture is shown at its place on the time line.             *)
Picture ==
  /\ live
  /\ coded' \in Int
  /\ Identifiable(coded')
  /\ shown' = coded' + shift
  /\ anchor' \in {coded', anchor}
  /\ UNCHANGED <<live, shift>>

(* A picture that transmits its whole order count is shown there.  If it   *)
(* is an anchor, it also ends the displacement.                            *)
Stated ==
  /\ live' = TRUE
  /\ coded' \in Int
  /\ shown' = coded'
  /\ \/ anchor' = coded' /\ shift' = 0
     \/ live /\ UNCHANGED <<anchor, shift>>

Stop ==
  /\ live' = FALSE
  /\ coded' = 0 /\ anchor' = 0 /\ shift' = 0 /\ shown' = 0

Next == Join \/ Refresh \/ Picture \/ Stated \/ Stop

Spec == Init /\ [][Next]_vars
=============================================================================
