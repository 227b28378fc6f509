----------------------------- MODULE UnitStream -----------------------------
(***************************************************************************)
(* What every framer of bsparser-cpp promises to the loop that drives it   *)
(* (while (framer.valid()) { use(framer.nal()); framer.next(); }): the     *)
(* units of the buffer are handed out one by one, in order, each exactly   *)
(* once, and the loop ends.  A framer gives up early only on a buffer that *)
(* is cut off, and not before it has handed out all that is whole.         *)
(*                                                                         *)
(* A unit is a span <<begin, end>> of the buffer, the end excluded.        *)
(***************************************************************************)
EXTENDS Naturals, Sequences

VARIABLES
  units,     \* the whole units of the buffer, in order
  cut,       \* the buffer ends inside a unit
  handed,    \* the spans handed out so far
  status     \* "open", "stopped" or "failed"

vars == <<units, cut, handed, status>>

Init ==
  /\ units \in Seq(Nat \X Nat)
  /\ cut \in BOOLEAN
  /\ handed = <<>>
  /\ status = "open"

AllHanded == Len(handed) = Len(units)

(* The next unit, and no other, is handed out. *)
HandOut ==
  /\ status = "open"
  /\ ~AllHanded
  /\ handed' = Append(handed, units[Len(handed) + 1])
  /\ UNCHANGED <<units, cut, status>>

(* Nothing whole is left. *)
Stop ==
  /\ status = "open"
  /\ AllHanded
  /\ status' = "stopped"
  /\ UNCHANGED <<units, cut, handed>>

(* The rest is reported as broken: only where the buffer really is. *)
Fail ==
  /\ status = "open"
  /\ AllHanded
  /\ cut
  /\ status' = "failed"
  /\ UNCHANGED <<units, cut, handed>>

Next == HandOut \/ Stop \/ Fail

Spec == Init /\ [][Next]_vars /\ WF_vars(Next)
=============================================================================
