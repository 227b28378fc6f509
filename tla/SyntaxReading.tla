--------------------------- MODULE SyntaxReading ---------------------------
(* Reading a structure of the bitstream, part by part.  An encoder writes  *)
(* each part with any fields the standard allows, and the parser reads the *)
(* same bits: read and wrote are the tokens of the last part on the two    *)
(* sides, carry the fields that later parts depend on.  Both sides know    *)
(* the fields of a part as long as they have read what was written, which  *)
(* is what InStep says of every part before.  A module that reads one      *)
(* codec's structures extends this one with their parts as actions.        *)
EXTENDS SyntaxElements

CONSTANT Tools  \* the coding tools that the encoder may use beside the usual ones

VARIABLES
  at,     \* the part that comes next
  read,   \* the tokens of the last part as the parser saw them
  wrote,  \* and as the encoder meant them
  carry   \* the fields that the parts to come depend on

vars == <<at, read, wrote, carry>>

Fields(c, names) == [n \in names |-> c[n]]

(* The tokens of a part are compared and forgotten before the next one. *)
Compared == read = << >> /\ wrote = << >>

Forget ==
  /\ ~Compared
  /\ read' = << >>
  /\ wrote' = << >>
  /\ UNCHANGED <<at, carry>>

(* One part: the encoder chooses its fields, both sides pass over it. *)
Part(here, there, keep, choices, Reads(_), Writes(_)) ==
  /\ at = here
  /\ Compared
  /\ \E own \in choices : LET c == own @@ carry IN
       /\ read' = Reads(c)
       /\ wrote' = Writes(c)
       /\ carry' = Fields(c, keep)
  /\ at' = there

Uses(tool) == tool \in Tools

InitAt(starts) ==
  /\ \E s \in starts : at = s.part /\ carry = s.fields
  /\ Compared

(* The parser reads the elements that were written, of their kinds and     *)
(* widths and in their order: after every part it stands at the bit where  *)
(* the next part begins.                                                   *)
InStep == Elements(read) = Elements(wrote)

(* What the structure holds after a part, read or inferred, is what was    *)
(* meant.                                                                  *)
SameMeaning == Values(read) = Values(wrote)

(* The parser refuses no structure that the standard allows. *)
Accepted == Refusals(read) = << >>
============================================================================
