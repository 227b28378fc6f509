-------------------------- MODULE SyntaxElements --------------------------
(* The vocabulary in which a parser and the syntax tables of its standard  *)
(* are compared.  Both are sequences of tokens <<kind, name, n>>: an       *)
(* element of the bitstream ("u" with its width, "ue", "se"), a value the  *)
(* structure holds once it has been read, present or inferred ("is"), or   *)
(* a parser's refusal ("refuse").                                          *)
EXTENDS Integers, SequencesExt

(* read_bits(), read_bit(), read_ue() and read_se() of the readers; a field *)
(* of width zero takes no bits, so it leaves no token.                      *)
U(width, name) == IF width = 0 THEN << >> ELSE << <<"u", name, width>> >>
Flag(name) == U(1, name)
Ue(name) == << <<"ue", name, 0>> >>
Se(name) == << <<"se", name, 0>> >>

(* byte_align(): the bits up to the next byte boundary, as one element. *)
Align == << <<"u", "alignment", 0>> >>

(* A field of the structure holds this value from here on. *)
Is(name, value) == << <<"is", name, value>> >>

(* Syntax that is there only if a condition holds, and a loop over it. *)
When(condition, syntax) == IF condition THEN syntax ELSE << >>
Loop(count, Body(_)) == FlattenSeq([i \in 1 .. count |-> Body(i)])

(* A run of elements of one kind, and one element for each of 1 .. count. *)
Each(Kind(_), names) == FlattenSeq([i \in DOMAIN names |-> Kind(names[i])])
Times(count, syntax) == Loop(count, LAMBDA i : syntax)

(* The parser throws unless the condition holds. *)
Require(condition, name) == When(~condition, << <<"refuse", name, 0>> >>)

Elements(tokens) == SelectSeq(tokens, LAMBDA t : t[1] \in {"u", "ue", "se"})
Values(tokens) == SelectSeq(tokens, LAMBDA t : t[1] = "is")
Refusals(tokens) == SelectSeq(tokens, LAMBDA t : t[1] = "refuse")

(* ceil_log2(): the bits of value - 1. *)
CeilLog2(value) ==
  LET bits[n \in 0 .. value] == IF n = 0 THEN 0 ELSE 1 + bits[n \div 2]
  IN  IF value <= 1 THEN 0 ELSE bits[value - 1]

(* The standard's Ceil(Log2(x)): the shortest code for x values. *)
CodeLength(values) == CHOOSE k \in 0 .. values :
                        /\ 2 ^ k >= values
                        /\ \A j \in 0 .. k - 1 : 2 ^ j < values
============================================================================
