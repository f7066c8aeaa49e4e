----------------------------- MODULE MCPregraph -----------------------------
(* Pregraph on small instances; messages and turns are interchangeable.     *)
EXTENDS Pregraph, TLC

TurnSymmetry == Permutations(Turns) \cup Permutations(Messages)

=============================================================================
