----------------------------- MODULE MCSchedule -----------------------------
(* Schedule on small instances; hours and intentUuids are interchangeable,  *)
(* and one professional has no free slot.                                   *)
EXTENDS Schedule, TLC

CONSTANT Busy

MCAgenda == (Staff \ {Busy}) \X Dates \X Times

Symmetry == Permutations(Times) \cup Permutations(Keys)

=============================================================================
