------------------------------ MODULE MCCancel ------------------------------
(* Cancel on small instances; the appointments, and the turns, are            *)
(* interchangeable: no property tells one from another.                       *)
EXTENDS Cancel, TLC

ApptSymmetry == Permutations(Appts) \cup Permutations(Runs)

=============================================================================
