---------------------------- MODULE MCReschedule ----------------------------
(* Reschedule on small instances; days, hours, appointments and intentUuids are *)
(* interchangeable.                                                            *)
EXTENDS Reschedule, TLC

Symmetry == Permutations(Appts) \cup Permutations(Dates) \cup Permutations(Times)
              \cup Permutations(Keys)

=============================================================================
