----------------------------- MODULE MCOutbound -----------------------------
(* Proactive messages on small instances: one message with a key, one without. *)
EXTENDS Outbound

CONSTANTS r1, r2, m1, m2
=============================================================================
