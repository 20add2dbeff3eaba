-------------------------- MODULE MCEventfdAwakener --------------------------
(* Three threads for TLC. *)
EXTENDS EventfdAwakener

CONSTANTS t1, t2, t3

ThreeThreads == {t1, t2, t3}
==============================================================================
