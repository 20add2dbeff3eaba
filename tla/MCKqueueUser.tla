---------------------------- MODULE MCKqueueUser ----------------------------
(* Instances of KqueueUser for TLC. *)
EXTENDS KqueueUser

OneSet == {{"Interrupt", "Quit"}}
==============================================================================
