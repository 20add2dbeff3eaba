------------------------------ MODULE MCKqueue ------------------------------
(* Instances of Kqueue for TLC. *)
EXTENDS Kqueue

EveryInterest == AllInterests
EveryOption   == AllOptions
SomeOptions   == {{}, {"edge"}, {"oneshot"}}
==============================================================================
