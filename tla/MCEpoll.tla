------------------------------- MODULE MCEpoll -------------------------------
(* Instances of Epoll for TLC. *)
EXTENDS Epoll

EveryInterest == AllInterests
EveryOption   == AllOptions
==============================================================================
