----------------------------- MODULE MCSignalfd -----------------------------
(* Instances of Signalfd for TLC: two Signals, of overlapping sets. *)
EXTENDS Signalfd

TwoSets == {{"Interrupt", "Quit"}, {"Quit"}}
==============================================================================
