----------------------------- MODULE MCEventLoop -----------------------------
(***************************************************************************)
(* Values for the constants of EventLoop that a configuration file cannot  *)
(* write down.                                                             *)
(***************************************************************************)
EXTENDS EventLoop

OsFirst  == <<"os", "queue", "timers">>
OsSecond == <<"queue", "os", "timers">>
==============================================================================
