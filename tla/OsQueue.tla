------------------------------- MODULE OsQueue -------------------------------
(***************************************************************************)
(* The OS backed event source (src/os/mod.rs) and the call its selector    *)
(* makes into the kernel (src/sys/unix/epoll.rs, kqueue.rs).  The kernel's *)
(* ready list is external: events appear on it at any moment and are       *)
(* handed out in order.  A call of epoll_wait or kevent is a wait with a   *)
(* start and an end; the clock and the kernel run while it lasts.          *)
(*                                                                         *)
(* Time is counted in ticks.  A selector waits in whole milliseconds of    *)
(* Granularity ticks (epoll) or in ticks (kqueue: Granularity = 1), and    *)
(* at most MaxMillis of them (epoll: 24 hours).                            *)
(***************************************************************************)
EXTENDS Event

CONSTANTS
    EventsCap,    \* EVENTS_CAP, the length of the selector's event array
    Granularity,  \* ticks per unit of the selector's timeout
    MaxMillis     \* the longest wait of one call, in those units

ASSUME OsQueueAssumption ==
    /\ EventsCap \in Nat \ {0}
    /\ Granularity \in Nat \ {0}
    /\ MaxMillis \in Nat

VARIABLES
    ready,      \* the kernel's list of ready events, first out first
    waitStart,  \* when the wait under way began
    waitEnd     \* when it times out, None if it does not

\* Another thread, a peer or the kernel makes a handle ready.
OsReady(id) ==
    /\ Accept
    /\ ready' = Append(ready, NewItem("os", id, 0))

\* OsQueue never bounds the timeout of a poll.
OsMaxTimeout == None

\* duration_to_millis: whole units, rounded down, at most MaxMillis.
DurationToMillis(duration) ==
    IF duration \div Granularity <= MaxMillis
    THEN duration \div Granularity
    ELSE MaxMillis

\* The room select offers to the kernel.
SelectRoom == CapacityMin(CapacityLeft, EventsCap)

\* The kernel call begins, with a timeout or (None) without one.
SelectStart(timeout) ==
    /\ SelectRoom > 0
    /\ waitStart' = now
    /\ waitEnd' = IF timeout = None THEN None
                  ELSE now + DurationToMillis(timeout) * Granularity

\* It returns events, as many as fit ...
SelectEvents ==
    LET n == CapacityMin(SelectRoom, Len(ready))
    IN  /\ ready # <<>>
        /\ sink' = sink \o Prefix(ready, n)
        /\ ready' = Rest(ready, n)

\* ... or nothing, once the timeout has passed.
SelectExpired == ready = <<>> /\ waitEnd # None /\ now >= waitEnd
==============================================================================
