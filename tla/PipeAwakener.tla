----------------------------- MODULE PipeAwakener -----------------------------
(***************************************************************************)
(* The awakener of NetBSD and OpenBSD (src/sys/unix/awakener.rs, module    *)
(* pipe): wake writes a byte to a pipe whose receiving end is in a kqueue, *)
(* edge triggered.  When the pipe is full, wake empties it in a loop of    *)
(* reads, other threads writing and reading in between, and tries again.   *)
(*                                                                         *)
(* External, from how the code uses it: a write fails with WouldBlock when *)
(* the pipe is full and activates the kevent of the receiving end; kevent  *)
(* reports an active kevent if the pipe is not empty then; closing the     *)
(* file descriptor a kevent was registered with deletes the kevent, also   *)
(* when duplicates of the descriptor stay open.                            *)
(***************************************************************************)
EXTENDS Integers, FiniteSets

CONSTANTS
    Threads,   \* the threads that may hold a copy of the awakener
    PipeSize,  \* how many bytes the pipe holds
    BufSize,   \* the buffer of empty, 4096 bytes
    MaxWakes,  \* bound on the number of calls of wake
    KeepFirst  \* the application drops the original Awakener last

ASSUME PipeAssumption ==
    /\ PipeSize \in Nat \ {0}
    /\ BufSize \in Nat \ {0}
    /\ MaxWakes \in Nat
    /\ KeepFirst \in BOOLEAN

VARIABLES
    first,       \* the threads that were given the original Awakener, at most one
    copies,      \* the threads whose copy is alive
    registered,  \* the receiving end is registered
    bytes,       \* number of bytes in the pipe
    active,      \* its kevent is active
    pc,          \* where each thread is in wake
    wakes,       \* number of calls of wake so far
    owed,        \* history: a write the poller has not got an event for
    events       \* number of awakener events the poller got

vars == <<first, copies, registered, bytes, active, pc, wakes, owed, events>>

Init ==
    /\ first = {} /\ copies = {} /\ registered = FALSE
    /\ bytes = 0 /\ active = FALSE
    /\ pc = [t \in Threads |-> "idle"]
    /\ wakes = 0 /\ owed = FALSE /\ events = 0

\* Awakener::new: create the pipe and register its receiving end.
New(t) ==
    /\ first = {}
    /\ first' = {t} /\ copies' = {t} /\ registered' = TRUE
    /\ UNCHANGED <<bytes, active, pc, wakes, owed, events>>

\* Awakener::try_clone: duplicates of both ends, not registered.
TryClone(t) ==
    /\ copies # {} /\ t \notin copies \cup first
    /\ copies' = copies \cup {t}
    /\ UNCHANGED <<first, registered, bytes, active, pc, wakes, owed, events>>

\* A copy is dropped and its two descriptors closed.  With the original the
\* registration goes, with the last copy the pipe.
DropCopy(t) ==
    /\ t \in copies /\ pc[t] = "idle"
    /\ KeepFirst /\ t \in first => copies = first
    /\ copies' = copies \ {t}
    /\ registered' = (registered /\ t \notin first)
    /\ active' = (active /\ t \notin first)
    /\ IF copies' = {} THEN bytes' = 0 /\ owed' = FALSE ELSE UNCHANGED <<bytes, owed>>
    /\ UNCHANGED <<first, pc, wakes, events>>

CallWake(t) ==
    /\ t \in copies /\ pc[t] = "idle" /\ wakes < MaxWakes
    /\ pc' = [pc EXCEPT ![t] = "write"]
    /\ wakes' = wakes + 1
    /\ UNCHANGED <<first, copies, registered, bytes, active, owed, events>>

\* The write of wake, or of the wake it calls after empty ("retry").  One that
\* is interrupted is made again.
Writes(t) == pc[t] \in {"write", "retry"}

\* Fault: a write to a pipe of unlimited size.
FaultyWriteUnlimited(t) ==
    /\ Writes(t)
    /\ bytes' = bytes + 1 /\ active' = registered /\ owed' = TRUE
    /\ pc' = [pc EXCEPT ![t] = "idle"]
    /\ UNCHANGED <<first, copies, registered, wakes, events>>

WriteOk(t) ==
    /\ Writes(t) /\ bytes < PipeSize
    /\ bytes' = bytes + 1 /\ active' = registered /\ owed' = TRUE
    /\ pc' = [pc EXCEPT ![t] = "idle"]
    /\ UNCHANGED <<first, copies, registered, wakes, events>>

WriteWouldBlock(t) ==
    /\ Writes(t) /\ bytes = PipeSize
    /\ pc' = [pc EXCEPT ![t] = "empty"]
    /\ UNCHANGED <<first, copies, registered, bytes, active, wakes, owed, events>>

\* One read of empty, which goes on as long as it gets something.
EmptyReads(t) ==
    /\ pc[t] = "empty" /\ bytes > 0
    /\ bytes' = IF bytes > BufSize THEN bytes - BufSize ELSE 0
    /\ UNCHANGED <<first, copies, registered, active, pc, wakes, owed, events>>

\* Fault: wake returns after emptying the pipe.
FaultyEmptyEnds(t) ==
    /\ pc[t] = "empty"
    /\ pc' = [pc EXCEPT ![t] = "idle"]
    /\ UNCHANGED <<first, copies, registered, bytes, active, wakes, owed, events>>

\* A read that finds nothing, or fails in any other way (it was interrupted, say,
\* with bytes left), ends empty, and wake is called again.
EmptyEnds(t) ==
    /\ pc[t] = "empty"
    /\ pc' = [pc EXCEPT ![t] = "retry"]
    /\ UNCHANGED <<first, copies, registered, bytes, active, wakes, owed, events>>

\* Fault: registered level triggered, the pipe is reported again and again.
FaultyKeventLevel ==
    /\ active
    /\ active' = (bytes > 0)
    /\ IF bytes > 0 THEN owed' = FALSE /\ events' = events + 1
       ELSE UNCHANGED <<owed, events>>
    /\ UNCHANGED <<first, copies, registered, bytes, pc, wakes>>

\* The poller's kevent call looks at the active kevents.
Kevent ==
    /\ active
    /\ active' = FALSE
    /\ IF bytes > 0 THEN owed' = FALSE /\ events' = events + 1
       ELSE UNCHANGED <<owed, events>>
    /\ UNCHANGED <<first, copies, registered, bytes, pc, wakes>>

WakeStep(t) == WriteOk(t) \/ WriteWouldBlock(t) \/ EmptyReads(t) \/ EmptyEnds(t)

Next ==
    \/ \E t \in Threads : New(t) \/ TryClone(t) \/ DropCopy(t) \/ CallWake(t) \/ WakeStep(t)
    \/ Kevent

Spec == Init /\ [][Next]_vars

\* The thread that polls goes on polling, and a thread inside wake runs on.
Fairness == WF_vars(Kevent) /\ \A t \in Threads : WF_vars(WakeStep(t))

FairSpec == Spec /\ Fairness

-----------------------------------------------------------------------------
(* Properties.                                                             *)

\* The type invariant; a thread inside wake borrows a copy that is alive.
TypeOK ==
    /\ first \subseteq Threads /\ copies \subseteq Threads
    /\ registered \in BOOLEAN /\ active \in BOOLEAN
    /\ bytes \in 0..PipeSize
    /\ pc \in [Threads -> {"idle", "write", "empty", "retry"}]
    /\ \A t \in Threads : pc[t] # "idle" => t \in copies
    /\ wakes \in 0..MaxWakes /\ owed \in BOOLEAN /\ events \in Nat

\* No wake is lost while a copy of the awakener is alive: until the poller has
\* been told of a wake, either the pipe's kevent is active and the pipe not
\* empty, or a thread that is emptying the pipe is going to write again.
NoLostWake ==
    owed => IF bytes > 0 THEN active ELSE \E t \in Threads : pc[t] \in {"empty", "retry"}

W == INSTANCE Wakeup

\* The pipe awakener keeps the promise of Wakeup.
ImplementsWakeup == W!Spec
==============================================================================
