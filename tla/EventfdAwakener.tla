-------------------------- MODULE EventfdAwakener --------------------------
(***************************************************************************)
(* The awakener of Linux (src/sys/unix/awakener.rs, module eventfd): an    *)
(* eventfd counter in an epoll instance, edge triggered.  Several threads  *)
(* hold copies, duplicated file descriptors of one open file, and call     *)
(* wake concurrently; a wake that would overflow the counter resets it and *)
(* tries again, so a thread may take away the count another one's wake     *)
(* left there.                                                             *)
(*                                                                         *)
(* External, from how the code uses it: a write of 1 fails with WouldBlock *)
(* when the counter is at its maximum and puts the file on epoll's ready   *)
(* list; epoll_wait takes it off the list and reports it if the counter is *)
(* not 0 then; the registration lives as long as the open file.            *)
(***************************************************************************)
EXTENDS Integers, FiniteSets

CONSTANTS
    Threads,   \* the threads that may hold a copy of the awakener
    MaxCount,  \* the largest value of the counter (2^64 - 2 in the kernel)
    MaxWakes   \* bound on the number of calls of wake

ASSUME EventfdAssumption ==
    /\ MaxCount \in Nat \ {0}
    /\ MaxWakes \in Nat

VARIABLES
    created,  \* Awakener::new was called
    copies,   \* the threads whose copy is alive
    count,    \* the eventfd counter
    listed,   \* the eventfd is on epoll's ready list
    pc,       \* where each thread is in wake
    wakes,    \* number of calls of wake so far
    owed,     \* history: a write the poller has not got an event for
    events    \* number of awakener events the poller got

vars == <<created, copies, count, listed, pc, wakes, owed, events>>

Init ==
    /\ created = FALSE /\ copies = {}
    /\ count = 0 /\ listed = FALSE
    /\ pc = [t \in Threads |-> "idle"]
    /\ wakes = 0 /\ owed = FALSE /\ events = 0

\* Awakener::new: create the eventfd and register it.
New(t) ==
    /\ ~created
    /\ created' = TRUE /\ copies' = {t}
    /\ UNCHANGED <<count, listed, pc, wakes, owed, events>>

\* Awakener::try_clone, handing the copy to thread t.
TryClone(t) ==
    /\ copies # {} /\ t \notin copies
    /\ copies' = copies \cup {t}
    /\ UNCHANGED <<created, count, listed, pc, wakes, owed, events>>

\* A copy is dropped; with the last one the open file and its registration go.
DropCopy(t) ==
    /\ t \in copies /\ pc[t] = "idle"
    /\ copies' = copies \ {t}
    /\ IF copies' = {} THEN count' = 0 /\ listed' = FALSE /\ owed' = FALSE
       ELSE UNCHANGED <<count, listed, owed>>
    /\ UNCHANGED <<created, pc, wakes, events>>

CallWake(t) ==
    /\ t \in copies /\ pc[t] = "idle" /\ wakes < MaxWakes
    /\ pc' = [pc EXCEPT ![t] = "write"]
    /\ wakes' = wakes + 1
    /\ UNCHANGED <<created, copies, count, listed, owed, events>>

\* The write of wake, or of the wake it calls after a reset ("retry").
Writes(t) == pc[t] \in {"write", "retry"}

\* Fault: the counter has no maximum.
FaultyWriteOverflow(t) ==
    /\ Writes(t)
    /\ count' = count + 1 /\ listed' = TRUE /\ owed' = TRUE
    /\ pc' = [pc EXCEPT ![t] = "idle"]
    /\ UNCHANGED <<created, copies, wakes, events>>

WriteOk(t) ==
    /\ Writes(t) /\ count < MaxCount
    /\ count' = count + 1 /\ listed' = TRUE /\ owed' = TRUE
    /\ pc' = [pc EXCEPT ![t] = "idle"]
    /\ UNCHANGED <<created, copies, wakes, events>>

WriteWouldBlock(t) ==
    /\ Writes(t) /\ count = MaxCount
    /\ pc' = [pc EXCEPT ![t] = "reset"]
    /\ UNCHANGED <<created, copies, count, listed, wakes, owed, events>>

\* Fault: the counter is reset and wake returns without writing again.
FaultyResetOnly(t) ==
    /\ pc[t] = "reset"
    /\ count' = 0
    /\ pc' = [pc EXCEPT ![t] = "idle"]
    /\ UNCHANGED <<created, copies, listed, wakes, owed, events>>

\* Fault: reset does not read the counter.
FaultyResetNothing(t) ==
    /\ pc[t] = "reset"
    /\ pc' = [pc EXCEPT ![t] = "retry"]
    /\ UNCHANGED <<created, copies, count, listed, wakes, owed, events>>

\* reset: read the counter, which sets it to 0; if it is 0 already the read
\* would block, which is ignored.  Then wake is called again.
Reset(t) ==
    /\ pc[t] = "reset"
    /\ count' = 0
    /\ pc' = [pc EXCEPT ![t] = "retry"]
    /\ UNCHANGED <<created, copies, listed, wakes, owed, events>>

\* Fault: registered level triggered, the eventfd is reported again and again.
FaultyEpollWaitLevel ==
    /\ listed
    /\ listed' = (count > 0)
    /\ IF count > 0 THEN owed' = FALSE /\ events' = events + 1
       ELSE UNCHANGED <<owed, events>>
    /\ UNCHANGED <<created, copies, count, pc, wakes>>

\* The poller's epoll_wait looks at the ready list.
EpollWait ==
    /\ listed
    /\ listed' = FALSE
    /\ IF count > 0 THEN owed' = FALSE /\ events' = events + 1
       ELSE UNCHANGED <<owed, events>>
    /\ UNCHANGED <<created, copies, count, pc, wakes>>

WakeStep(t) == WriteOk(t) \/ WriteWouldBlock(t) \/ Reset(t)

Next ==
    \/ \E t \in Threads : New(t) \/ TryClone(t) \/ DropCopy(t) \/ CallWake(t) \/ WakeStep(t)
    \/ EpollWait

Spec == Init /\ [][Next]_vars

\* The thread that polls goes on polling, and a thread inside wake runs on.
Fairness == WF_vars(EpollWait) /\ \A t \in Threads : WF_vars(WakeStep(t))

FairSpec == Spec /\ Fairness

-----------------------------------------------------------------------------
(* Properties.                                                             *)

\* The type invariant; a thread inside wake borrows a copy that is alive.
TypeOK ==
    /\ created \in BOOLEAN /\ copies \subseteq Threads
    /\ count \in 0..MaxCount /\ listed \in BOOLEAN
    /\ pc \in [Threads -> {"idle", "write", "reset", "retry"}]
    /\ \A t \in Threads : pc[t] # "idle" => t \in copies
    /\ wakes \in 0..MaxWakes /\ owed \in BOOLEAN /\ events \in Nat

\* No wake is lost to another thread's reset: while the poller has not been
\* told of a wake, either the eventfd is listed with a count that epoll_wait
\* will see, or a thread that took the count away is about to write again.
NoLostWake ==
    owed => IF count > 0 THEN listed ELSE \E t \in Threads : pc[t] = "retry"

W == INSTANCE Wakeup

\* The eventfd awakener keeps the promise of Wakeup, that of telling the
\* poller in the end included.
ImplementsWakeup == W!Spec

\* A call of wake returns, however the other threads reset the counter.
WakeReturns == \A t \in Threads : pc[t] # "idle" ~> pc[t] = "idle"
==============================================================================
