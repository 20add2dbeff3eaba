----------------------------- MODULE KqueueUser -----------------------------
(***************************************************************************)
(* What the kqueue of an OsQueue reports besides handles: the wakes of an  *)
(* Awakener (src/sys/unix/awakener.rs, module kqueue), by a user filter    *)
(* that threads trigger through duplicates of the kqueue, and the signals  *)
(* of Signals (src/sys/unix/signals.rs, module kqueue), each of which is a *)
(* kqueue of its own, registered with the first one, level triggered.      *)
(*                                                                         *)
(* External, from how the code uses it: kevent() takes the active knotes   *)
(* in the order in which they became active, drops one that has nothing to *)
(* report, and puts one without EV_CLEAR back at the end; EV_ADD for a     *)
(* knote that is there keeps its EV_CLEAR; a kqueue is readable while it   *)
(* has active knotes; a signal sent to the process activates its knotes in *)
(* all kqueues, blocked or not, and ends the process if there is a thread  *)
(* that does not block it; a new thread inherits the mask of the one that  *)
(* starts it; what kevent() returns of a signal is cleared.                *)
(***************************************************************************)
EXTENDS Integers, Sequences, FiniteSets, Functions

CONSTANTS
    None,       \* no knote
    Threads,    \* the threads of the process, each of which may hold a copy of
                \* the awakener
    Main,       \* the one it starts with, which has the OsQueue
    MaxWakes,   \* bound on the number of calls of wake
    Instances,  \* the Signals the application creates
    Sets,       \* the SignalSets it creates them with
    MaxSent     \* bound on the number of signals sent

Signal == {"Interrupt", "Quit", "Terminate"}

\* Signals::new asserts that its SignalSet is not empty.
ASSUME KqueueUserAssumption ==
    /\ Main \in Threads
    /\ Sets \subseteq (SUBSET Signal) \ {{}}
    /\ MaxWakes \in Nat /\ MaxSent \in Nat
    /\ IsFiniteSet(Instances) /\ "user" \notin Instances
    /\ \A flags \in SUBSET {"clear", "triggered"} : None # flags

VARIABLES
    active,    \* the active knotes of the OsQueue's kqueue: "user", or a Signals
    user,      \* the knote of the user filter: its flags
    copies,    \* the threads whose copy of the awakener is alive
    wakes,     \* number of calls of wake so far
    owed,      \* history: a wake the poller has not got an event for
    events,    \* number of awakener events the poller got
    stage,     \* how far Signals::new of an instance has got, or its end
    set,       \* the SignalSet of an instance
    raised,    \* the active knotes of its kqueue
    todo,      \* instances whose event the application has not handled
    running,   \* the threads that have been started
    mask,      \* the signals each thread blocks
    alive,     \* no signal has ended the process
    sent,      \* number of signals sent
    due        \* history: the signals an instance was sent while it was open and
               \* did not receive yet

wakeVars   == <<user, copies, wakes, owed, events>>
newVars    == <<stage, set>>
threadVars == <<running, mask>>
signalVars == <<newVars, raised, todo, threadVars, alive, sent, due>>
vars == <<active, wakeVars, signalVars>>

Init ==
    /\ active = <<>>
    /\ user = None /\ copies = {} /\ wakes = 0 /\ owed = FALSE /\ events = 0
    /\ stage = [i \in Instances |-> "none"] /\ set = [i \in Instances |-> {}]
    /\ raised = [i \in Instances |-> {}] /\ todo = {}
    /\ running = {Main} /\ mask = [t \in Threads |-> {}] /\ alive = TRUE
    /\ sent = 0 /\ due = [i \in Instances |-> {}]

Active(k) == k \in Range(active)

Activate(k) == IF Active(k) THEN active ELSE Append(active, k)

\* The queue without a knote that is active at most once.
Deactivate(k) ==
    LET j == CHOOSE j \in DOMAIN active : active[j] = k
    IN  IF ~Active(k) THEN active
        ELSE [n \in 1..(Len(active) - 1) |-> IF n < j THEN active[n] ELSE active[n + 1]]

-----------------------------------------------------------------------------
(* The awakener.                                                           *)

\* Fault: EV_CLEAR is left out.
FaultySetupLevel == {}

\* Selector::setup_awakener, the knote it adds.
SetupAwakener == {"clear"}

\* Awakener::new: the kqueue is duplicated and the filter added.  When a call
\* fails the duplicate is closed and nothing has changed.
New(t) ==
    /\ alive /\ user = None /\ t \in running
    /\ user' = SetupAwakener /\ copies' = {t}
    /\ UNCHANGED <<active, wakes, owed, events, signalVars>>

\* Awakener::try_clone and Selector::try_clone: the kqueue is duplicated.
TryClone(t) ==
    /\ alive /\ copies # {} /\ t \in running \ copies
    /\ copies' = copies \cup {t}
    /\ UNCHANGED <<active, user, wakes, owed, events, signalVars>>

\* A copy is dropped, and its duplicate closed.  The filter stays, it belongs to
\* the kqueue.
DropCopy(t) ==
    /\ alive /\ t \in copies
    /\ copies' = copies \ {t}
    /\ UNCHANGED <<active, user, wakes, owed, events, signalVars>>

\* Fault: NOTE_TRIGGER is left out.
FaultyWake(t) ==
    /\ alive /\ t \in copies
    /\ wakes < MaxWakes /\ wakes' = wakes + 1
    /\ owed' = TRUE
    /\ UNCHANGED <<active, user, copies, events, signalVars>>

\* Awakener::wake and Selector::wake: one call of kevent() adds the filter, which
\* is there, and triggers it.  EINTR counts as success.
Wake(t) ==
    /\ alive /\ t \in copies
    /\ wakes < MaxWakes /\ wakes' = wakes + 1
    /\ user' = user \cup {"triggered"}
    /\ active' = Activate("user")
    /\ owed' = TRUE
    /\ UNCHANGED <<copies, events, signalVars>>

\* A poll gets to the user filter.
PollUser ==
    /\ alive /\ active # <<>> /\ Head(active) = "user" /\ "triggered" \in user
    /\ events' = events + 1 /\ owed' = FALSE
    /\ IF "clear" \in user
       THEN user' = user \ {"triggered"} /\ active' = Tail(active)
       ELSE user' = user /\ active' = Append(Tail(active), "user")
    /\ UNCHANGED <<copies, wakes, signalVars>>

-----------------------------------------------------------------------------
(* Signals.                                                                *)

\* Selector::new for the Signals' own kqueue.
Create(i, signals) ==
    /\ alive /\ stage[i] = "none"
    /\ stage' = [stage EXCEPT ![i] = "created"]
    /\ set' = [set EXCEPT ![i] = signals]
    /\ UNCHANGED <<active, wakeVars, raised, todo, threadVars, alive, sent, due>>

\* Selector::register_signals: the knotes of the set are added to it.
RegisterSignals(i) ==
    /\ alive /\ stage[i] = "created"
    /\ stage' = [stage EXCEPT ![i] = "signals"]
    /\ UNCHANGED <<active, wakeVars, set, raised, todo, threadVars, alive, sent, due>>

\* Selector::register of the kqueue with that of the OsQueue.
Register(i) ==
    /\ alive /\ stage[i] = "signals"
    /\ stage' = [stage EXCEPT ![i] = "registered"]
    /\ active' = IF raised[i] # {} THEN Activate(i) ELSE active
    /\ UNCHANGED <<wakeVars, set, raised, todo, threadVars, alive, sent, due>>

\* block_signals, in the thread that has the OsQueue; other threads that run
\* already keep their masks.
Block(i) ==
    /\ alive /\ stage[i] = "registered"
    /\ stage' = [stage EXCEPT ![i] = "open"]
    /\ mask' = [mask EXCEPT ![Main] = @ \cup set[i]]
    /\ UNCHANGED <<active, wakeVars, set, raised, todo, running, alive, sent, due>>

\* Fault: the kqueue is not closed.
FaultyCloseKqueue(i, end) ==
    /\ stage' = [stage EXCEPT ![i] = end]
    /\ due' = [due EXCEPT ![i] = {}]
    /\ UNCHANGED <<active, wakeVars, set, raised, todo, threadVars, alive, sent>>

\* The kqueue of a Signals is closed: its knotes go, and its registration.
CloseKqueue(i, end) ==
    /\ stage' = [stage EXCEPT ![i] = end]
    /\ raised' = [raised EXCEPT ![i] = {}] /\ due' = [due EXCEPT ![i] = {}]
    /\ active' = Deactivate(i)
    /\ UNCHANGED <<wakeVars, set, todo, threadVars, alive, sent>>

\* A step of new fails; the kqueue is dropped.
NewFails(i) == alive /\ stage[i] \in {"created", "signals", "registered"} /\ CloseKqueue(i, "failed")

\* A Signals is dropped.  Its signals stay blocked.
Drop(i) == alive /\ stage[i] = "open" /\ CloseKqueue(i, "dropped")

\* A thread starts another one, before, during or after any Signals::new.
Spawn(t, u) ==
    /\ alive /\ t \in running /\ u \notin running
    /\ running' = running \cup {u}
    /\ mask' = [mask EXCEPT ![u] = mask[t]]
    /\ UNCHANGED <<active, wakeVars, newVars, raised, todo, alive, sent, due>>

\* The sequences that have each element of a set once.
Orders(S) == {order \in [1..Cardinality(S) -> S] : IsInjective(order) /\ Range(order) = S}

\* A signal is sent to the process.  Which of the kqueues becomes active first is
\* the kernel's choice.
Send(s) ==
    LET hit == {i \in Instances : s \in set[i] /\ stage[i] \in {"signals", "registered", "open"}}
        isOpen(i) == s \in set[i] /\ stage[i] = "open"
        woken == {i \in hit : stage[i] # "signals" /\ ~Active(i)}
    IN  /\ alive /\ sent < MaxSent /\ sent' = sent + 1
        /\ alive' = (\A t \in running : s \in mask[t])
        /\ raised' = [i \in Instances |-> IF i \in hit THEN raised[i] \cup {s} ELSE raised[i]]
        /\ due' = [i \in Instances |-> IF isOpen(i) THEN due[i] \cup {s} ELSE due[i]]
        /\ \E order \in Orders(woken) : active' = active \o order
        /\ UNCHANGED <<wakeVars, newVars, todo, threadVars>>

\* Fault: edge triggered.
FaultyRegisteredAs == "edge"

\* The RegisterOption of Signals::new.
RegisteredAs == "level"

\* A poll gets to the kqueue of a Signals that is readable, and returns its event.
PollSignals(i) ==
    /\ alive /\ active # <<>> /\ Head(active) = i /\ raised[i] # {}
    /\ todo' = todo \cup {i}
    /\ active' = IF RegisteredAs = "level" THEN Append(Tail(active), i) ELSE Tail(active)
    /\ UNCHANGED <<wakeVars, newVars, raised, threadVars, alive, sent, due>>

\* It finds that the kqueue is not readable any more.
PollDrops(i) ==
    /\ alive /\ active # <<>> /\ Head(active) = i /\ raised[i] = {}
    /\ active' = Tail(active)
    /\ UNCHANGED <<wakeVars, signalVars>>

\* Fault: two events are taken, and the first one is returned.
FaultyReceive(i) ==
    /\ alive /\ stage[i] = "open" /\ i \in todo
    /\ todo' = todo \ {i}
    /\ \/ \E s, t \in raised[i] :
             /\ raised' = [raised EXCEPT ![i] = @ \ {s, t}]
             /\ due' = [due EXCEPT ![i] = @ \ {s}]
       \/ raised[i] = {} /\ UNCHANGED <<raised, due>>
    /\ UNCHANGED <<active, wakeVars, newVars, threadVars, alive, sent>>

\* Signals::receive, called for an event: one signal, or None.
Receive(i) ==
    /\ alive /\ stage[i] = "open" /\ i \in todo
    /\ todo' = todo \ {i}
    /\ \/ \E s \in raised[i] :
             /\ raised' = [raised EXCEPT ![i] = @ \ {s}]
             /\ due' = [due EXCEPT ![i] = @ \ {s}]
       \/ raised[i] = {} /\ UNCHANGED <<raised, due>>
    /\ UNCHANGED <<active, wakeVars, newVars, threadVars, alive, sent>>

\* kevent() fails and receive returns the error, that of an interrupt too; or the
\* event is that of a Signals that is gone.
ReceiveNothing(i) ==
    /\ alive /\ i \in todo
    /\ todo' = todo \ {i}
    /\ UNCHANGED <<active, wakeVars, newVars, raised, threadVars, alive, sent, due>>

NewStep(i) == RegisterSignals(i) \/ Register(i) \/ Block(i) \/ NewFails(i)

PollStep == PollUser \/ \E i \in Instances : PollSignals(i) \/ PollDrops(i)

Next ==
    \/ \E t \in Threads :
          \/ New(t) \/ TryClone(t) \/ DropCopy(t) \/ Wake(t)
          \/ \E u \in Threads : Spawn(t, u)
    \/ \E i \in Instances :
          \/ \E signals \in Sets : Create(i, signals)
          \/ NewStep(i) \/ Drop(i) \/ Receive(i) \/ ReceiveNothing(i)
    \/ \E s \in Signal : Send(s)
    \/ PollStep

Spec == Init /\ [][Next]_vars

\* The application polls on, without knowing which event comes next, and calls
\* receive once for every event, which does not always fail.
Fairness == WF_vars(PollStep) /\ \A i \in Instances : SF_vars(Receive(i))

FairSpec == Spec /\ Fairness

-----------------------------------------------------------------------------
(* Properties.                                                             *)

\* The type invariant; what is active is there, once, and a knote with something
\* to report is active.  A part of NothingLeft.
TypeOK ==
    /\ active \in Seq(Instances \cup {"user"}) /\ IsInjective(active)
    /\ user \in (SUBSET {"clear", "triggered"}) \cup {None}
    /\ copies \subseteq running /\ wakes \in 0..MaxWakes /\ owed \in BOOLEAN /\ events \in Nat
    /\ stage \in [Instances -> {"none", "created", "signals", "registered", "open",
                                "failed", "dropped"}]
    /\ set \in [Instances -> SUBSET Signal] /\ raised \in [Instances -> SUBSET Signal]
    /\ todo \subseteq Instances
    /\ running \subseteq Threads /\ mask \in [Threads -> SUBSET Signal] /\ alive \in BOOLEAN
    /\ sent \in 0..MaxSent /\ due \in [Instances -> SUBSET Signal]
    /\ copies # {} \/ Active("user") => user # None
    /\ \A i \in Instances :
          stage[i] \in {"registered", "open"} /\ raised[i] # {} => Active(i)

W == INSTANCE Wakeup

\* The kqueue awakener keeps the promise of Wakeup as long as the process lives:
\* a wake is not lost behind the level triggered events of Signals, and setting
\* the awakener up wakes nobody.
ImplementsWakeup == W!Init /\ [][W!Next]_(W!wakeupVars)

\* The poller is told of a wake, unless a signal ends the process first.
WakesArrive == owed ~> (~owed \/ ~alive)

\* A Signals that was dropped, or whose new failed at any step, leaves nothing
\* behind in its kqueue or that of the OsQueue, so that no poll reports it.
NothingLeft ==
    /\ TypeOK
    /\ \A i \in Instances :
          stage[i] \in {"failed", "dropped"} => raised[i] = {} /\ ~Active(i)

\* Every open Signals has each signal it was sent until its receive returns it,
\* whatever others receive: signals are not shared out, as they are on Linux.
NoSignalLost == \A i \in Instances : due[i] \subseteq raised[i]

\* And receives it: one receive for each event is enough, and the awakener's
\* events do not keep it away.
SignalsReceived ==
    \A i \in Instances, s \in Signal : s \in due[i] ~> (s \notin due[i] \/ ~alive)
==============================================================================
