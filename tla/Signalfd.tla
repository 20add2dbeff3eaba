------------------------------ MODULE Signalfd ------------------------------
(***************************************************************************)
(* Signals of Linux (src/sys/unix/signals.rs, module signalfd): a signalfd *)
(* in an epoll instance, level triggered, and the signals of its set       *)
(* blocked in the thread that creates it.  Signals::new is three steps,    *)
(* because signals may be sent in between.                                 *)
(*                                                                         *)
(* External, from how the code uses it: a signal sent to the process is    *)
(* handled by a thread that does not block it, which ends the process, and *)
(* is pending if all threads do, once however often it is sent; a read of  *)
(* a signalfd takes one pending signal of its set; a new thread inherits   *)
(* the mask of the one that starts it.                                     *)
(***************************************************************************)
EXTENDS Naturals, FiniteSets

CONSTANTS
    Threads,      \* the threads of the process
    Main,         \* the one it starts with
    Instances,    \* the Signals the application creates
    Sets,         \* the SignalSets it creates them with
    MaxSent       \* bound on the number of signals sent

\* The variants of Signal.
Signal == {"Interrupt", "Quit", "Terminate"}

\* SignalSet is a set of bits.
SignalSet == SUBSET Signal

\* Signals::new asserts that its SignalSet is not empty.
ASSUME SignalfdAssumption ==
    /\ Main \in Threads
    /\ Sets \subseteq SignalSet \ {{}}
    /\ MaxSent \in Nat

VARIABLES
    running,     \* the threads that have been started
    mask,        \* the signals each thread blocks
    pending,     \* the signals pending for the process
    death,       \* "no", or what ended the process: a signal that some Signals
                 \* was to receive ("covered"), the same in a thread that was
                 \* missed ("missed"), or another one ("other")
    stage,       \* how far each Signals is
    caller,      \* the thread that is in Signals::new, for each of them
    set,         \* the SignalSet of each
    registered,  \* the signalfds the epoll instance has
    fresh,       \* those among them that a signal came for since last reported
    events,      \* the events poll returned that are still to be handled
    sent,        \* number of signals sent
    owed,        \* history: the signals sent to an open Signals, not received
    missed       \* history: for each thread the signals of the Signals that were
                 \* created in another thread when it, or the one that started
                 \* it, was running already

vars == <<running, mask, pending, death, stage, caller, set, registered, fresh,
          events, sent, owed, missed>>

newVars == <<stage, caller, set, registered>>

Alive == death = "no"

\* The signals some Signals is there to receive.
Covered == UNION {set[i] : i \in {j \in Instances : stage[j] = "open"}}

Readable(i) == pending \cap set[i] # {}

Init ==
    /\ running = {Main} /\ mask = [t \in Threads |-> {}]
    /\ pending = {} /\ death = "no"
    /\ stage = [i \in Instances |-> "none"]
    /\ caller = [i \in Instances |-> Main]
    /\ set = [i \in Instances |-> {}]
    /\ registered = {} /\ fresh = {} /\ events = {}
    /\ sent = 0 /\ owed = {} /\ missed = [t \in Threads |-> {}]

-----------------------------------------------------------------------------
(* Signals::new in thread t.                                               *)

\* create_sigset: the sigset_t starts empty, and each signal of the set is added.
Sigset(signals) == {s \in Signal : s \in signals}

\* The signalfd for the signals of the set.
Create(i, t, signals) ==
    /\ Alive /\ stage[i] = "none" /\ t \in running
    /\ stage' = [stage EXCEPT ![i] = "created"]
    /\ caller' = [caller EXCEPT ![i] = t]
    /\ set' = [set EXCEPT ![i] = Sigset(signals)]
    /\ UNCHANGED <<running, mask, pending, death, registered, fresh, events, sent, owed, missed>>

\* Fault: registered edge triggered.
FaultyRegisteredAs == "edge"

\* The RegisterOption of the signalfd.
RegisteredAs == "level"

\* selector.register; epoll finds out whether signals are pending already.
Register(i) ==
    /\ Alive /\ stage[i] = "created"
    /\ stage' = [stage EXCEPT ![i] = "registered"]
    /\ registered' = registered \cup {i}
    /\ fresh' = fresh \cup {j \in {i} : Readable(j)}
    /\ UNCHANGED <<running, mask, pending, death, caller, set, events, sent, owed, missed>>

\* It fails, and new returns the error; the signalfd stays open, unused.
RegisterFails(i) ==
    /\ Alive /\ stage[i] = "created"
    /\ stage' = [stage EXCEPT ![i] = "failed"]
    /\ UNCHANGED <<running, mask, pending, death, caller, set, registered, fresh,
                   events, sent, owed, missed>>

\* The threads but the one that creates i do not get to know of it.
Misses(i) ==
    [t \in Threads |->
        IF t \in running \ {caller[i]} THEN missed[t] \cup set[i] ELSE missed[t]]

\* Fault: SIG_SETMASK, the signals of other Signals are not blocked any more.
FaultyBlock(i) ==
    /\ Alive /\ stage[i] = "registered"
    /\ stage' = [stage EXCEPT ![i] = "open"]
    /\ mask' = [mask EXCEPT ![caller[i]] = set[i]]
    /\ missed' = Misses(i)
    /\ UNCHANGED <<running, pending, death, caller, set, registered, fresh, events,
                   sent, owed>>

\* block_signals, with SIG_BLOCK: what was blocked before stays blocked.  It is
\* about the calling thread: those that run already do not block the signals.
Block(i) ==
    /\ Alive /\ stage[i] = "registered"
    /\ stage' = [stage EXCEPT ![i] = "open"]
    /\ mask' = [mask EXCEPT ![caller[i]] = @ \cup set[i]]
    /\ missed' = Misses(i)
    /\ UNCHANGED <<running, pending, death, caller, set, registered, fresh, events,
                   sent, owed>>

\* It fails, and new returns the error; the signalfd stays open and registered.
BlockFails(i) ==
    /\ Alive /\ stage[i] = "registered"
    /\ stage' = [stage EXCEPT ![i] = "failed"]
    /\ UNCHANGED <<running, mask, pending, death, caller, set, registered, fresh,
                   events, sent, owed, missed>>

-----------------------------------------------------------------------------

\* A thread starts another one, before, during or after any Signals::new.
Spawn(t, u) ==
    /\ Alive /\ t \in running /\ u \notin running
    /\ running' = running \cup {u}
    /\ mask' = [mask EXCEPT ![u] = mask[t]]
    /\ missed' = [missed EXCEPT ![u] = missed[t]]
    /\ UNCHANGED <<pending, death, newVars, fresh, events, sent, owed>>

\* Thread t handles signal s, which ends the process.
Dies(t, s) ==
    death' = IF s \notin Covered THEN "other"
             ELSE IF s \in missed[t] THEN "missed" ELSE "covered"

\* A signal is sent to the process.
Send(s) ==
    /\ Alive /\ sent < MaxSent
    /\ sent' = sent + 1
    /\ IF \E t \in running : s \notin mask[t]
       THEN /\ \E t \in running : s \notin mask[t] /\ Dies(t, s)
            /\ UNCHANGED <<pending, fresh, owed>>
       ELSE /\ death' = death
            /\ pending' = pending \cup {s}
            /\ fresh' = fresh \cup {i \in registered : s \in set[i]}
            /\ owed' = owed \cup ({s} \cap Covered)
    /\ UNCHANGED <<running, mask, newVars, events, missed>>

\* A poll returns the event of a signalfd.
Poll(i) ==
    /\ Alive /\ i \in registered \ events /\ Readable(i)
    /\ RegisteredAs = "level" \/ i \in fresh
    /\ fresh' = fresh \ {i}
    /\ events' = events \cup {i}
    /\ UNCHANGED <<running, mask, pending, death, newVars, sent, owed, missed>>

\* Fault: a read into a larger buffer, of which the first signal is returned.
FaultyReceive(i) ==
    /\ Alive /\ stage[i] = "open" /\ i \in events
    /\ events' = events \ {i}
    /\ \/ \E s \in pending \cap set[i] : pending' = pending \ set[i] /\ owed' = owed \ {s}
       \/ ~Readable(i) /\ UNCHANGED <<pending, owed>>
    /\ UNCHANGED <<running, mask, death, newVars, fresh, sent, missed>>

\* Signals::receive, called for an event: one pending signal of the set, or None
\* (WouldBlock) when another Signals took it.  An interrupted read is repeated.
Receive(i) ==
    /\ Alive /\ stage[i] = "open" /\ i \in events
    /\ events' = events \ {i}
    /\ \/ \E s \in pending \cap set[i] : pending' = pending \ {s} /\ owed' = owed \ {s}
       \/ ~Readable(i) /\ UNCHANGED <<pending, owed>>
    /\ UNCHANGED <<running, mask, death, newVars, fresh, sent, missed>>

\* The read fails for another reason, and receive returns the error.
ReceiveFails(i) ==
    /\ Alive /\ stage[i] = "open" /\ i \in events
    /\ events' = events \ {i}
    /\ UNCHANGED <<running, mask, pending, death, newVars, fresh, sent, owed, missed>>

\* The application handles an event of a Signals it dropped, or could not create.
Ignore(i) ==
    /\ Alive /\ stage[i] # "open" /\ i \in events
    /\ events' = events \ {i}
    /\ UNCHANGED <<running, mask, pending, death, newVars, fresh, sent, owed, missed>>

\* A Signals is dropped: the signalfd is closed, its signals stay blocked.
Drop(i) ==
    /\ Alive /\ stage[i] = "open"
    /\ stage' = [stage EXCEPT ![i] = "dropped"]
    /\ registered' = registered \ {i} /\ fresh' = fresh \ {i}
    /\ UNCHANGED <<running, mask, pending, death, caller, set, events, sent, owed, missed>>

NewStep(i) == Register(i) \/ RegisterFails(i) \/ Block(i) \/ BlockFails(i)

Next ==
    \/ \E i \in Instances :
          \/ \E t \in Threads, signals \in Sets : Create(i, t, signals)
          \/ NewStep(i) \/ Poll(i) \/ Receive(i) \/ ReceiveFails(i) \/ Ignore(i) \/ Drop(i)
    \/ \E t, u \in Threads : Spawn(t, u)
    \/ \E s \in Signal : Send(s)

Spec == Init /\ [][Next]_vars

\* The application polls on, and calls receive once for every event, which does
\* not always fail.
Fairness == \A i \in Instances : WF_vars(Poll(i)) /\ SF_vars(Receive(i))

FairSpec == Spec /\ Fairness

-----------------------------------------------------------------------------
(* Properties.                                                             *)

\* The type invariant; signals are among those Signal names, and epoll has the
\* signalfd of a Signals from its registration on.  A part of NoSignalLost.
TypeOK ==
    /\ Main \in running /\ running \subseteq Threads
    /\ mask \in [Threads -> SUBSET Signal] /\ pending \subseteq Signal
    /\ death \in {"no", "covered", "missed", "other"}
    /\ missed \in [Threads -> SUBSET Signal]
    /\ stage \in [Instances -> {"none", "created", "registered", "open", "failed", "dropped"}]
    /\ caller \in [Instances -> Threads] /\ set \in [Instances -> SignalSet]
    /\ registered \subseteq Instances /\ fresh \subseteq registered /\ events \subseteq Instances
    /\ sent \in 0..MaxSent /\ owed \subseteq Signal
    /\ \A i \in Instances : stage[i] \in {"registered", "open"} => i \in registered

\* The program is not interrupted by a signal some Signals is there to receive,
\* whatever threads it starts and whatever Signals it creates and drops, except in
\* a thread that was running already when that Signals was created, or was started
\* by such a thread.
NotInterrupted == death # "covered"

\* No signal is lost: one that was sent to an open Signals stays pending until a
\* receive returns it, also when other signals are received in the meantime, by
\* this or by another Signals.
NoSignalLost == TypeOK /\ owed \subseteq pending

\* A signal that was sent to an open Signals is received, unless the Signals is
\* dropped or the process ends: one receive for each event is enough.
SignalsReceived ==
    \A i \in Instances, s \in Signal :
        s \in owed /\ s \in set[i] /\ stage[i] = "open"
            ~> s \notin owed \/ stage[i] # "open" \/ ~Alive
==============================================================================
