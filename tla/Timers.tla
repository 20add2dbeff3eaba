------------------------------- MODULE Timers -------------------------------
(***************************************************************************)
(* The timers event source (src/timers.rs).  `deadlines` is the binary     *)
(* heap; a heap is a bag ordered by (deadline, id), and which of two equal *)
(* entries comes out first is not specified, so it is a set of items here. *)
(* Timers::poll samples the clock once and then runs a loop: `sampled` is  *)
(* that instant and `left` the number of iterations still allowed.         *)
(***************************************************************************)
EXTENDS Event

VARIABLES
    deadlines,  \* BinaryHeap<Reverse<Deadline>>
    sampled,    \* `now` of Timers::poll
    left        \* iterations of the loop of Timers::poll still to run

\* The order of the heap: by deadline, then by id (derived Ord of Deadline).
Earlier(d, e) == d.due < e.due \/ (d.due = e.due /\ d.id <= e.id)

\* Fault: a max heap, the Reverse forgotten.
FaultyIsNextLatest(d) == d \in deadlines /\ \A e \in deadlines : Earlier(e, d)

\* The entries BinaryHeap::peek and pop may yield.
IsNext(d) == d \in deadlines /\ \A e \in deadlines : Earlier(d, e)

\* Fault: a deadline that passes right now does not count.
FaultyExpiredStrict(d, instant) == d.due < instant

Expired(d, instant) == d.due <= instant

AddDeadline(id, deadline) ==
    /\ Accept
    /\ deadlines' = deadlines \cup {NewItem("timers", id, deadline)}

AddTimeout(id, timeout) == AddDeadline(id, now + timeout)

\* remove_deadline takes the first entry with this id in the heap's array,
\* which may be any of them; the others stay.
Removable(id) == {d \in deadlines : d.id = id}

RemoveDeadline(d) == deadlines' = deadlines \ {d}

\* Fault: an expired deadline does not bound the wait any more.
FaultyTimersMaxTimeoutExpired ==
    IF \E d \in deadlines : IsNext(d) /\ ~Expired(d, now)
    THEN (CHOOSE d \in deadlines : IsNext(d)).due - now
    ELSE None

\* Source::max_timeout: how long a poll may block on behalf of the timers.
TimersMaxTimeout ==
    IF deadlines = {} THEN None
    ELSE LET d == CHOOSE e \in deadlines : IsNext(e)
         IN  IF Expired(d, now) THEN 0 ELSE d.due - now

\* Fault: the clock is rounded up.
FaultyTimersStartAhead ==
    /\ sampled' = now + 1
    /\ left' = CapacityMin(CapacityLeft, Cardinality(deadlines))

\* Source::poll up to its loop: sample the clock, bound the iterations.
TimersStart ==
    /\ sampled' = now
    /\ left' = CapacityMin(CapacityLeft, Cardinality(deadlines))

\* Fault: the loop is not bounded by the capacity.
FaultyTimersPopUnbounded(d) ==
    /\ IsNext(d) /\ Expired(d, sampled)
    /\ deadlines' = deadlines \ {d}
    /\ sink' = Append(sink, d)
    /\ left' = left - 1

\* Fault: peek without pop.
FaultyTimersPopPeek(d) ==
    /\ left > 0 /\ IsNext(d) /\ Expired(d, sampled)
    /\ deadlines' = deadlines
    /\ sink' = Append(sink, d)
    /\ left' = left - 1

\* Fault: pop without looking at the deadline.
FaultyTimersPopAny(d) ==
    /\ left > 0 /\ IsNext(d)
    /\ deadlines' = deadlines \ {d}
    /\ sink' = Append(sink, d)
    /\ left' = left - 1

\* One iteration that delivers the entry d.
TimersPop(d) ==
    /\ left > 0
    /\ IsNext(d)
    /\ Expired(d, sampled)
    /\ deadlines' = deadlines \ {d}
    /\ sink' = Append(sink, d)
    /\ left' = left - 1

\* The loop ends: out of iterations, heap empty or the first entry not expired.
TimersFinished == left = 0 \/ \A d \in deadlines : IsNext(d) => ~Expired(d, sampled)
==============================================================================
