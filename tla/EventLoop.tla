------------------------------ MODULE EventLoop ------------------------------
(***************************************************************************)
(* poll (src/lib.rs) over the event sources of one thread, and the         *)
(* application around it.  A call of poll is a sequence of steps, because  *)
(* the clock moves on and the kernel makes handles ready while it runs:    *)
(*                                                                         *)
(*   pc = "idle"    the application runs: it adds and removes events,      *)
(*                  handles what the sink holds, and calls poll            *)
(*   pc = "fold"    computing the timeout, source `at` is next             *)
(*   pc = "poll"    about to poll source `at` (1 is the blocking one)      *)
(*   pc = "timers"  inside the loop of Timers::poll                        *)
(*   pc = "select"  inside epoll_wait / kevent                             *)
(*                                                                         *)
(* The sources and the sink are borrowed mutably for the whole call, so    *)
(* the application's own actions are only enabled when pc = "idle".        *)
(***************************************************************************)
EXTENDS Timers, UserQueue, OsQueue

CONSTANTS
    Sources,     \* the event_sources argument, first the blocking one
    Durations,   \* the timeouts callers pass to poll and to add_timeout
    MaxTime,     \* bound on the clock outside of a bounded wait
    MaxErrors    \* bound on the number of failing kernel calls

ASSUME EventLoopAssumption ==
    /\ Sources \in Seq(Kinds)
    /\ \A i, j \in 1..Len(Sources) : Sources[i] = Sources[j] => i = j
    /\ Durations \subseteq Nat
    /\ MaxTime \in Nat
    /\ MaxErrors \in Nat

VARIABLES
    pc,       \* where the thread is, see above
    at,       \* index of the source under way
    timeout,  \* the local variable `timeout` of poll
    result,   \* what the last call of poll returned
    errors,   \* number of kernel calls that failed so far
    began,    \* history: when the call of poll under way began
    asked,    \* history: the timeout its caller passed
    handled,  \* history: the events the application took out of the sink
    removed   \* history: the deadlines remove_deadline took out

sourceVars == <<deadlines, queue, ready>>
loopVars   == <<pc, at, timeout, result, errors>>
waitVars   == <<sampled, left, waitStart, waitEnd>>
ghostVars  == <<began, asked, handled, removed>>
vars       == <<now, serial, sink, sourceVars, loopVars, waitVars, ghostVars>>

-----------------------------------------------------------------------------
(* The application between two calls of poll, and its surroundings.  Only  *)
(* the sources that are passed to poll get events: a source it never sees  *)
(* adds nothing.                                                           *)

Uses(kind) == \E i \in DOMAIN Sources : Sources[i] = kind

Init ==
    /\ now = 0 /\ serial = 0 /\ sink = <<>>
    /\ deadlines = {} /\ queue = <<>> /\ ready = <<>>
    /\ pc = "idle" /\ at = 1 /\ timeout = None /\ result = "ok" /\ errors = 0
    /\ sampled = 0 /\ left = 0 /\ waitStart = 0 /\ waitEnd = None
    /\ began = 0 /\ asked = None /\ handled = {} /\ removed = {}

AppAddEvent ==
    /\ pc = "idle" /\ Uses("queue")
    /\ \E id \in Ids : QueueAdd(id)
    /\ UNCHANGED <<now, sink, deadlines, ready, loopVars, waitVars, ghostVars>>

AppAddDeadline ==
    /\ pc = "idle" /\ Uses("timers")
    /\ \E id \in Ids, due \in 0..MaxTime : AddDeadline(id, due)
    /\ UNCHANGED <<now, sink, queue, ready, loopVars, waitVars, ghostVars>>

AppAddTimeout ==
    /\ pc = "idle" /\ Uses("timers")
    /\ \E id \in Ids, d \in Durations : now + d <= MaxTime /\ AddTimeout(id, d)
    /\ UNCHANGED <<now, sink, queue, ready, loopVars, waitVars, ghostVars>>

AppRemoveDeadline ==
    /\ pc = "idle"
    /\ \E id \in Ids : \E d \in Removable(id) :
          RemoveDeadline(d) /\ removed' = removed \cup {d}
    /\ UNCHANGED <<now, serial, sink, queue, ready, loopVars, waitVars,
                   began, asked, handled>>

\* The application takes the oldest event out of its sink.
AppHandle ==
    /\ pc = "idle" /\ sink # <<>>
    /\ sink' = Tail(sink)
    /\ handled' = handled \cup {Head(sink)}
    /\ UNCHANGED <<now, serial, sourceVars, loopVars, waitVars,
                   began, asked, removed>>

Kernel ==
    /\ Uses("os")
    /\ \E id \in Ids : OsReady(id)
    /\ UNCHANGED <<now, sink, deadlines, queue, loopVars, waitVars, ghostVars>>

\* The clock.  It stands still at MaxTime, except that it lets a wait that
\* has an end come to it.
Tick ==
    /\ now < MaxTime \/ (pc = "select" /\ waitEnd # None /\ now < waitEnd)
    /\ now' = now + 1
    /\ UNCHANGED <<serial, sink, sourceVars, loopVars, waitVars, ghostVars>>

-----------------------------------------------------------------------------
(* One call of poll.                                                       *)

Poll(t) ==
    /\ pc = "idle"
    /\ pc' = "fold" /\ at' = 1 /\ timeout' = t
    /\ began' = now /\ asked' = t
    /\ UNCHANGED <<now, serial, sink, sourceVars, result, errors, waitVars,
                   handled, removed>>

\* A caller may pass no timeout, or one that ends before the clock's bound.
AppPoll ==
    \E t \in {None, 0} \cup {d \in Durations : now + d <= MaxTime} : Poll(t)

MaxTimeout(source) ==
    CASE source = "timers" -> TimersMaxTimeout
      [] source = "queue"  -> QueueMaxTimeout
      [] source = "os"     -> OsMaxTimeout

\* One step of the fold over the sources' max_timeouts.
FoldTimeout ==
    /\ pc = "fold" /\ at <= Len(Sources)
    /\ timeout' = MinTimeout(timeout, MaxTimeout(Sources[at]))
    /\ at' = at + 1
    /\ UNCHANGED <<now, serial, sink, sourceVars, pc, result, errors, waitVars,
                   ghostVars>>

\* The timeout is known; start with the first source.
FoldDone ==
    /\ pc = "fold" /\ at > Len(Sources)
    /\ pc' = "poll" /\ at' = 1
    /\ UNCHANGED <<now, serial, sink, sourceVars, timeout, result, errors,
                   waitVars, ghostVars>>

AtSource(kind) == pc = "poll" /\ at <= Len(Sources) /\ Sources[at] = kind

\* Go on with the source after this one.  The locals of the source's own poll
\* are dropped.
NextSource ==
    /\ pc' = "poll" /\ at' = at + 1
    /\ sampled' = 0 /\ left' = 0 /\ waitStart' = 0 /\ waitEnd' = None

\* poll returns res, and its locals are dropped.
Leave(res) ==
    /\ pc' = "idle" /\ result' = res
    /\ at' = 1 /\ timeout' = None /\ began' = 0 /\ asked' = None
    /\ sampled' = 0 /\ left' = 0 /\ waitStart' = 0 /\ waitEnd' = None

PollQueue ==
    /\ AtSource("queue")
    /\ QueuePoll
    /\ NextSource
    /\ UNCHANGED <<now, serial, deadlines, ready, timeout, result, errors, ghostVars>>

PollTimers ==
    /\ AtSource("timers")
    /\ TimersStart
    /\ pc' = "timers"
    /\ UNCHANGED <<now, serial, sink, sourceVars, at, timeout, result, errors,
                   waitStart, waitEnd, ghostVars>>

PopTimer ==
    /\ pc = "timers"
    /\ \E d \in deadlines : TimersPop(d)
    /\ UNCHANGED <<now, serial, queue, ready, loopVars, sampled, waitStart,
                   waitEnd, ghostVars>>

TimersDone ==
    /\ pc = "timers" /\ TimersFinished
    /\ NextSource
    /\ UNCHANGED <<now, serial, sink, sourceVars, timeout, result, errors, ghostVars>>

\* select returns at once when it has no room to offer.
SelectFull ==
    /\ AtSource("os") /\ SelectRoom = 0
    /\ NextSource
    /\ UNCHANGED <<now, serial, sink, sourceVars, timeout, result, errors, ghostVars>>

\* The first source gets blocking_poll with the timeout, the others poll,
\* which is a blocking_poll with timeout 0.
Select ==
    /\ AtSource("os")
    /\ SelectStart(IF at = 1 THEN timeout ELSE 0)
    /\ pc' = "select"
    /\ UNCHANGED <<now, serial, sink, sourceVars, at, timeout, result, errors,
                   sampled, left, ghostVars>>

SelectReturns ==
    /\ pc = "select" /\ SelectEvents
    /\ NextSource
    /\ UNCHANGED <<now, serial, deadlines, queue, timeout, result, errors, ghostVars>>

SelectTimedOut ==
    /\ pc = "select" /\ SelectExpired
    /\ NextSource
    /\ UNCHANGED <<now, serial, sink, sourceVars, timeout, result, errors, ghostVars>>

\* The kernel call fails, EINTR for example, and poll returns the error
\* without polling the sources after this one.
SelectFails ==
    /\ pc = "select" /\ errors < MaxErrors
    /\ errors' = errors + 1
    /\ Leave("err")
    /\ UNCHANGED <<now, serial, sink, sourceVars, handled, removed>>

Return ==
    /\ pc = "poll" /\ at > Len(Sources)
    /\ Leave("ok")
    /\ UNCHANGED <<now, serial, sink, sourceVars, errors, handled, removed>>

App == AppAddEvent \/ AppAddDeadline \/ AppAddTimeout \/ AppRemoveDeadline \/ AppHandle

PollStep ==
    \/ FoldTimeout \/ FoldDone
    \/ PollQueue \/ PollTimers \/ PopTimer \/ TimersDone
    \/ SelectFull \/ Select \/ SelectReturns \/ SelectTimedOut
    \/ Return

Next == App \/ AppPoll \/ PollStep \/ SelectFails \/ Kernel \/ Tick

Spec == Init /\ [][Next]_vars

\* What the liveness properties assume.  poll runs on, the kernel ends a wait
\* that is over and time passes; and the application is an event loop: it
\* polls again and again, and does not leave its events in the sink forever.
Fairness ==
    /\ WF_vars(PollStep)
    /\ WF_vars(Tick)
    /\ WF_vars(AppPoll)
    /\ SF_vars(AppHandle)

FairSpec == Spec /\ Fairness

-----------------------------------------------------------------------------
(* Properties.                                                             *)

\* The items of one source; only timers have a deadline.
ItemOf(kind) == {i \in Item : i.src = kind /\ (kind # "timers" => i.due = 0)}

\* The type invariant: every list holds items of its own source, and the
\* selector and the timers are only under way at their place in Sources.
TypeOK ==
    /\ now \in Nat /\ serial \in Nat
    /\ sink \in Seq(Item) /\ handled \subseteq Item
    /\ deadlines \subseteq ItemOf("timers") /\ IsFiniteSet(deadlines)
    /\ removed \subseteq ItemOf("timers")
    /\ queue \in Seq(ItemOf("queue")) /\ ready \in Seq(ItemOf("os"))
    /\ pc \in {"idle", "fold", "poll", "timers", "select"}
    /\ at \in 1..(Len(Sources) + 1) /\ timeout \in Timeout
    /\ pc = "timers" => at <= Len(Sources) /\ Sources[at] = "timers"
    /\ pc = "select" => at <= Len(Sources) /\ Sources[at] = "os"
    /\ result \in {"ok", "err"} /\ errors \in 0..MaxErrors
    /\ sampled \in Nat /\ left \in Nat /\ waitStart \in Nat /\ waitEnd \in Timeout
    /\ began \in Nat /\ asked \in Timeout

\* The sink never holds more events than its capacity, although several
\* sources fill it in turn, each from a capacity_left it read beforehand
\* (Timers::poll reads it once for a whole loop).
SinkBounded == Capacity = Growable \/ Len(sink) <= Capacity

\* Inside the loop of Timers::poll the iterations left fit into the sink.
LoopFits == pc = "timers" /\ Capacity # Growable => Len(sink) + left <= Capacity

Waiting == deadlines \cup Range(queue) \cup Range(ready)

Everything == Waiting \cup Range(sink) \cup handled \cup removed

\* Nothing is lost: every event a source accepted is still with its source,
\* in the sink, handled, or a deadline that was removed; also when the sink
\* is full and when poll returns an error halfway.
NothingLost == {i.n : i \in Everything} = 1..serial

\* Nothing is delivered twice, and a removed deadline is never delivered:
\* each event is in one place, once.
NothingTwice ==
    /\ \A i, j \in Everything : i.n = j.n => i = j
    /\ IsInjective(queue) /\ IsInjective(ready) /\ IsInjective(sink)
    /\ Waiting \cap (Range(sink) \cup handled \cup removed) = {}
    /\ Range(sink) \cap (handled \cup removed) = {}
    /\ handled \cap removed = {}

Delivered == Range(sink) \cup handled

\* A timer event is never delivered before its deadline.
TimersNotEarly == \A i \in Delivered : i.src = "timers" => i.due <= now

\* A deadline is not overtaken by one that was added after it and comes after
\* it in the order of the heap, by deadline and then by id: whatever the capacity
\* and however many polls it takes.  (Of two with the same deadline the one with
\* the smaller id comes first, also when it was added later.)
TimersInOrder ==
    \A i \in Delivered, d \in deadlines :
        i.src = "timers" /\ d.n < i.n => ~(Earlier(d, i) /\ ~Earlier(i, d))

\* Events of the user space queue come out in the order they were added.
QueueInOrder ==
    LET Mine(S) == {i \in S : i.src = "queue"}
    IN  /\ \A i \in Mine(Delivered), j \in Range(queue) : i.n < j.n
        /\ \A i \in Mine(handled), j \in Mine(Range(sink)) : i.n < j.n
        /\ \A k, l \in DOMAIN sink :
              k < l /\ sink[k].src = "queue" /\ sink[l].src = "queue"
                 => sink[k].n < sink[l].n

\* A wait never outlasts what it waits for.  The timeout is computed before
\* the kernel call that uses it, and the clock runs in between: a wait ends
\* no later than the earliest deadline plus that delay, does not wait at all
\* while the queue holds events, and takes no longer than the caller asked.
NoOversleep ==
    pc = "select" =>
        /\ asked # None => waitEnd # None /\ waitEnd <= waitStart + asked
        /\ Uses("queue") /\ queue # <<>> => waitEnd = waitStart
        /\ Uses("timers") =>
             \A d \in deadlines :
                /\ waitEnd # None
                /\ \/ waitEnd = waitStart
                   \/ waitEnd <= d.due + (waitStart - began)

\* The sources' timeouts the fold has taken into account already.
Folded(kind) ==
    IF pc = "fold" THEN \E i \in 1..(at - 1) : Sources[i] = kind
    ELSE pc # "idle" /\ Uses(kind)

\* Why NoOversleep holds: the timeout respects what has been folded, measured
\* from the beginning of the call.
TimeoutSound ==
    pc # "idle" =>
        /\ began <= now
        /\ asked # None => timeout # None /\ timeout <= asked
        /\ Folded("queue") /\ queue # <<>> => timeout = 0
        /\ Folded("timers") =>
             \A d \in deadlines :
                timeout # None /\ (timeout = 0 \/ began + timeout <= d.due)

SinkHasRoom == Capacity = Growable \/ Len(sink) < Capacity

\* When poll returns Ok and there is room left in the sink, every source was
\* polled to the end: no event is left in the queue and no deadline that had
\* passed when poll was called.
OkPolledAll ==
    [][ /\ pc # "idle" /\ pc' = "idle" /\ result' = "ok"
        /\ SinkHasRoom'
        => /\ Uses("queue") => queue' = <<>>
           /\ Uses("timers") => \A d \in deadlines' : d.due > began ]_vars

Polled(kind) ==
    /\ pc \in {"poll", "timers", "select"}
    /\ \E i \in 1..(at - 1) : Sources[i] = kind

\* Why OkPolledAll holds: a source that has been polled left nothing behind
\* unless it filled the sink.
PolledClean ==
    /\ pc # "idle" => began <= now
    /\ pc = "timers" =>
         /\ began <= sampled
         /\ \/ left = Cardinality(deadlines)
            \/ Capacity # Growable /\ Len(sink) + left = Capacity
    /\ Polled("queue") /\ SinkHasRoom => queue = <<>>
    /\ Polled("timers") /\ SinkHasRoom => \A d \in deadlines : d.due > began

\* The timeout is rounded up to the granularity of the system clock, so that
\* a wait does not end before the timeout (src/os/mod.rs, "Timeouts").
TimeoutRoundedUp ==
    pc = "select" /\ at = 1 /\ timeout # None => waitEnd >= waitStart + timeout

\* An expired deadline is delivered (or removed) in the end.
TimersFire ==
    \A n \in 1..MaxItems :
        (\E d \in deadlines : d.n = n /\ d.due <= now)
            ~> (\A d \in deadlines : d.n # n)

\* An event added to the queue, or reported by the kernel, reaches the sink.
EventsArrive ==
    \A n \in 1..MaxItems :
        (\E i \in Range(queue) \cup Range(ready) : i.n = n)
            ~> (\E i \in Delivered : i.n = n)

D == INSTANCE Delivery WITH
        clock <- now, pending <- Waiting, cancelled <- removed

\* Every behaviour of the event loop is one of Delivery: the step by step
\* polling of timers, queue and kernel moves accepted events to the sink
\* exactly once, when they are due, within the capacity.
ImplementsDelivery == D!Spec
==============================================================================
