# Gaea in TLA+

Gaea is a library for readiness based event loops: an application registers
handles with an OS backed queue, adds events and timers to user space sources,
and calls `poll`, which blocks in the kernel for as long as no source has
anything to say and then collects the events of all sources in the caller's
sink. This directory holds TLA+ modules that model the library, TLC
configurations that check them on small instances, and TLAPS proofs for every
value of the constants.

Paths below are relative to the crate (`src/src/` from the top of this
tree).

## 1. Inventory

| Component | Source | State it keeps | Operations |
|---|---|---|---|
| events, sinks, capacity | `event.rs` | the sink: events, capacity | `Sink::extend`, `capacity_left`, `Capacity::min`, `Event::new` |
| poll | `lib.rs` | locals: timeout, the source under way | `poll` |
| Timers | `timers.rs` | a heap of deadlines | `add_deadline`, `add_timeout`, `remove_deadline`, `max_timeout`, `poll` |
| Queue | `user_space.rs` | a vector of events | `add`, `max_timeout`, `poll` |
| OsQueue | `os/mod.rs` | a selector | `register`, `reregister`, `deregister`, `poll`, `blocking_poll` |
| Evented, Interests, RegisterOption | `os/evented.rs`, `interests.rs`, `option.rs`, `sys/unix/eventedfd.rs` | - | arguments of the registrations |
| epoll selector | `sys/unix/epoll.rs` | interest and ready list, in the kernel | `register`, `reregister`, `deregister`, `select` |
| kqueue selector | `sys/unix/kqueue.rs` | knotes, in the kernel | the same, and `setup_awakener`, `wake`, `try_clone`, `register_signals` |
| Awakener: eventfd, pipe, kqueue | `os/awakener.rs`, `sys/unix/awakener.rs` | a counter, a pipe, a user knote | `new`, `try_clone`, `wake`, drop |
| Signals: signalfd, kqueue | `os/signals.rs`, `sys/unix/signals.rs` | a descriptor; signal masks and pending signals in the kernel | `new`, `receive`, drop |
| pipe | `sys/unix/pipe.rs` | two descriptors | `new_pipe`, read, write, registrations, raw descriptors, drop |
| TCP | `net/tcp.rs`, `sys/unix/tcp.rs` | a descriptor | `connect`, `bind`, `try_clone`, `accept`, read, write, `peek`, `shutdown`, `take_error`, registrations, raw descriptors, drop |
| UDP | `net/udp.rs`, `sys/unix/udp.rs` | a descriptor | `bind`, `connect`, the sends, receives and peeks, `take_error`, registrations, raw descriptors, drop |

How they interact. `poll` asks every source for its `max_timeout`, folds the
answers into the caller's timeout, calls `blocking_poll` of the first source and
`poll` of the others, all of which write into one sink and read how much of it
is left. An OsQueue's `blocking_poll` is a system call during which the clock,
other threads and the peers of the handles go on. Awakeners and Signals are
descriptors registered with a selector; threads other than the polling one use
the former, and the kernel delivers the latter to the whole process.

What is hard about it. `poll` itself is sequential, but it is a chain of reads of
the clock and of the capacity that are used later; it can fail between two
sources; and a sink that is full cuts every source off. The awakeners are used
by many threads at once, and a wake that finds its counter or pipe full takes
away what the others wrote. The selectors' state lives in the kernel, changes
when an event is returned (oneshot), and, with kqueue, is changed piece by piece
by calls that can fail halfway. Signals depend on the masks of all threads. The
handles own nothing but a number: the open file, its mode, its readiness and its
registration are the kernel's, are shared by clones, and outlive or change under
the number.
`PROJECT.json` lists these hazards one by one, at their lines.

What makes each component correct:

* loop and sources: no event lost, duplicated, early, out of order or beyond the
  sink's capacity; no wait longer than any source allows; every event arrives;
* selectors: after any history of calls, a handle that is ready for what it is
  registered for is reported, with its current id, and once if it is oneshot (with
  kqueue: by the option its filter was added with);
* awakeners: a wake is followed by an event, whatever the other threads do;
* signals: a signal of the set does not get lost, and does not end the process in
  a thread that got its mask from the one that created the `Signals`;
* sockets and pipes: no call blocks, no descriptor is lost or confused with
  another, and readiness that is told once is never missed.

## 2. Modules

| Module | Models | Depends on |
|---|---|---|
| `Event` | events, the sink's capacity, timeouts | |
| `Timers`, `UserQueue`, `OsQueue` | the three event sources | `Event` |
| `EventLoop` | `poll` over the sources, the application, the clock and the kernel | the four above, `Delivery` |
| `Delivery` | abstract: what the sources and `poll` promise together | |
| `Wakeup` | abstract: what an awakener promises | |
| `EventfdAwakener`, `PipeAwakener` | the awakeners of Linux, and of BSDs without user filters | `Wakeup` |
| `KqueueUser` | the kqueue awakener and Signals with kqueue, in one kqueue | `Wakeup` |
| `Registrations` | arguments of registrations, and what their caller relies on | |
| `Epoll`, `Kqueue` | the two selectors | `Registrations` |
| `Signalfd` | Signals on Linux | |
| `Descriptors` | external: descriptor table, open files, epoll under the handles | |
| `Sockets` | TCP, UDP and pipe handles, and an application that uses them | `Descriptors` |
| `MC...` | values of constants for TLC | the module after `MC` |
| `...Proofs` | theorems | the module they are about |

Each specification holds, next to some definitions, a `Faulty...` variant: the
code as it would be with a plausible bug. They are not part of any
specification; `PROJECT.json` ("mutants") says which definition each replaces,
and which property TLC then finds violated.

### The event loop

An event is an item with a serial number (the only thing the code does not have:
events with the same id and readiness are equal there, and the number lets
properties tell them apart). `deadlines` is the heap, as a set with an order;
which of two equal entries is popped first, and which of several entries with an
id `remove_deadline` removes, is left open. `queue` is the vector, `ready` the
kernel's list, `sink` the caller's sink.

`pc` says where in `poll` the thread is. The fold over `max_timeout` takes one
step for each source, since each reads the clock itself; then each source is
polled. `Timers::poll` samples the clock once, reads the capacity once, and runs
its loop one iteration for each step. `select` is a start and an end: it returns
events, times out, or fails, which ends `poll` without the remaining sources.
`Tick` and `Kernel` can come between any two steps. The sources and the sink are
borrowed mutably by `poll`, so the application acts between two calls only.

Time is counted in ticks, with `Granularity` ticks to the unit of the selector's
timeout: more than one for epoll, whose timeouts are whole milliseconds, one for
kqueue. `MaxMillis` is the cap of 24 hours.

Assumed: `poll` is given at most one source of each kind, and a source it is not
given gets no events. A failing system call does not consume events. A sink is
a queue of the capacity `Capacity`, or a growable one.

### Awakeners

Threads hold copies and are at some point inside `wake`; writes, resets and the
reads of `empty` are steps of their own. `owed` records a write the poller has
not been told of. `Wakeup` is the abstract promise, which all three awakeners are
checked against: an event follows every wake, one may stand for several, and
there are none without a wake; only dropping the last copy may drop a wake.

`empty` of the pipe awakener ends with any error, so `EmptyEnds` may come while
there are bytes left, as after an Interrupted. Other errors than WouldBlock and
Interrupted are left out of `write`, and of the eventfd's `read`: they do not
happen on open non-blocking descriptors of these kinds with a peer that is open as
well, and each `Awakener` owns both ends. Failures of `new` and
`try_clone` leave no state an awakener has.

`PipeAwakener` has the constant `KeepFirst`: is the `Awakener` that `new`
returned dropped after all its copies? The code needs that to be so, see the
findings.

### Selectors

`Registrations` has the state a caller can reason about: the conditions that hold
on a handle, the arguments of its last successful registration (`wanted`), and
which conditions it has not been told of (`fresh`). `Epoll` and `Kqueue` add the
kernel's tables and queues, written by the selector's calls and read by its
`select`. One step of `Select` returns one event; a call that returns several is
the same as several calls with a sink for one.

In `Epoll` a call succeeds or fails as a whole. In `Kqueue` a call is up to two
changes, each of which can fail; `unsettled` holds the handles whose last call did
not leave the kernel with exactly the filters and the id its arguments ask for.
After a failure, or a `register` on top of an old registration, a handle is in it,
and the properties resume with the next `reregister` or `deregister` that returns
Ok. In particular, a `register` that returns an error may leave one filter, and its
events, behind.

Kernel behaviour is external and modelled from how the code uses it. Two
assumptions deserve a reader's attention. EV_ADD on a knote that exists gives it
the new id and leaves its EV_CLEAR and EV_ONESHOT as they are, as the BSD kernels
do; `KqueueUser` assumes the same of the user filter. `reregister` only sends EV_ADD
for the filters it keeps, so it changes their id and not their option. `inForce` is
the option of the call that made a knote, and the properties of `Kqueue` go by it:
which readiness is owed, and what fires once. They do not hold of the option that
was given last, see section 5. An EINTR from the `kevent` call of a registration is
assumed to come after all changes were made, as the comment in `kevent_register`
says.

### Signals

`Signals::new` is three steps - create the signalfd, register it, block the
signals - with failures of the second and third, after which the signalfd stays
open, and after the third registered. Threads have masks and start each other at
any time, before, between and after the steps of any `new`; a started thread
inherits its parent's mask, and a signal that some thread does not block ends the
process (its default action).

`sigprocmask` blocks the signals in the calling thread only. `missed` records for
each thread the signals of the `Signals` that were created in another thread while
it, or one of those it descends from, was running, and `death` how the process
ended: by a signal that no open `Signals` was for ("other"), in a thread that had
missed it ("missed"), or else ("covered"). `NotInterrupted` says that the last does
not happen. The second does, although the documentation of `Signals` says that the
program is not interrupted (section 5).

### The rest of kqueue

`KqueueUser` is one kqueue with two kinds of guests. The awakener is a user
filter: `user` is its knote, `wake` triggers it, a poll that gets to it resets it,
since `setup_awakener` set EV_CLEAR and the EV_ADD of `wake` does not take it
back. That is assumed of the kernel, as in `Kqueue`, and is what `wake` relies on; the
model does not check it. Each `Signals` is a kqueue of its own, whose active knotes are
`raised`, and a level triggered knote in the first kqueue. `active` is the queue
of active knotes in the order in which they became active; `kevent` takes the
first, and puts a level triggered one back at the end. `Signals::new` is create,
`register_signals`, register, block, each of which can fail; dropping the kqueue
on failure or at the end takes all knotes away. Blocking changes the mask of `Main`
only, the thread that has the OsQueue; the others start at any time and inherit
theirs, and a signal that one of them does not block ends the process, which the
liveness properties except. No property says when that cannot happen: it would
repeat that of `Signalfd`, as both call `block_signals`. A signal goes to all kqueues that
ask for it, so, other than with signalfd, each `Signals` gets every signal.

### Sockets and pipes

`Descriptors` is the kernel below the handles: `table` maps numbers to open files,
which `dup` shares and whose last `close` ends them with their registrations;
`regs` and `listed` are epoll's lists, keyed by number and open file together. An
open file has its mode, its connection, the error that waits in SO_ERROR, how
much can be read and was written, and how far the end of the stream has got. How
many bytes a call moves is abstracted to one unit for each call.

`Sockets` has an action for each operation of a handle. The calls that make handles
either return one or fail; a failure after the descriptor exists leaves it open
in `connect`, `bind`, `new_pipe` and `Awakener::new`, which have only a raw number
in their hands, and closes it in `accept` and `UdpSocket::bind`, where a handle of
the standard library owns it by then. `owner` says which handle has a number.
An operation that would block ends the handling of an event, or, on a file that
is in blocking mode, sets `stuck`.

The application in `Sockets` registers edge triggered with the INTERESTS of the
type, as the documentation of `OsQueue` asks of it: for an event it repeats the
operation until it would block, and it stops writing when a write would block
until the next event. Its ids are descriptor numbers, so events can be stale:
they may reach a handle that got the number of a dropped one, or follow from the
registration of a cloned listener that is gone. `Programs` lists which handles it
makes; everything else is free.

`registered` is a history variable: the descriptors this application has registered
and not deregistered or closed since. It differs from `regs` by what a cloned
listener leaves behind. A clone that is given the number of a dropped one finds
that one's registration of the same open file, number and all: it is on epoll's
interest list without having been registered, and the edge for what is ready may
have been told before. The promise of `NothingMissed` is for handles in
`registered`; the attempt to prove it for all of `regs` is what brought this case
up. `register` fails on such a clone (EEXIST); `reregister` works, and tells.

## 3. Runs

All passing runs finish within about two minutes on two cores.

| Run | Checks | Shows |
|---|---|---|
| Poll | TypeOK, SinkBounded, NothingLost, NothingTwice, TimersNotEarly, TimersInOrder, QueueInOrder, OkPolledAll, ImplementsDelivery | queue, kernel and timers, in that order, into a sink of two with three events: every combination of full sink, failing kernel call and late readiness loses, duplicates and reorders nothing, Ok means all was polled, and the loop implements `Delivery` |
| PollWait | NoOversleep, TimersFire, EventsArrive | kernel first, a sink of one, two ticks to a unit: the wait is never longer than a source or the caller allows, and under fairness every event and timer arrives, also after a failing call |
| PollRounding | TimeoutRoundedUp | violation, see the findings |
| Eventfd | TypeOK, NoLostWake, ImplementsWakeup, WakeReturns | three threads, a counter that is full after two writes |
| Pipe | TypeOK, NoLostWake, ImplementsWakeup | three threads, a pipe of three bytes emptied by two at a time, the original dropped last |
| PipeFirstDropped | NoLostWake | violation, see the findings |
| Epoll | NothingMissed, EventsCurrent, OneshotOnce | all interests and options, two ids, all conditions: events carry the current id and nothing but the interests, apart from urgent data, which EPOLLPRI reports as readable to every handle |
| Kqueue | NothingMissed, EventsCurrent, OneshotOnce, EventsCome | all interests, changes that fail one by one, two ids, options that change under knotes which keep theirs, two filters that compete |
| KqueueOneshot | OneshotSingle | violation, see the findings |
| Signals | NotInterrupted, NoSignalLost, SignalsReceived | two Signals of overlapping sets, threads that start at any time, three signals |
| KqueueUser | NothingLeft, NoSignalLost, ImplementsWakeup, WakesArrive, SignalsReceived | two threads and two Signals in one kqueue: wakes and level triggered signals do not keep each other away, each Signals receives each signal, and a failed or dropped one leaves nothing |
| Sockets | NeverStuck, DescriptorsAccounted, DropDeregisters, NothingMissed, AllTold | a listener and its clone, a stream that connects next to an awakener, a pipe, a UDP socket, over three descriptors: stale events never block a call, failures leave only descriptors nobody waits for, and draining on edges misses nothing |

Where TypeOK is not listed it is a conjunct of the invariant that is about the
same structure: `NothingMissed` of the selectors, `NoSignalLost`, `NothingLeft` and
`DescriptorsAccounted`. That an awakener reports no wake that nobody made is part of
`ImplementsWakeup`: `Wakeup` delivers only what is owed.

Bounds. Three events are the least with which one is in the sink, one does not
fit, and one more arrives while they wait; the properties of order relate two
events, and three leave one to be in the way. A sink of one or two events is full
in most states. In `Poll` a clock that reads 0 and then 1 allows deadlines that
are past, exactly now and to come; `PollWait` needs three ticks to have timeouts
that are no whole number of units. In `Poll` the kernel comes between the other
two sources, so that a failure cuts off one of them only; in `PollWait` it comes
first and really blocks. Two failing calls are no different from one, as the
state after a failure is that of an idle loop. The awakeners need three threads
for one to fill, one to reset and one to write in between, and a maximum small
enough that six or seven calls fill it more than once. The properties of the
selectors are about one handle, whose state the calls on others do not touch;
the turns that ready handles take are the kernel's. `Kqueue` leaves out the
condition "out", which is to the write filter what "in" is to the read filter
(the write filter still fires on "eof"), and the option edge and oneshot together,
which differs from oneshot in nothing: a knote that is deleted has no state to
clear.

`KqueueUser` has two of everything: two wakes, so that one comes while the other is
queued, two signals in each set, so that one is still raised when an event is
handled, and two Signals that compete with the awakener in every order.
`Sockets` has three descriptors: a listener, its clone and an accepted stream,
whose numbers are then used again; a buffer of two units is empty, half full and
full; two units of traffic are enough to fill it, to send and close, or to
connect twice. Every property of `Sockets` relates at most two handles. A second
clone, which may inherit the registration of the first (see Sockets and pipes),
makes six times as many states: with the program `<<"bind", "try_clone",
"try_clone">>` the invariants hold as well, within the same bounds, and the run
leaves it out because the theorems cover every program.

Deadlock is checked for the selectors. Elsewhere it is not, because a bounded
number of events, wakes or signals, or a process that ended, leaves nothing to
do.

Symmetry is used for the threads of `PipeFirstDropped`, which treats all threads
alike, and in no run with a temporal property.

Fairness, assumed by the liveness properties only (the invariants of the same runs
do not depend on it):

* `PollStep`, `WakeStep`: a thread inside `poll` or `wake` runs on (the OS
  schedules it; none of the steps waits for anything but the kernel's timeout);
* `Tick`: the clock runs; `EpollWait`, `Kevent`, `WaitDrops`/`Select` of `Kqueue`, `Poll`,
  `AppPoll`, and `PollStep` and `Poll` of `KqueueUser` and `Sockets`: the
  application polls again and again, which is what an event loop is;
* `AppHandle`, strong: the application does not leave a full sink alone, and
  handling is possible only between two calls of `poll`;
* `Receive`, strong: the application calls `receive` for an event, and it does
  not fail every time;
* `Handle`: the application of `Sockets` handles an event, by calls that return.

Fairness of `Poll` in `Signalfd` is for each instance: that epoll reports the ready
descriptors in turns, so that a signalfd which a failed `new` left registered, and
which is readable as long as its signals are pending, does not keep the others from
being reported, is assumed of the kernel and not checked. `KqueueUser` and `Kqueue`
have the kernel's queue as state, and assume only that polling goes on. `WakeReturns`
is checked with at most `MaxWakes` calls of `wake`: that a thread is never outrun by
an endless stream of others is a matter of scheduling the code does nothing about.

No fairness is assumed of threads calling `wake`, of conditions, signals or
events coming up, or of registrations.

## 4. Proofs

TLAPS checks these for all values of the constants that satisfy the modules'
assumptions: any capacity, order of sources, granularity, number of threads,
handles and descriptors, any programs and any bound.

| Module | Theorem | Statement | Inductive invariant |
|---|---|---|---|
| `EventLoopProofs` | `TypeInvariant`, `SinkNeverOverflows` | `[]TypeOK`, `[]SinkBounded` | `Safe` |
| | `NothingIsLost`, `NothingComesTwice` | `[]NothingLost`, `[]NothingTwice` | `Conserved` |
| | `TimersAreNotEarly` | `[]TimersNotEarly` | `NotEarlyInv` |
| | `TimersComeInOrder` | `[]TimersInOrder` | itself, with `Safe` and `Conserved` |
| | `QueueComesInOrder` | `[]QueueInOrder` | `OrderInv` |
| | `NeverOversleeps` | `[]NoOversleep` | `WaitInv` |
| | `OkHasPolledAll` | `OkPolledAll` (action property) | `PolledClean` |
| | `EventLoopImplementsDelivery` | `D!Spec` | all of the above |
| `EventfdAwakenerProofs` | `TypeInvariant`, `NoWakeIsLost` | `[]TypeOK`, `[]NoLostWake` | `Flags /\ Values`, `NoLostWake` |
| | `EventfdRefinesWakeup` | `W!Init /\ [][W!Next]_(W!wakeupVars)` | `ListedOwed` |
| `PipeAwakenerProofs` | `TypeInvariant`, `NoWakeIsLost` | the same; the second if `KeepFirst` | with `Registered` |
| | `PipeRefinesWakeup` | `W!Init /\ [][W!Next]_(W!wakeupVars)` | `ActiveOwed` |
| `EpollProofs` | `TypeInvariant` | `[]TypeOK` | itself |
| | `NothingIsMissed`, `OneshotFiresOnce` | `[]NothingMissed`, `[]OneshotOnce` | `Agree /\ DueListed` |
| | `EventsAreCurrent` | `[]EventsCurrent` | itself, with `Agree` |
| `KqueueProofs` | the same four | the same | `MadeAs /\ Agree /\ DueActive` |
| `SignalfdProofs` | `TypeInvariant`, `NoSignalIsLost` | `[]TypeOK`, `[]NoSignalLost` | themselves |
| | `NeverInterrupted` | `[]NotInterrupted` | `AllBlock` |
| `KqueueUserProofs` | `Invariant` | `[]Inv` | `Inv` |
| | `NothingIsLeft`, `NoSignalIsLost` | `[]NothingLeft`, `[]NoSignalLost` | with `Inv` |
| | `KqueueImplementsWakeup` | `ImplementsWakeup` | `Inv` |
| `SocketsProofs` | `Invariant` | `[]Inv` | `Inv` |
| | `NoCallBlocks`, `AllAccounted`, `OnlyClonesStayRegistered`, `NothingIsMissed` | `[]NeverStuck`, `[]DescriptorsAccounted`, `[]DropDeregisters`, `[]NothingMissed` | `Inv` |

The event loop.

* `Safe` is the type invariant, `SinkBounded` and `LoopFits`. The bound of the
  sink is not inductive: inside the loop of `Timers::poll` it holds because the
  iterations that are left, fixed before the loop, still fit. Only finitely many
  deadlines make that number one, so their finiteness is part of the type, and
  that a heap that is not empty has a first entry (`NextExists`) is proved by
  taking the smallest deadline and among those the smallest id.
* `Conserved` is `NothingLost` and `NothingTwice` together: a new serial number
  is new because the old ones are exactly `1..serial`. The lemmas before it say
  what cutting, joining and appending do to sequences without repetitions.
* `NotEarlyInv` adds that the sampled clock is not ahead of the clock.
* `TimersInOrder` needs no more than `Safe` and `Conserved`: an event that is popped
  was the first of the heap, and one that is added has a number none has had. The
  order is the heap's, by deadline and then by id: of two with the same deadline the
  one with the smaller id comes first, also when it was added later.
* `OrderInv`: the queue and the sink are sorted by serial number, and what was
  handled comes before what is in the sink, which comes before what is queued.
  `QueueInOrder` speaks of neither list's inside; but a prefix moves from one to
  the other, and what is before what afterwards depends on it.
* `WaitInv` adds `TimeoutSound`: the timeout respects the sources folded so far,
  measured from the beginning of the call, since the clock moves between the
  fold and the wait.
* `PolledClean`: a source that was polled left nothing unless it filled the sink,
  and inside the loop of `Timers::poll` either all deadlines or all of the room
  are within its bound.
* For the refinement every step maps to `Accept`, `Cancel`, `Deliver`, `Handle`,
  `Tick` or a stuttering step of `Delivery`; a step that moves events does so in
  one of three ways (queue, kernel, one timer), which share the lemma
  `MoveRefines`.

The awakeners.

* For `NoLostWake` the invariant is the property itself, given the types: after
  a reset some thread is about to write. `Registered` says that the kevent of the
  pipe lasts as long as the original `Awakener`.
* For the refinement it is the other direction that matters: what the kernel lists
  is owed (`ListedOwed`), so that no event comes without a wake. With the pipe the
  kevent is also gone once the original is (`ActiveOwed`).
* For kqueue `UserKnote` ties the three together: `owed` if and only if the user
  knote is queued, if and only if it is triggered and still EV_CLEAR.

The selectors.

* `Agree`: the kernel's entry for a handle is what the last successful call asked
  for, or the entry of a oneshot registration that has had its event (disabled
  with epoll, deleted with kqueue). For kqueue this is said of each filter, with the
  option in force instead of the one that was asked for, and of handles that are not
  in `unsettled` only. `MadeAs` ties the flags of every knote, those of unsettled
  handles too, to the option in force: the next call that succeeds may find them.
* `DueListed`, `DueActive`: whatever the kernel's entry monitors and the handle has
  not been told of is on the ready list. `NothingMissed` says the same in terms of
  the interests of the caller, which is not inductive: a oneshot entry that is
  disabled keeps its interests.
* A list without repetitions is what makes an entry that was returned, or taken
  out, really gone; the lemmas `TailOnce`, `WithoutOnce` and `AppendOnce` say so.

Signals.

* With signalfd every running thread blocks the signals of every open `Signals` but
  those it has missed (`AllBlock`); a thread that is started inherits both the mask
  and what was missed, and a new `Signals` is blocked by its creator or missed.
* With kqueue `OwnKqueue` says at which stages of `new` a `Signals` can have raised
  signals or be active.

Sockets. `Inv` adds to the properties

* what the files are: the end of a listener does not come, only a stream is
  connecting, the ends of a pipe know each other (`FilesOK`, `PeersOK`);
* who owns them: what is owned is open, of its type and non-blocking, what is left
  open by a failure is not registered and holds nothing (`OwnersOK`, `LeftOK`), and
  two numbers share a file only if it is a cloned listener (`SharedOK`);
* what is told: `ReadTold` for what can be read, `WriteTold` for room after a write
  that would have blocked, both for registered handles of any owner, so that they
  survive a handle that is given away raw and taken over again.

The steps fall into a few kinds that share a lemma: the contents of one open file
change (`ContentStep`), descriptors and files are added (`GrowStep`), a number is
closed that shares its file (`DropShared`) or is the last (`DropLast`). That there
is a name for every new open file is a counting argument (`EnoughNames`).

Model-checked only:

* liveness (`TimersFire`, `EventsArrive`, `WakeReturns`, `EventsCome`,
  `SignalsReceived`, `WakesArrive`, `AllTold`), which is beyond the prover, and for
  the same reason the fairness of `Wakeup` that `ImplementsWakeup` includes for the
  eventfd and the pipe; the rest of it is proved;
* the properties of the violation runs, which do not hold.

## 5. Findings

Each is a run in which TLC violates what the documentation says.

1. `PollRounding`. Timeouts are "rounded up to the system clock granularity"
   (`os/mod.rs`, Timeouts); `duration_to_millis` rounds down, and a timeout below
   a millisecond does not wait at all.
2. `PipeFirstDropped`. Only dropping all copies of an `Awakener` drops its
   notifications (`os/awakener.rs`); with the pipe awakener dropping the one that
   `new` returned does. In the run a wake is written through it, a copy is
   made of it, and it is dropped before the poller looks: the copy is alive and the
   byte is in the pipe, but the kevent is gone, and the poller is not told.
3. `KqueueOneshot`. A oneshot handle gets "a single event" (`os/option.rs`); with
   kqueue it gets one for each of its two filters.

More differences between documentation and code are visible in the models without a
run of their own:

* "The `reregister` arguments **fully override** the previous values" (`os/mod.rs`),
  among them the option; with kqueue a filter that is registered already keeps the
  option it was added with. With `wanted[h].opt` in place of the option in force TLC
  finds `NothingMissed` violated by a handle that is registered edge triggered,
  reregistered level triggered, and told once of data that it leaves unread, and
  `OneshotOnce` by one that is registered level triggered and reregistered oneshot.
* Programs are not interrupted by the signals of a `Signals` (`os/signals.rs`); the
  signals are blocked in one thread only, and in `Signalfd` the state
  `death = "missed"` is reachable: a thread that was running when the `Signals` was
  created takes the signal, and the process ends.
* Urgent data is reported as readable to handles that are registered for writing only
  (`to_epoll_events` always asks for EPOLLPRI; `EventsCurrent` excepts it).

And `connect`, `bind`, `new_pipe` and `Awakener::new` leave their descriptor open when a
later step fails; `DescriptorsAccounted` says what is guaranteed of such descriptors.
signalfd's `Signals::new` leaves its own open too, and registered if it was blocking
that failed; it is not part of `Sockets`, and none of the guarantees is made for it.
`Signalfd` has these signalfds and their events. The note of
`TcpListener::try_clone` says that a clone must be deregistered before it is dropped;
what follows when it is not, beyond the events the note mentions, is that a later
clone may inherit the registration (see Sockets and pipes).

## 6. Not modelled, and plan

Not modelled, and why:

* `UdpSocket::connect` and all addresses: which datagrams a connected socket drops
  is the kernel's affair, and no state of the library depends on it;
* ttl and nodelay, which are options the kernel keeps and nothing here reads;
* formatting, `Debug`, conversions of ids, and the module glue of `sys` and `net`;
* more than one `Awakener` for an `OsQueue`, which `os/awakener.rs` rules out, and
  closing an `OsQueue`, after which nothing can be asked of it;
* handles on kqueue at the level of `Sockets`: there a registration ends with its
  descriptor, so that the case of the cloned listener does not exist, and the
  filters are in `Kqueue`;
* fairness between sources: one that always fills the sink starves those after
  it, and `poll` promises nothing else.

Plan:

1. an abstract specification of readiness - a registration, what is due for it,
   and an event that tells it - which `Epoll` implements, and `Kqueue` apart from
   handles that are unsettled and the second event of oneshot;
2. the refinement of that specification as theorems, from `Agree`, `DueListed` and
   `DueActive`;
3. one home for the lemmas about taking an entry out of a list without
   repetitions, which `EpollProofs`, `KqueueProofs` and `KqueueUserProofs` each prove
   for their own lists.
