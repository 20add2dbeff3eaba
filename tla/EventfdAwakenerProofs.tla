------------------------ MODULE EventfdAwakenerProofs ------------------------
(***************************************************************************)
(* No wake of the eventfd awakener is lost and none is made up, for any    *)
(* number of threads and any maximum of the counter.                       *)
(***************************************************************************)
EXTENDS EventfdAwakener, TLAPS

\* The two halves of the type invariant, flags and the rest, strengthened so that
\* Awakener::new finds no thread inside wake.
Flags == created \in BOOLEAN /\ listed \in BOOLEAN /\ owed \in BOOLEAN

Values ==
    /\ copies \subseteq Threads /\ count \in 0..MaxCount
    /\ pc \in [Threads -> {"idle", "write", "reset", "retry"}]
    /\ \A t \in Threads : pc[t] # "idle" => t \in copies
    /\ wakes \in 0..MaxWakes /\ events \in Nat
    /\ ~created => copies = {}

\* The two halves make up the type invariant.
LEMMA TypeParts == Flags /\ Values => TypeOK
    BY Zenon DEF TypeOK, Flags, Values

\* Every action gives the flags Boolean values.
LEMMA FlagsStep == Flags /\ [Next]_vars => Flags'
<1> SUFFICES ASSUME Flags, [Next]_vars PROVE Flags'
    OBVIOUS
<1>1. ASSUME NEW t \in Threads, New(t) PROVE Flags'
    BY <1>1, Zenon DEF Flags, New
<1>2. ASSUME NEW t \in Threads, TryClone(t) PROVE Flags'
    BY <1>2, Zenon DEF Flags, TryClone
<1>3. ASSUME NEW t \in Threads, DropCopy(t) PROVE Flags'
    BY <1>3, Zenon DEF Flags, DropCopy
<1>4. ASSUME NEW t \in Threads, CallWake(t) PROVE Flags'
    BY <1>4, Zenon DEF Flags, CallWake
<1>5. ASSUME NEW t \in Threads, WriteOk(t) PROVE Flags'
    BY <1>5, Zenon DEF Flags, WriteOk
<1>6. ASSUME NEW t \in Threads, WriteWouldBlock(t) PROVE Flags'
    BY <1>6, Zenon DEF Flags, WriteWouldBlock
<1>7. ASSUME NEW t \in Threads, Reset(t) PROVE Flags'
    BY <1>7, Zenon DEF Flags, Reset
<1>8. CASE EpollWait
    BY <1>8, Zenon DEF Flags, EpollWait
<1>9. CASE UNCHANGED vars
    BY <1>9, Zenon DEF Flags, vars
<1> QED
    BY <1>1, <1>2, <1>3, <1>4, <1>5, <1>6, <1>7, <1>8, <1>9 DEF Next, WakeStep

\* The counter stays within its range because a write at the maximum fails, and
\* a thread drops its copy only outside wake.
LEMMA ValuesStep == Values /\ [Next]_vars => Values'
<1> SUFFICES ASSUME Values, [Next]_vars PROVE Values'
    OBVIOUS
<1> USE EventfdAssumption
<1>1. ASSUME NEW t \in Threads, New(t) PROVE Values'
    BY <1>1 DEF Values, New
<1>2. ASSUME NEW t \in Threads, TryClone(t) PROVE Values'
    BY <1>2 DEF Values, TryClone
<1>3. ASSUME NEW t \in Threads, DropCopy(t) PROVE Values'
    BY <1>3 DEF Values, DropCopy
<1>4. ASSUME NEW t \in Threads, CallWake(t) PROVE Values'
    BY <1>4 DEF Values, CallWake
<1>5. ASSUME NEW t \in Threads, WriteOk(t) PROVE Values'
    BY <1>5 DEF Values, WriteOk, Writes
<1>6. ASSUME NEW t \in Threads, WriteWouldBlock(t) PROVE Values'
    BY <1>6 DEF Values, WriteWouldBlock, Writes
<1>7. ASSUME NEW t \in Threads, Reset(t) PROVE Values'
    BY <1>7 DEF Values, Reset
<1>8. CASE EpollWait
    BY <1>8 DEF Values, EpollWait
<1>9. CASE UNCHANGED vars
    BY <1>9 DEF Values, vars
<1> QED
    BY <1>1, <1>2, <1>3, <1>4, <1>5, <1>6, <1>7, <1>8, <1>9 DEF Next, WakeStep

\* Both halves are invariants.
LEMMA PartsInvariant == Spec => [](Flags /\ Values)
<1>1. Init => Flags
    BY Zenon DEF Init, Flags
<1>2. Init => Values
    BY EventfdAssumption DEF Init, Values
<1> QED
    BY <1>1, <1>2, FlagsStep, ValuesStep, PTL DEF Spec

\* The counter, the threads and the ready list always have their types.
THEOREM TypeInvariant == Spec => []TypeOK
BY PartsInvariant, TypeParts, PTL

\* A step keeps the wake that is owed: only Reset takes a count away, and the
\* thread that does it writes again; a thread that is about to write again goes
\* to another reset only when the counter is at its maximum.
LEMMA NoLostWakeStep == TypeOK /\ NoLostWake /\ [Next]_vars => NoLostWake'
<1> SUFFICES ASSUME TypeOK, NoLostWake, [Next]_vars PROVE NoLostWake'
    OBVIOUS
<1> USE EventfdAssumption
<1>1. ASSUME NEW t \in Threads, New(t) PROVE NoLostWake'
    BY <1>1 DEF NoLostWake, New
<1>2. ASSUME NEW t \in Threads, TryClone(t) PROVE NoLostWake'
    BY <1>2 DEF NoLostWake, TryClone
<1>3. ASSUME NEW t \in Threads, DropCopy(t) PROVE NoLostWake'
    BY <1>3 DEF NoLostWake, DropCopy
<1>4. ASSUME NEW t \in Threads, CallWake(t) PROVE NoLostWake'
    BY <1>4 DEF NoLostWake, CallWake, TypeOK
<1>5. ASSUME NEW t \in Threads, WriteOk(t) PROVE NoLostWake'
    BY <1>5 DEF NoLostWake, WriteOk, TypeOK
<1>6. ASSUME NEW t \in Threads, WriteWouldBlock(t) PROVE NoLostWake'
    BY <1>6 DEF NoLostWake, WriteWouldBlock, TypeOK
<1>7. ASSUME NEW t \in Threads, Reset(t) PROVE NoLostWake'
    BY <1>7 DEF NoLostWake, Reset, TypeOK
<1>8. CASE EpollWait
    BY <1>8 DEF NoLostWake, EpollWait, TypeOK
<1>9. CASE UNCHANGED vars
    BY <1>9 DEF NoLostWake, vars
<1> QED
    BY <1>1, <1>2, <1>3, <1>4, <1>5, <1>6, <1>7, <1>8, <1>9 DEF Next, WakeStep

\* No wake is lost to another thread's reset of the counter.
THEOREM NoWakeIsLost == Spec => []NoLostWake
<1>1. Init => NoLostWake
    BY DEF Init, NoLostWake
<1> QED
    BY <1>1, TypeInvariant, NoLostWakeStep, PTL DEF Spec

-----------------------------------------------------------------------------
(* The refinement of Wakeup, without its fairness.                         *)

\* The eventfd is on the ready list only for a write that was not reported.
ListedOwed == listed => owed

\* A write does both, and epoll_wait takes the eventfd off the list.
LEMMA ListedOwedStep == ListedOwed /\ [Next]_vars => ListedOwed'
<1> SUFFICES ASSUME ListedOwed, [Next]_vars PROVE ListedOwed'
    OBVIOUS
<1>1. ASSUME NEW t \in Threads, New(t) \/ TryClone(t) \/ CallWake(t) PROVE ListedOwed'
    BY <1>1, Zenon DEF ListedOwed, New, TryClone, CallWake
<1>2. ASSUME NEW t \in Threads, DropCopy(t) PROVE ListedOwed'
    BY <1>2, Zenon DEF ListedOwed, DropCopy
<1>3. ASSUME NEW t \in Threads, WakeStep(t) PROVE ListedOwed'
    BY <1>3, Zenon DEF ListedOwed, WakeStep, WriteOk, WriteWouldBlock, Reset
<1>4. CASE EpollWait
    BY <1>4, Zenon DEF ListedOwed, EpollWait
<1>5. CASE UNCHANGED vars
    BY <1>5, Zenon DEF ListedOwed, vars
<1> QED
    BY <1>1, <1>2, <1>3, <1>4, <1>5 DEF Next

\* A write is the Wake of Wakeup and an event its Deliver; calls, failed writes,
\* resets and an epoll_wait that finds the counter at 0 are no steps of it.
LEMMA WakeupStep == Values /\ ListedOwed /\ [Next]_vars => [W!Next]_(W!wakeupVars)
<1> SUFFICES ASSUME Values, ListedOwed, [Next]_vars PROVE [W!Next]_(W!wakeupVars)
    OBVIOUS
<1> USE DEF W!Next, W!wakeupVars
<1>1. ASSUME NEW t \in Threads, New(t) PROVE W!Copy
  <2>1. copies = {}
      BY <1>1 DEF New, Values
  <2> QED
      BY <1>1, <2>1 DEF New, W!Copy
<1>2. ASSUME NEW t \in Threads, TryClone(t) PROVE W!Copy
    BY <1>2 DEF TryClone, W!Copy
<1>3. ASSUME NEW t \in Threads, DropCopy(t) PROVE W!Drop
    BY <1>3, Zenon DEF DropCopy, W!Drop
<1>4. ASSUME NEW t \in Threads, WriteOk(t) PROVE W!Wake
  <2>1. t \in copies
      BY <1>4 DEF WriteOk, Writes, Values
  <2> QED
      BY <1>4, <2>1, Zenon DEF WriteOk, W!Wake
<1>5. ASSUME NEW t \in Threads, CallWake(t) \/ WriteWouldBlock(t) \/ Reset(t)
      PROVE  UNCHANGED W!wakeupVars
    BY <1>5 DEF CallWake, WriteWouldBlock, Reset
<1>6. ASSUME EpollWait PROVE W!Deliver \/ UNCHANGED W!wakeupVars
  <2>1. CASE count > 0
      BY <1>6, <2>1, Zenon DEF EpollWait, ListedOwed, W!Deliver
  <2>2. CASE ~(count > 0)
      BY <1>6, <2>2, Zenon DEF EpollWait
  <2> QED
      BY <2>1, <2>2
<1>7. ASSUME UNCHANGED vars PROVE UNCHANGED W!wakeupVars
    BY <1>7 DEF vars
<1> QED
    BY <1>1, <1>2, <1>3, <1>4, <1>5, <1>6, <1>7 DEF Next, WakeStep

\* The eventfd awakener takes only the steps of Wakeup: one event for the wakes
\* the poller has not seen, none without a wake, and no wake is dropped before
\* the last copy.
THEOREM EventfdRefinesWakeup == Spec => W!Init /\ [][W!Next]_(W!wakeupVars)
<1>1. Init => W!Init /\ ListedOwed
    BY Zenon DEF Init, W!Init, ListedOwed
<1> QED
    BY <1>1, PartsInvariant, ListedOwedStep, WakeupStep, PTL DEF Spec
==============================================================================
