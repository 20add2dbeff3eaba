-------------------------- MODULE PipeAwakenerProofs --------------------------
(***************************************************************************)
(* No wake of the pipe awakener is lost, for any number of threads and any *)
(* size of the pipe, if the original Awakener is the last copy dropped;    *)
(* and none is made up, in whatever order the copies are dropped.          *)
(***************************************************************************)
EXTENDS PipeAwakener, TLAPS

\* Why NoLostWake holds: the kevent is there as long as a copy is, because the
\* original is, and a thread inside wake has a copy.
Registered ==
    /\ copies # {} => registered /\ first \subseteq copies
    /\ owed => copies # {}
    /\ \A t, u \in first : t = u

\* The two halves of the type invariant, flags and the rest, strengthened so that
\* Awakener::new finds no thread inside wake.
Flags == registered \in BOOLEAN /\ active \in BOOLEAN /\ owed \in BOOLEAN

Values ==
    /\ first \subseteq Threads /\ copies \subseteq Threads /\ bytes \in 0..PipeSize
    /\ pc \in [Threads -> {"idle", "write", "empty", "retry"}]
    /\ \A t \in Threads : pc[t] # "idle" => t \in copies
    /\ wakes \in 0..MaxWakes /\ events \in Nat
    /\ first = {} => copies = {}

\* The two halves make up the type invariant.
LEMMA TypeParts == Flags /\ Values => TypeOK
    BY Zenon DEF TypeOK, Flags, Values

\* Every action gives the flags Boolean values.
LEMMA FlagsStep == Flags /\ [Next]_vars => Flags'
<1> SUFFICES ASSUME Flags, [Next]_vars PROVE Flags'
    OBVIOUS
<1>1. ASSUME NEW t \in Threads, New(t) PROVE Flags'
    BY <1>1, Zenon DEF Flags, New
<1>2. ASSUME NEW t \in Threads, TryClone(t) PROVE Flags'
    BY <1>2, Zenon DEF Flags, TryClone
<1>3. ASSUME NEW t \in Threads, DropCopy(t) PROVE Flags'
    BY <1>3, Zenon DEF Flags, DropCopy
<1>4. ASSUME NEW t \in Threads, CallWake(t) PROVE Flags'
    BY <1>4, Zenon DEF Flags, CallWake
<1>5. ASSUME NEW t \in Threads, WriteOk(t) PROVE Flags'
    BY <1>5, Zenon DEF Flags, WriteOk
<1>6. ASSUME NEW t \in Threads, WriteWouldBlock(t) PROVE Flags'
    BY <1>6, Zenon DEF Flags, WriteWouldBlock
<1>7. ASSUME NEW t \in Threads, EmptyReads(t) PROVE Flags'
    BY <1>7, Zenon DEF Flags, EmptyReads
<1>8. ASSUME NEW t \in Threads, EmptyEnds(t) PROVE Flags'
    BY <1>8, Zenon DEF Flags, EmptyEnds
<1>9. CASE Kevent
    BY <1>9, Zenon DEF Flags, Kevent
<1>10. CASE UNCHANGED vars
    BY <1>10, Zenon DEF Flags, vars
<1> QED
    BY <1>1, <1>2, <1>3, <1>4, <1>5, <1>6, <1>7, <1>8, <1>9, <1>10 DEF Next, WakeStep

\* The pipe never holds more than its size, and a thread drops its copy only
\* outside wake.
LEMMA ValuesStep == Values /\ [Next]_vars => Values'
<1> SUFFICES ASSUME Values, [Next]_vars PROVE Values'
    OBVIOUS
<1> USE PipeAssumption
<1>1. ASSUME NEW t \in Threads, New(t) PROVE Values'
    BY <1>1 DEF Values, New
<1>2. ASSUME NEW t \in Threads, TryClone(t) PROVE Values'
    BY <1>2 DEF Values, TryClone
<1>3. ASSUME NEW t \in Threads, DropCopy(t) PROVE Values'
    BY <1>3 DEF Values, DropCopy
<1>4. ASSUME NEW t \in Threads, CallWake(t) PROVE Values'
    BY <1>4 DEF Values, CallWake
<1>5. ASSUME NEW t \in Threads, WriteOk(t) PROVE Values'
    BY <1>5 DEF Values, WriteOk, Writes
<1>6. ASSUME NEW t \in Threads, WriteWouldBlock(t) PROVE Values'
    BY <1>6 DEF Values, WriteWouldBlock, Writes
<1>7. ASSUME NEW t \in Threads, EmptyReads(t) PROVE Values'
    BY <1>7 DEF Values, EmptyReads
<1>8. ASSUME NEW t \in Threads, EmptyEnds(t) PROVE Values'
    BY <1>8 DEF Values, EmptyEnds
<1>9. CASE Kevent
    BY <1>9 DEF Values, Kevent
<1>10. CASE UNCHANGED vars
    BY <1>10 DEF Values, vars
<1> QED
    BY <1>1, <1>2, <1>3, <1>4, <1>5, <1>6, <1>7, <1>8, <1>9, <1>10 DEF Next, WakeStep

\* Both halves are invariants.
LEMMA PartsInvariant == Spec => [](Flags /\ Values)
<1>1. Init => Flags
    BY Zenon DEF Init, Flags
<1>2. Init => Values
    BY PipeAssumption DEF Init, Values
<1> QED
    BY <1>1, <1>2, FlagsStep, ValuesStep, PTL DEF Spec

\* The pipe, the threads and the kevent always have their types.
THEOREM TypeInvariant == Spec => []TypeOK
BY PartsInvariant, TypeParts, PTL

\* Only the drop of the last copy takes the kevent away, when the original is
\* kept to the end.
LEMMA RegisteredStep ==
    ASSUME KeepFirst, TypeOK, Registered, [Next]_vars
    PROVE  Registered'
<1>1. ASSUME NEW t \in Threads, New(t) PROVE Registered'
    BY <1>1 DEF Registered, New, TypeOK
<1>2. ASSUME NEW t \in Threads, TryClone(t) PROVE Registered'
    BY <1>2 DEF Registered, TryClone, TypeOK
<1>3. ASSUME NEW t \in Threads, DropCopy(t) PROVE Registered'
  <2>1. CASE t \in first
    <3>1. copies' = {}
      BY <1>3, <2>1 DEF Registered, DropCopy
    <3> QED
      BY <1>3, <3>1, Zenon DEF Registered, DropCopy
  <2>2. CASE t \notin first
    BY <1>3, <2>2 DEF Registered, DropCopy
  <2> QED
    BY <2>1, <2>2
<1>4. ASSUME NEW t \in Threads, CallWake(t) PROVE Registered'
    BY <1>4 DEF Registered, CallWake, TypeOK
<1>5. ASSUME NEW t \in Threads, WriteOk(t) PROVE Registered'
    BY <1>5 DEF Registered, WriteOk, Writes, TypeOK
<1>6. ASSUME NEW t \in Threads, WriteWouldBlock(t) PROVE Registered'
    BY <1>6 DEF Registered, WriteWouldBlock
<1>7. ASSUME NEW t \in Threads, EmptyReads(t) PROVE Registered'
    BY <1>7 DEF Registered, EmptyReads
<1>8. ASSUME NEW t \in Threads, EmptyEnds(t) PROVE Registered'
    BY <1>8 DEF Registered, EmptyEnds
<1>9. CASE Kevent
    BY <1>9 DEF Registered, Kevent
<1>10. CASE UNCHANGED vars
    BY <1>10 DEF Registered, vars
<1> QED
    BY <1>1, <1>2, <1>3, <1>4, <1>5, <1>6, <1>7, <1>8, <1>9, <1>10 DEF Next, WakeStep

\* A step keeps the wake that is owed: a thread that reads the bytes away is
\* inside empty, and writes again before it leaves wake.
LEMMA NoLostWakeStep ==
    ASSUME KeepFirst, TypeOK, Registered, NoLostWake, [Next]_vars
    PROVE  NoLostWake'
<1> USE PipeAssumption
<1>1. ASSUME NEW t \in Threads, New(t) PROVE NoLostWake'
    BY <1>1 DEF NoLostWake, New
<1>2. ASSUME NEW t \in Threads, TryClone(t) PROVE NoLostWake'
    BY <1>2 DEF NoLostWake, TryClone
<1>3. ASSUME NEW t \in Threads, DropCopy(t) PROVE NoLostWake'
  <2>1. CASE copies' = {}
    BY <1>3, <2>1, Zenon DEF NoLostWake, DropCopy
  <2>2. CASE copies' # {}
    <3>1. t \notin first
      BY <1>3, <2>2 DEF Registered, DropCopy
    <3> QED
      BY <1>3, <2>2, <3>1 DEF NoLostWake, DropCopy
  <2> QED
    BY <2>1, <2>2
<1>4. ASSUME NEW t \in Threads, CallWake(t) PROVE NoLostWake'
    BY <1>4 DEF NoLostWake, CallWake, TypeOK
<1>5. ASSUME NEW t \in Threads, WriteOk(t) PROVE NoLostWake'
  <2>1. registered
    BY <1>5 DEF WriteOk, Writes, Registered, TypeOK
  <2> QED
    BY <1>5, <2>1 DEF NoLostWake, WriteOk, TypeOK
<1>6. ASSUME NEW t \in Threads, WriteWouldBlock(t) PROVE NoLostWake'
    BY <1>6 DEF NoLostWake, WriteWouldBlock, TypeOK
<1>7. ASSUME NEW t \in Threads, EmptyReads(t) PROVE NoLostWake'
    BY <1>7 DEF NoLostWake, EmptyReads, TypeOK
<1>8. ASSUME NEW t \in Threads, EmptyEnds(t) PROVE NoLostWake'
    BY <1>8 DEF NoLostWake, EmptyEnds, TypeOK
<1>9. CASE Kevent
    BY <1>9 DEF NoLostWake, Kevent, TypeOK
<1>10. CASE UNCHANGED vars
    BY <1>10 DEF NoLostWake, vars
<1> QED
    BY <1>1, <1>2, <1>3, <1>4, <1>5, <1>6, <1>7, <1>8, <1>9, <1>10 DEF Next, WakeStep

\* No wake is lost to another thread's emptying of the pipe, as long as the
\* application keeps the original Awakener.
THEOREM NoWakeIsLost == KeepFirst /\ Spec => []NoLostWake
<1> SUFFICES ASSUME KeepFirst PROVE Spec => []NoLostWake
    OBVIOUS
<1> DEFINE Inv == Registered /\ NoLostWake
<1>1. Init => Inv
    BY DEF Init, Registered, NoLostWake
<1>2. TypeOK /\ Inv /\ [Next]_vars => Inv'
    BY RegisteredStep, NoLostWakeStep
<1>3. Inv => NoLostWake
    OBVIOUS
<1> QED
    BY <1>1, <1>2, <1>3, TypeInvariant, PTL DEF Spec

-----------------------------------------------------------------------------
(* The refinement of Wakeup, without its fairness.  It does not need the   *)
(* original Awakener to be kept: without it wakes are not reported, which  *)
(* only the fairness of Wakeup forbids.                                    *)

\* The kevent is active only for a write that was not reported, and it is there
\* only as long as the original Awakener is.
ActiveOwed ==
    /\ active => owed /\ registered
    /\ registered => first # {} /\ first \subseteq copies

\* With the original the kevent goes, so the drop of a last copy that is not the
\* original finds it inactive.
LEMMA ActiveOwedStep == Flags /\ ActiveOwed /\ [Next]_vars => ActiveOwed'
<1> SUFFICES ASSUME Flags, ActiveOwed, [Next]_vars PROVE ActiveOwed'
    OBVIOUS
<1>1. ASSUME NEW t \in Threads, New(t) PROVE ActiveOwed'
  <2>1. ~active
      BY <1>1 DEF ActiveOwed, New
  <2> QED
      BY <1>1, <2>1 DEF ActiveOwed, New
<1>2. ASSUME NEW t \in Threads, TryClone(t) PROVE ActiveOwed'
    BY <1>2 DEF ActiveOwed, TryClone
<1>3. ASSUME NEW t \in Threads, DropCopy(t) PROVE ActiveOwed'
  <2>1. CASE t \in first
    <3>1. ~registered' /\ ~active'
        BY <1>3, <2>1, Zenon DEF DropCopy
    <3> QED
        BY <3>1 DEF ActiveOwed
  <2>2. CASE t \notin first /\ registered
    <3>1. copies' # {} /\ first \subseteq copies'
        BY <1>3, <2>2 DEF ActiveOwed, DropCopy
    <3>2. registered' /\ (active' <=> active) /\ owed' = owed /\ first' = first
        BY <1>3, <2>2, <3>1, Zenon DEF DropCopy
    <3> QED
        BY <2>2, <3>1, <3>2, Zenon DEF ActiveOwed
  <2>3. CASE ~registered
    <3>1. ~registered' /\ ~active'
        BY <1>3, <2>3, Zenon DEF ActiveOwed, DropCopy
    <3> QED
        BY <3>1 DEF ActiveOwed
  <2> QED
      BY <2>1, <2>2, <2>3
<1>4. ASSUME NEW t \in Threads, CallWake(t) PROVE ActiveOwed'
    BY <1>4, Zenon DEF ActiveOwed, CallWake
<1>5. ASSUME NEW t \in Threads, WriteOk(t) PROVE ActiveOwed'
  <2>1. UNCHANGED <<registered, first, copies>> /\ (active' <=> registered) /\ owed'
      BY <1>5, Zenon DEF WriteOk, Flags
  <2> QED
      BY <2>1, Zenon DEF ActiveOwed
<1>6. ASSUME NEW t \in Threads, WriteWouldBlock(t) \/ EmptyReads(t) \/ EmptyEnds(t)
      PROVE  ActiveOwed'
  <2>1. UNCHANGED <<registered, first, copies, active, owed>>
      BY <1>6 DEF WriteWouldBlock, EmptyReads, EmptyEnds
  <2> QED
      BY <2>1 DEF ActiveOwed
<1>7. CASE Kevent
    BY <1>7, Zenon DEF ActiveOwed, Kevent
<1>8. CASE UNCHANGED vars
    BY <1>8, Zenon DEF ActiveOwed, vars
<1> QED
    BY <1>1, <1>2, <1>3, <1>4, <1>5, <1>6, <1>7, <1>8 DEF Next, WakeStep

\* A write is the Wake of Wakeup and an event its Deliver; calls, failed writes,
\* reads of empty and a kevent that finds the pipe empty are no steps of it.
LEMMA WakeupStep == Values /\ ActiveOwed /\ [Next]_vars => [W!Next]_(W!wakeupVars)
<1> SUFFICES ASSUME Values, ActiveOwed, [Next]_vars PROVE [W!Next]_(W!wakeupVars)
    OBVIOUS
<1> USE DEF W!Next, W!wakeupVars
<1>1. ASSUME NEW t \in Threads, New(t) PROVE W!Copy
  <2>1. copies = {}
      BY <1>1 DEF New, Values
  <2> QED
      BY <1>1, <2>1 DEF New, W!Copy
<1>2. ASSUME NEW t \in Threads, TryClone(t) PROVE W!Copy
    BY <1>2 DEF TryClone, W!Copy
<1>3. ASSUME NEW t \in Threads, DropCopy(t) PROVE W!Drop
    BY <1>3, Zenon DEF DropCopy, W!Drop
<1>4. ASSUME NEW t \in Threads, WriteOk(t) PROVE W!Wake
  <2>1. t \in copies
      BY <1>4 DEF WriteOk, Writes, Values
  <2> QED
      BY <1>4, <2>1, Zenon DEF WriteOk, W!Wake
<1>5. ASSUME NEW t \in Threads,
             CallWake(t) \/ WriteWouldBlock(t) \/ EmptyReads(t) \/ EmptyEnds(t)
      PROVE  UNCHANGED W!wakeupVars
    BY <1>5 DEF CallWake, WriteWouldBlock, EmptyReads, EmptyEnds
<1>6. ASSUME Kevent PROVE W!Deliver \/ UNCHANGED W!wakeupVars
  <2>1. CASE bytes > 0
      BY <1>6, <2>1, Zenon DEF Kevent, ActiveOwed, W!Deliver
  <2>2. CASE ~(bytes > 0)
      BY <1>6, <2>2, Zenon DEF Kevent
  <2> QED
      BY <2>1, <2>2
<1>7. ASSUME UNCHANGED vars PROVE UNCHANGED W!wakeupVars
    BY <1>7 DEF vars
<1> QED
    BY <1>1, <1>2, <1>3, <1>4, <1>5, <1>6, <1>7 DEF Next, WakeStep

\* The pipe awakener takes only the steps of Wakeup: one event for the wakes the
\* poller has not seen, none without a wake.
THEOREM PipeRefinesWakeup == Spec => W!Init /\ [][W!Next]_(W!wakeupVars)
<1>1. Init => W!Init /\ ActiveOwed
    BY Zenon DEF Init, W!Init, ActiveOwed
<1> QED
    BY <1>1, PartsInvariant, ActiveOwedStep, WakeupStep, PTL DEF Spec
==============================================================================
