--------------------------- MODULE EventLoopProofs ---------------------------
(***************************************************************************)
(* Proofs about EventLoop, for every sink capacity, every order of the     *)
(* sources, every set of ids and every bound: nothing is lost or delivered *)
(* twice, no timer fires early, no wait outlasts what it waits for, a poll *)
(* that returns Ok has left nothing behind, and EventLoop implements       *)
(* Delivery.                                                               *)
(***************************************************************************)
EXTENDS EventLoop, SequenceTheorems, FiniteSetTheorems, WellFoundedInduction, TLAPS

-----------------------------------------------------------------------------
(* Facts about the operators.                                              *)

\* Cutting the first k elements off a sequence yields two sequences.
LEMMA CutSeq ==
    ASSUME NEW S, NEW s \in Seq(S), NEW k \in 0..Len(s)
    PROVE  /\ Prefix(s, k) \in Seq(S) /\ Len(Prefix(s, k)) = k
           /\ Rest(s, k) \in Seq(S) /\ Len(Rest(s, k)) = Len(s) - k
           /\ \A i \in 1..k : Prefix(s, k)[i] = s[i]
           /\ \A i \in 1..(Len(s) - k) : Rest(s, k)[i] = s[k + i]
<1>1. Len(s) \in Nat /\ k \in Nat /\ k <= Len(s)
  BY LenProperties
<1>2. \A i \in 1..k : s[i] \in S
  BY <1>1, ElementOfSeq
<1>3. \A i \in (k + 1)..Len(s) : s[i] \in S
  BY <1>1, ElementOfSeq
<1>4. /\ Prefix(s, k) \in Seq(S) /\ Len(Prefix(s, k)) = k
      /\ \A i \in 1..k : Prefix(s, k)[i] = s[i]
  <2>1. 1 \in Int /\ k \in Int
    BY <1>1
  <2>2. /\ SubSeq(s, 1, k) \in Seq(S)
        /\ Len(SubSeq(s, 1, k)) = IF 1 <= k THEN k - 1 + 1 ELSE 0
        /\ \A i \in 1..(k - 1 + 1) : SubSeq(s, 1, k)[i] = s[1 + i - 1]
    BY <1>2, <2>1, SubSeqProperties
  <2>3. QED
    BY <1>1, <2>2 DEF Prefix
<1>5. /\ Rest(s, k) \in Seq(S) /\ Len(Rest(s, k)) = Len(s) - k
      /\ \A i \in 1..(Len(s) - k) : Rest(s, k)[i] = s[k + i]
  <2>1. k + 1 \in Int /\ Len(s) \in Int
    BY <1>1
  <2>2. /\ SubSeq(s, k + 1, Len(s)) \in Seq(S)
        /\ Len(SubSeq(s, k + 1, Len(s)))
             = IF k + 1 <= Len(s) THEN Len(s) - (k + 1) + 1 ELSE 0
        /\ \A i \in 1..(Len(s) - (k + 1) + 1) :
              SubSeq(s, k + 1, Len(s))[i] = s[k + 1 + i - 1]
    BY <1>3, <2>1, SubSeqProperties
  <2>3. QED
    BY <1>1, <2>2 DEF Rest
<1>6. QED
  BY <1>4, <1>5

\* What CapacityMin offers is no more than was asked for, and fits.
LEMMA CapacityMinFits ==
    ASSUME sink \in Seq(Item), SinkBounded, NEW n \in Nat
    PROVE  LET k == CapacityMin(CapacityLeft, n)
           IN  /\ k \in 0..n
               /\ Capacity # Growable => Len(sink) + k <= Capacity
<1>1. Len(sink) \in Nat
  BY LenProperties
<1>2. CASE Capacity = Growable
  BY <1>2 DEF CapacityMin, CapacityLeft
<1>3. CASE Capacity # Growable
  <2>1. Capacity \in Nat /\ Capacity - Len(sink) \in Nat /\ Growable \notin Nat
    BY <1>1, <1>3, EventAssumption DEF SinkBounded
  <2>2. Capacity - Len(sink) # Growable
    BY <2>1
  <2>3. QED
    BY <1>1, <1>3, <2>1, <2>2 DEF CapacityMin, CapacityLeft
<1>4. QED
  BY <1>2, <1>3

\* The room select offers to the kernel fits into the sink.
LEMMA SelectRoomFits ==
    ASSUME sink \in Seq(Item), SinkBounded
    PROVE  /\ SelectRoom \in Nat
           /\ Capacity # Growable => Len(sink) + SelectRoom <= Capacity
<1>1. EventsCap \in Nat
  BY OsQueueAssumption
<1>2. LET c == CapacityMin(CapacityLeft, EventsCap)
      IN  c \in 0..EventsCap /\ (Capacity # Growable => Len(sink) + c <= Capacity)
  BY <1>1, CapacityMinFits
<1>3. QED
  BY <1>1, <1>2 DEF SelectRoom

\* The drain of Queue::poll and of select's array: k elements move from the
\* front of a source's list to the end of the sink.
LEMMA DrainTypes ==
    ASSUME NEW kind \in Kinds, NEW s \in Seq(ItemOf(kind)), sink \in Seq(Item),
           NEW k \in 0..Len(s)
    PROVE  /\ sink \o Prefix(s, k) \in Seq(Item)
           /\ Len(sink \o Prefix(s, k)) = Len(sink) + k
           /\ Rest(s, k) \in Seq(ItemOf(kind))
<1>1. ItemOf(kind) \subseteq Item
  BY DEF ItemOf
<1>2. /\ Prefix(s, k) \in Seq(ItemOf(kind)) /\ Len(Prefix(s, k)) = k
      /\ Rest(s, k) \in Seq(ItemOf(kind))
  BY CutSeq
<1>3. Prefix(s, k) \in Seq(Item)
  BY <1>1, <1>2, SeqMonotonic
<1>4. QED
  BY <1>2, <1>3, ConcatProperties

\* A set of natural numbers that is not empty has a smallest element.
LEMMA SmallestElement ==
    ASSUME NEW T, T \subseteq Nat, T # {}
    PROVE  \E x \in T : \A y \in T : x <= y
<1> DEFINE R == {ss \in Nat \X Nat : ss[1] < ss[2]}
<1>1. IsWellFoundedOn(R, Nat)
  BY NatLessThanWellFounded DEF OpToRel
<1> HIDE DEF R
<1>2. PICK x \in T : \A y \in T : ~(<<y, x>> \in R)
  BY <1>1, WFMin
<1>3. \A y \in T : y < x => <<y, x>> \in R
  BY DEF R
<1>4. \A y \in T : x \in Nat /\ y \in Nat /\ ~(y < x)
  BY <1>2, <1>3
<1>5. \A y \in T : x <= y
  BY <1>4
<1>6. QED
  BY <1>5

\* A heap that is not empty has an entry for peek and pop to yield.
LEMMA NextExists ==
    ASSUME deadlines \subseteq Item, deadlines # {}
    PROVE  \E d \in deadlines : IsNext(d)
<1> DEFINE Dues == {d.due : d \in deadlines}
<1>1. Dues \subseteq Nat /\ Dues # {}
  BY DEF Item
<1>2. PICK t \in Dues : \A u \in Dues : t <= u
  BY <1>1, SmallestElement
<1> DEFINE First == {d \in deadlines : d.due = t}
<1> DEFINE FirstIds == {d.id : d \in First}
<1>3. FirstIds \subseteq Nat /\ FirstIds # {}
  BY DEF Item
<1>4. PICK i \in FirstIds : \A j \in FirstIds : i <= j
  BY <1>3, SmallestElement
<1>5. PICK d \in First : d.id = i
  OBVIOUS
<1>6. ASSUME NEW e \in deadlines PROVE Earlier(d, e)
  <2>1. t \in Nat /\ e.due \in Nat /\ t <= e.due /\ d.due = t
    BY <1>1, <1>2, <1>5
  <2>2. CASE e.due = t
    BY <1>4, <1>5, <2>1, <2>2 DEF Earlier
  <2>3. CASE e.due # t
    BY <2>1, <2>3 DEF Earlier
  <2>4. QED
    BY <2>2, <2>3
<1>7. QED
  BY <1>5, <1>6 DEF IsNext

\* What Timers::max_timeout returns.
LEMMA TimersMaxTimeoutBound ==
    ASSUME deadlines \subseteq Item, now \in Nat
    PROVE  /\ TimersMaxTimeout \in Timeout
           /\ deadlines # {} => TimersMaxTimeout \in Nat
           /\ \A d \in deadlines :
                 TimersMaxTimeout = 0 \/ now + TimersMaxTimeout <= d.due
<1>1. CASE deadlines = {}
  BY <1>1 DEF TimersMaxTimeout, Timeout
<1>2. CASE deadlines # {}
  <2> DEFINE d == CHOOSE e \in deadlines : IsNext(e)
  <2>1. d \in deadlines /\ IsNext(d)
    BY <1>2, NextExists
  <2>2. TimersMaxTimeout = IF Expired(d, now) THEN 0 ELSE d.due - now
    BY <1>2 DEF TimersMaxTimeout
  <2> HIDE DEF d
  <2>3. d.due \in Nat
    BY <2>1 DEF Item
  <2>4. TimersMaxTimeout \in Nat
    BY <2>2, <2>3 DEF Expired
  <2>5. ASSUME NEW e \in deadlines
        PROVE  TimersMaxTimeout = 0 \/ now + TimersMaxTimeout <= e.due
    <3>1. e.due \in Nat /\ d.due <= e.due
      BY <2>1, <2>3 DEF IsNext, Earlier, Item
    <3>2. QED
      BY <2>2, <2>3, <3>1 DEF Expired
  <2>6. QED
    BY <2>4, <2>5 DEF Timeout
<1>3. QED
  BY <1>1, <1>2

\* min_timeout of two timeouts is a timeout that exceeds neither.
LEMMA MinTimeoutBound ==
    ASSUME NEW l \in Timeout, NEW r \in Timeout
    PROVE  /\ MinTimeout(l, r) \in Timeout
           /\ l # None => MinTimeout(l, r) \in Nat /\ MinTimeout(l, r) <= l
           /\ r # None => MinTimeout(l, r) \in Nat /\ MinTimeout(l, r) <= r
BY EventAssumption DEF MinTimeout, Timeout

\* The wait of a selector is no longer than the timeout it was given.
LEMMA MillisBound ==
    ASSUME NEW t \in Nat
    PROVE  /\ DurationToMillis(t) * Granularity \in Nat
           /\ DurationToMillis(t) * Granularity <= t
<1>1. Granularity \in Nat \ {0} /\ MaxMillis \in Nat
  BY OsQueueAssumption
<1>2. /\ (t \div Granularity) \in Nat
      /\ (t \div Granularity) * Granularity \in Nat
      /\ (t \div Granularity) * Granularity <= t
  BY <1>1
<1>3. CASE t \div Granularity <= MaxMillis
  BY <1>2, <1>3 DEF DurationToMillis
<1>4. CASE ~(t \div Granularity <= MaxMillis)
  <2> DEFINE q == t \div Granularity
  <2>1. q \in Nat /\ MaxMillis <= q
    BY <1>1, <1>2, <1>4
  <2> HIDE DEF q
  <2>2. MaxMillis * Granularity <= q * Granularity /\ MaxMillis * Granularity \in Nat
    BY <1>1, <2>1
  <2>3. DurationToMillis(t) = MaxMillis
    BY <1>4 DEF DurationToMillis
  <2>4. q * Granularity \in Nat /\ q * Granularity <= t
    BY <1>2 DEF q
  <2>5. QED
    BY <2>2, <2>3, <2>4
<1>5. QED
  BY <1>3, <1>4

-----------------------------------------------------------------------------
(* Types and the capacity of the sink.  They need each other: the loop     *)
(* bound of Timers::poll is a natural number because the sink never holds  *)
(* more than its capacity, and that follows from the loop bound.           *)

Safe == TypeOK /\ SinkBounded /\ LoopFits

\* A new item of a source has the right type.
LEMMA NewItemType ==
    ASSUME serial \in Nat, NEW kind \in Kinds, NEW id \in Ids, NEW due \in Nat,
           kind # "timers" => due = 0
    PROVE  NewItem(kind, id, due) \in ItemOf(kind)
BY EventAssumption DEF NewItem, ItemOf, Item

\* A program that has not polled yet has its types, an empty sink and no loop.
LEMMA SafeInit == Init => Safe
<1>1. SUFFICES ASSUME Init PROVE Safe
  OBVIOUS
<1>2. Len(Sources) \in Nat
  BY EventLoopAssumption, LenProperties
<1>3. Len(<<>>) = 0 /\ IsFiniteSet({})
  BY FS_EmptySet, EmptySeq
<1>4. TypeOK
  BY <1>1, <1>2, <1>3, EventLoopAssumption, EmptySeq DEF Init, TypeOK, Timeout
<1>5. SinkBounded /\ LoopFits
  BY <1>1, <1>3, EventAssumption DEF Init, SinkBounded, LoopFits
<1>6. QED
  BY <1>4, <1>5 DEF Safe

\* No step of the application, of poll or of the kernel breaks the types, the
\* sink's capacity or the room of the timers' loop.
LEMMA SafeStep == Safe /\ [Next]_vars => Safe'
<1> SUFFICES ASSUME Safe, [Next]_vars PROVE Safe'
  OBVIOUS
<1> USE DEF Safe
<1>a. /\ TypeOK /\ SinkBounded /\ LoopFits
      /\ Len(Sources) \in Nat /\ Len(sink) \in Nat /\ Len(queue) \in Nat
      /\ Len(ready) \in Nat
  BY EventLoopAssumption, LenProperties DEF TypeOK
<1>b. None \in Timeout /\ 0 \in Timeout
  BY DEF Timeout
<1>1. CASE AppAddEvent
  <2>1. PICK id \in Ids : QueueAdd(id)
    BY <1>1 DEF AppAddEvent
  <2>2. NewItem("queue", id, 0) \in ItemOf("queue")
    BY <1>a, NewItemType DEF TypeOK, Kinds
  <2>3. queue' \in Seq(ItemOf("queue")) /\ serial' \in Nat
    BY <1>a, <2>1, <2>2, AppendProperties DEF QueueAdd, Accept, TypeOK
  <2>4. QED
    BY <1>1, <1>a, <2>3 DEF AppAddEvent, TypeOK, SinkBounded, LoopFits, loopVars,
       waitVars, ghostVars
<1>2. CASE AppAddDeadline \/ AppAddTimeout
  <2>1. PICK id \in Ids, due \in Nat : AddDeadline(id, due)
    BY <1>2, <1>a, EventLoopAssumption
    DEF AppAddDeadline, AppAddTimeout, AddTimeout, TypeOK
  <2>2. NewItem("timers", id, due) \in ItemOf("timers")
    BY <1>a, NewItemType DEF TypeOK, Kinds
  <2>3. IsFiniteSet(deadlines')
    BY <1>a, <2>1, FS_AddElement DEF AddDeadline, TypeOK
  <2>4. deadlines' \subseteq ItemOf("timers") /\ serial' \in Nat
    BY <1>a, <2>1, <2>2 DEF AddDeadline, Accept, TypeOK
  <2>5. QED
    BY <1>2, <1>a, <2>3, <2>4 DEF AppAddDeadline, AppAddTimeout, TypeOK,
       SinkBounded, LoopFits, loopVars, waitVars, ghostVars
<1>3. CASE AppRemoveDeadline
  <2>1. PICK d \in deadlines : RemoveDeadline(d) /\ removed' = removed \cup {d}
    BY <1>3 DEF AppRemoveDeadline, Removable
  <2>2. IsFiniteSet(deadlines')
    BY <1>a, <2>1, FS_RemoveElement DEF RemoveDeadline, TypeOK
  <2>3. QED
    BY <1>3, <1>a, <2>1, <2>2 DEF AppRemoveDeadline, RemoveDeadline, TypeOK,
       SinkBounded, LoopFits, loopVars, waitVars
<1>4. CASE AppHandle
  <2>1. sink' \in Seq(Item) /\ Head(sink) \in Item /\ Len(sink') = Len(sink) - 1
    BY <1>4, <1>a, HeadTailProperties DEF AppHandle, TypeOK
  <2>2. TypeOK'
    BY <1>4, <1>a, <2>1 DEF AppHandle, TypeOK, sourceVars, loopVars, waitVars
  <2>3. SinkBounded' /\ LoopFits'
    BY <1>4, <1>a, <2>1, EventAssumption
    DEF AppHandle, TypeOK, SinkBounded, LoopFits, loopVars
  <2>4. QED
    BY <2>2, <2>3
<1>5. CASE Kernel
  <2>1. PICK id \in Ids : OsReady(id)
    BY <1>5 DEF Kernel
  <2>2. NewItem("os", id, 0) \in ItemOf("os")
    BY <1>a, NewItemType DEF TypeOK, Kinds
  <2>3. ready' \in Seq(ItemOf("os")) /\ serial' \in Nat
    BY <1>a, <2>1, <2>2, AppendProperties DEF OsReady, Accept, TypeOK
  <2>4. QED
    BY <1>5, <1>a, <2>3 DEF Kernel, TypeOK, SinkBounded, LoopFits, loopVars,
       waitVars, ghostVars
<1>6. CASE Tick
  BY <1>6, <1>a DEF Tick, TypeOK, SinkBounded, LoopFits, sourceVars, loopVars,
     waitVars, ghostVars
<1>7. CASE AppPoll
  <2>1. PICK t \in Timeout : Poll(t)
    BY <1>7, <1>b, EventLoopAssumption DEF AppPoll, Timeout
  <2>2. QED
    BY <1>a, <2>1 DEF Poll, TypeOK, SinkBounded, LoopFits, sourceVars, waitVars
<1>8. CASE FoldTimeout
  <2>1. /\ TimersMaxTimeout \in Timeout /\ QueueMaxTimeout \in Timeout
        /\ OsMaxTimeout \in Timeout
    BY <1>a, <1>b, TimersMaxTimeoutBound
    DEF TypeOK, ItemOf, QueueMaxTimeout, OsMaxTimeout
  <2>2. Sources[at] \in Kinds
    BY <1>8, <1>a, EventLoopAssumption, ElementOfSeq DEF FoldTimeout, TypeOK
  <2>3. MaxTimeout(Sources[at]) \in Timeout
    BY <2>1, <2>2 DEF MaxTimeout, Kinds
  <2>4. timeout' \in Timeout
    BY <1>8, <1>a, <2>3, MinTimeoutBound DEF FoldTimeout, TypeOK
  <2>5. at' \in 1..(Len(Sources) + 1)
    BY <1>8, <1>a DEF FoldTimeout, TypeOK
  <2>6. QED
    BY <1>8, <1>a, <2>4, <2>5 DEF FoldTimeout, TypeOK, SinkBounded, LoopFits,
       sourceVars, waitVars, ghostVars
<1>9. CASE FoldDone
  BY <1>9, <1>a DEF FoldDone, TypeOK, SinkBounded, LoopFits, sourceVars, waitVars,
     ghostVars
<1>10. CASE PollQueue
  <2> DEFINE k == CapacityMin(CapacityLeft, Len(queue))
  <2>1. k \in 0..Len(queue) /\ (Capacity # Growable => Len(sink) + k <= Capacity)
    BY <1>a, CapacityMinFits DEF TypeOK
  <2>2. sink' = sink \o Prefix(queue, k) /\ queue' = Rest(queue, k)
    BY <1>10 DEF PollQueue, QueuePoll
  <2> HIDE DEF k
  <2>3. /\ sink' \in Seq(Item) /\ Len(sink') = Len(sink) + k
        /\ queue' \in Seq(ItemOf("queue"))
    BY <1>a, <2>1, <2>2, DrainTypes DEF TypeOK, Kinds
  <2>4. TypeOK'
    BY <1>10, <1>a, <1>b, <2>3
    DEF PollQueue, AtSource, NextSource, TypeOK, ghostVars
  <2>5. SinkBounded' /\ LoopFits'
    BY <1>10, <2>1, <2>3 DEF PollQueue, NextSource, SinkBounded, LoopFits
  <2>6. QED
    BY <2>4, <2>5
<1>11. CASE PollTimers
  <2>1. Cardinality(deadlines) \in Nat
    BY <1>a, FS_CardinalityType DEF TypeOK
  <2>2. left' \in Nat /\ (Capacity # Growable => Len(sink) + left' <= Capacity)
    BY <1>11, <1>a, <2>1, CapacityMinFits DEF PollTimers, TimersStart, TypeOK
  <2>3. QED
    BY <1>11, <1>a, <2>2 DEF PollTimers, TimersStart, AtSource, TypeOK,
       SinkBounded, LoopFits, sourceVars, ghostVars
<1>12. CASE PopTimer
  <2>1. PICK d \in deadlines : TimersPop(d)
    BY <1>12 DEF PopTimer
  <2>2. d \in Item
    BY <1>a, <2>1 DEF TypeOK, ItemOf
  <2>3. sink' \in Seq(Item) /\ Len(sink') = Len(sink) + 1
    BY <1>a, <2>1, <2>2, AppendProperties DEF TimersPop, TypeOK
  <2>4. IsFiniteSet(deadlines')
    BY <1>a, <2>1, FS_RemoveElement DEF TimersPop, TypeOK
  <2>5. left' \in Nat /\ left' = left - 1
    BY <1>a, <2>1 DEF TimersPop, TypeOK
  <2>6. TypeOK'
    BY <1>12, <1>a, <2>1, <2>3, <2>4, <2>5
    DEF PopTimer, TimersPop, TypeOK, loopVars, ghostVars
  <2>7. SinkBounded' /\ LoopFits'
    BY <1>12, <1>a, <2>3, <2>5, EventAssumption
    DEF PopTimer, TypeOK, SinkBounded, LoopFits, loopVars
  <2>8. QED
    BY <2>6, <2>7
<1>13. CASE TimersDone
  BY <1>13, <1>a, <1>b DEF TimersDone, NextSource, TypeOK, SinkBounded, LoopFits,
     sourceVars, ghostVars
<1>14. CASE SelectFull
  BY <1>14, <1>a, <1>b DEF SelectFull, AtSource, NextSource, TypeOK, SinkBounded,
     LoopFits, sourceVars, ghostVars
<1>15. CASE Select
  <2>1. (IF at = 1 THEN timeout ELSE 0) \in Timeout
    BY <1>a, <1>b DEF TypeOK
  <2>2. PICK t \in Timeout : SelectStart(t)
    BY <1>15, <2>1 DEF Select
  <2>3. waitStart' \in Nat /\ waitEnd' \in Timeout
    <3>1. CASE t = None
      BY <1>a, <2>2, <3>1 DEF SelectStart, Timeout, TypeOK
    <3>2. CASE t # None
      <4>1. DurationToMillis(t) * Granularity \in Nat
        BY <3>2, MillisBound DEF Timeout
      <4>2. QED
        BY <1>a, <2>2, <3>2, <4>1 DEF SelectStart, Timeout, TypeOK
    <3>3. QED
      BY <3>1, <3>2
  <2>4. QED
    BY <1>15, <1>a, <2>3 DEF Select, AtSource, TypeOK, SinkBounded, LoopFits,
       sourceVars, ghostVars
<1>16. CASE SelectReturns
  <2> DEFINE k == CapacityMin(SelectRoom, Len(ready))
  <2>1. SelectRoom \in Nat /\ (Capacity # Growable => Len(sink) + SelectRoom <= Capacity)
    BY <1>a, SelectRoomFits DEF TypeOK
  <2>2. k \in 0..Len(ready) /\ k <= SelectRoom
    BY <1>a, <2>1, EventAssumption DEF CapacityMin
  <2>3. sink' = sink \o Prefix(ready, k) /\ ready' = Rest(ready, k)
    BY <1>16 DEF SelectReturns, SelectEvents
  <2> HIDE DEF k
  <2>4. /\ sink' \in Seq(Item) /\ Len(sink') = Len(sink) + k
        /\ ready' \in Seq(ItemOf("os"))
    BY <1>a, <2>2, <2>3, DrainTypes DEF TypeOK, Kinds
  <2>5. TypeOK'
    BY <1>16, <1>a, <1>b, <2>4 DEF SelectReturns, NextSource, TypeOK, ghostVars
  <2>6. Capacity # Growable => Capacity \in Nat
    BY EventAssumption
  <2>7. SinkBounded' /\ LoopFits'
    BY <1>16, <1>a, <2>1, <2>2, <2>4, <2>6
    DEF SelectReturns, NextSource, SinkBounded, LoopFits
  <2>8. QED
    BY <2>5, <2>7
<1>17. CASE SelectTimedOut
  BY <1>17, <1>a, <1>b DEF SelectTimedOut, NextSource, TypeOK, SinkBounded,
     LoopFits, sourceVars, ghostVars
<1>18. CASE SelectFails
  BY <1>18, <1>a, <1>b, EventLoopAssumption DEF SelectFails, Leave, TypeOK,
     SinkBounded, LoopFits, sourceVars
<1>19. CASE Return
  BY <1>19, <1>a, <1>b DEF Return, Leave, TypeOK, SinkBounded, LoopFits, sourceVars
<1>20. CASE UNCHANGED vars
  BY <1>20, <1>a DEF vars, TypeOK, SinkBounded, LoopFits, sourceVars, loopVars,
     waitVars, ghostVars
<1>21. QED
  BY <1>1, <1>2, <1>3, <1>4, <1>5, <1>6, <1>7, <1>8, <1>9, <1>10, <1>11, <1>12,
     <1>13, <1>14, <1>15, <1>16, <1>17, <1>18, <1>19, <1>20
  DEF Next, App, PollStep

\* Types, capacity and loop room hold together, always.
LEMMA SafeInvariant == Spec => []Safe
BY SafeInit, SafeStep, PTL DEF Spec

\* The type invariant of the event loop.
THEOREM TypeInvariant == Spec => []TypeOK
BY SafeInvariant, PTL DEF Safe

\* Whatever the capacity, the order of the sources and the timing, the three
\* sources together never put more events into the sink than fit.
THEOREM SinkNeverOverflows == Spec => []SinkBounded
BY SafeInvariant, PTL DEF Safe

-----------------------------------------------------------------------------
(* Nothing is lost, nothing comes twice.                                   *)

\* Appending an element a list does not have.
LEMMA AppendOnce ==
    ASSUME NEW S, NEW s \in Seq(S), NEW e \in S
    PROVE  /\ Range(Append(s, e)) = Range(s) \cup {e}
           /\ IsInjective(s) /\ e \notin Range(s) => IsInjective(Append(s, e))
<1>1. /\ Append(s, e) \in Seq(S) /\ Len(Append(s, e)) = Len(s) + 1 /\ Len(s) \in Nat
      /\ \A i \in 1..Len(s) : Append(s, e)[i] = s[i]
      /\ Append(s, e)[Len(s) + 1] = e
  BY AppendProperties, LenProperties
<1>2. DOMAIN s = 1..Len(s) /\ DOMAIN Append(s, e) = 1..(Len(s) + 1)
  BY <1>1, LenProperties
<1>3. Range(Append(s, e)) = Range(s) \cup {e}
  BY <1>1, <1>2 DEF Range
<1>4. ASSUME IsInjective(s), e \notin Range(s) PROVE IsInjective(Append(s, e))
  BY <1>1, <1>2, <1>4 DEF IsInjective, Range
<1>5. QED
  BY <1>3, <1>4

\* Cutting a list in two.
LEMMA CutOnce ==
    ASSUME NEW S, NEW s \in Seq(S), NEW k \in 0..Len(s)
    PROVE  /\ Range(s) = Range(Prefix(s, k)) \cup Range(Rest(s, k))
           /\ IsInjective(s) =>
                /\ IsInjective(Prefix(s, k)) /\ IsInjective(Rest(s, k))
                /\ Range(Prefix(s, k)) \cap Range(Rest(s, k)) = {}
<1> DEFINE p == Prefix(s, k)
           r == Rest(s, k)
<1>1. Len(s) \in Nat /\ k \in Nat /\ k <= Len(s)
  BY LenProperties
<1>2. /\ p \in Seq(S) /\ Len(p) = k /\ r \in Seq(S) /\ Len(r) = Len(s) - k
      /\ \A i \in 1..k : p[i] = s[i]
      /\ \A i \in 1..(Len(s) - k) : r[i] = s[k + i]
  BY CutSeq
<1> HIDE DEF p, r
<1>3. DOMAIN s = 1..Len(s) /\ DOMAIN p = 1..k /\ DOMAIN r = 1..(Len(s) - k)
  BY <1>2, LenProperties
<1>4. ASSUME NEW i \in 1..Len(s) PROVE s[i] \in Range(p) \cup Range(r)
  <2>1. CASE i <= k
    BY <1>1, <1>2, <1>3, <2>1 DEF Range
  <2>2. CASE i > k
    <3>1. i - k \in 1..(Len(s) - k) /\ k + (i - k) = i
      BY <1>1, <2>2
    <3>2. r[i - k] = s[i]
      BY <1>2, <3>1
    <3>3. QED
      BY <1>3, <3>1, <3>2 DEF Range
  <2>3. QED
    BY <1>1, <2>1, <2>2
<1>5. Range(p) \subseteq Range(s)
  BY <1>1, <1>2, <1>3 DEF Range
<1>6. Range(r) \subseteq Range(s)
  <2>1. \A i \in 1..(Len(s) - k) : k + i \in 1..Len(s) /\ r[i] = s[k + i]
    BY <1>1, <1>2
  <2>2. QED
    BY <1>3, <2>1 DEF Range
<1>7. Range(s) = Range(p) \cup Range(r)
  <2>1. Range(s) \subseteq Range(p) \cup Range(r)
    BY <1>3, <1>4 DEF Range
  <2>2. QED
    BY <2>1, <1>5, <1>6
<1>8. ASSUME IsInjective(s)
      PROVE  IsInjective(p) /\ IsInjective(r) /\ Range(p) \cap Range(r) = {}
  <2>1. \A i, j \in 1..Len(s) : s[i] = s[j] => i = j
    BY <1>3, <1>8 DEF IsInjective
  <2>2. IsInjective(p)
    BY <1>1, <1>2, <1>3, <2>1 DEF IsInjective
  <2>3. IsInjective(r)
    <3>1. SUFFICES ASSUME NEW i \in 1..(Len(s) - k), NEW j \in 1..(Len(s) - k),
                          r[i] = r[j]
                   PROVE  i = j
      BY <1>3 DEF IsInjective
    <3>2. k + i \in 1..Len(s) /\ k + j \in 1..Len(s) /\ s[k + i] = s[k + j]
      BY <1>1, <1>2, <3>1
    <3>3. QED
      BY <1>1, <2>1, <3>2
  <2>4. Range(p) \cap Range(r) = {}
    <3>1. SUFFICES ASSUME NEW i \in 1..k, NEW j \in 1..(Len(s) - k), p[i] = r[j]
                   PROVE  FALSE
      BY <1>3 DEF Range
    <3>2. i \in 1..Len(s) /\ k + j \in 1..Len(s) /\ s[i] = s[k + j]
      BY <1>1, <1>2, <3>1
    <3>3. i = k + j
      BY <2>1, <3>2
    <3>4. QED
      BY <1>1, <3>3
  <2>5. QED
    BY <2>2, <2>3, <2>4
<1>9. QED
  BY <1>7, <1>8 DEF p, r

\* Concatenating lists that have nothing in common.
LEMMA ConcatOnce ==
    ASSUME NEW S, NEW s \in Seq(S), NEW t \in Seq(S),
           IsInjective(s), IsInjective(t), Range(s) \cap Range(t) = {}
    PROVE  IsInjective(s \o t)
<1> DEFINE c == s \o t
<1>1. /\ Len(s) \in Nat /\ Len(t) \in Nat /\ DOMAIN s = 1..Len(s) /\ DOMAIN t = 1..Len(t)
  BY LenProperties
<1>2. /\ c \in Seq(S) /\ Len(c) = Len(s) + Len(t)
      /\ \A i \in 1..(Len(s) + Len(t)) :
            c[i] = IF i <= Len(s) THEN s[i] ELSE t[i - Len(s)]
  BY ConcatProperties
<1> HIDE DEF c
<1>3. DOMAIN c = 1..(Len(s) + Len(t))
  BY <1>2, LenProperties
<1>4. ASSUME NEW i \in 1..(Len(s) + Len(t)), NEW j \in 1..(Len(s) + Len(t)),
             c[i] = c[j]
      PROVE  i = j
  <2>1. CASE i <= Len(s) /\ j <= Len(s)
    BY <1>1, <1>2, <1>4, <2>1 DEF IsInjective
  <2>2. CASE i <= Len(s) /\ j > Len(s)
    <3>1. i \in 1..Len(s) /\ j - Len(s) \in 1..Len(t) /\ s[i] = t[j - Len(s)]
      BY <1>1, <1>2, <1>4, <2>2
    <3>2. QED
      BY <1>1, <3>1 DEF Range
  <2>3. CASE i > Len(s) /\ j <= Len(s)
    <3>1. j \in 1..Len(s) /\ i - Len(s) \in 1..Len(t) /\ s[j] = t[i - Len(s)]
      BY <1>1, <1>2, <1>4, <2>3
    <3>2. QED
      BY <1>1, <3>1 DEF Range
  <2>4. CASE i > Len(s) /\ j > Len(s)
    <3>1. i - Len(s) \in 1..Len(t) /\ j - Len(s) \in 1..Len(t)
      BY <1>1, <2>4
    <3>2. t[i - Len(s)] = t[j - Len(s)]
      BY <1>1, <1>2, <1>4, <2>4
    <3>3. i - Len(s) = j - Len(s)
      BY <1>1, <3>1, <3>2 DEF IsInjective
    <3>4. QED
      BY <1>1, <3>3
  <2>5. QED
    BY <1>1, <2>1, <2>2, <2>3, <2>4
<1>5. QED
  BY <1>3, <1>4 DEF IsInjective, c

\* Taking the first element off a list.
LEMMA TailOnce ==
    ASSUME NEW S, NEW s \in Seq(S), s # <<>>
    PROVE  /\ Range(s) = {Head(s)} \cup Range(Tail(s))
           /\ IsInjective(s) => IsInjective(Tail(s)) /\ Head(s) \notin Range(Tail(s))
<1>1. /\ Len(s) \in Nat /\ Len(s) > 0 /\ DOMAIN s = 1..Len(s)
  BY LenProperties, EmptySeq
<1>2. /\ Tail(s) \in Seq(S) /\ Len(Tail(s)) = Len(s) - 1
      /\ \A i \in 1..(Len(s) - 1) : Tail(s)[i] = s[i + 1]
  BY <1>1, HeadTailProperties
<1>3. DOMAIN Tail(s) = 1..(Len(s) - 1) /\ Head(s) = s[1]
  BY <1>1, <1>2, LenProperties
<1> DEFINE r == Tail(s)
           h == Head(s)
<1> HIDE DEF r, h
<1>4. /\ DOMAIN r = 1..(Len(s) - 1) /\ h = s[1]
      /\ \A i \in 1..(Len(s) - 1) : r[i] = s[i + 1]
  BY <1>2, <1>3 DEF r, h
<1>5. ASSUME NEW i \in 1..Len(s) PROVE s[i] \in {h} \cup Range(r)
  <2>1. CASE i = 1
    BY <1>4, <2>1
  <2>2. CASE i # 1
    <3>1. i - 1 \in 1..(Len(s) - 1) /\ (i - 1) + 1 = i
      BY <1>1, <2>2
    <3>2. r[i - 1] = s[i]
      BY <1>4, <3>1
    <3>3. QED
      BY <1>4, <3>1, <3>2 DEF Range
  <2>3. QED
    BY <2>1, <2>2
<1>6. {h} \cup Range(r) \subseteq Range(s)
  BY <1>1, <1>4 DEF Range
<1>7. Range(s) = {h} \cup Range(r)
  <2>1. Range(s) \subseteq {h} \cup Range(r)
    BY <1>1, <1>5 DEF Range
  <2>2. QED
    BY <2>1, <1>6
<1>8. ASSUME IsInjective(s) PROVE IsInjective(r) /\ h \notin Range(r)
  <2>1. \A i, j \in 1..Len(s) : s[i] = s[j] => i = j
    BY <1>1, <1>8 DEF IsInjective
  <2>2. ASSUME NEW i \in 1..(Len(s) - 1), NEW j \in 1..(Len(s) - 1), r[i] = r[j]
        PROVE  i = j
    <3>1. i + 1 \in 1..Len(s) /\ j + 1 \in 1..Len(s) /\ s[i + 1] = s[j + 1]
      BY <1>1, <1>4, <2>2
    <3>2. i + 1 = j + 1
      BY <2>1, <3>1
    <3>3. QED
      BY <3>2
  <2>3. ASSUME NEW i \in 1..(Len(s) - 1) PROVE r[i] # h
    <3>1. i + 1 \in 1..Len(s) /\ 1 \in 1..Len(s) /\ i + 1 # 1 /\ r[i] = s[i + 1]
      BY <1>1, <1>4
    <3>2. QED
      BY <1>4, <2>1, <3>1
  <2>4. QED
    BY <1>4, <2>2, <2>3 DEF IsInjective, Range
<1>9. QED
  BY <1>7, <1>8 DEF r, h

Conserved == NothingLost /\ NothingTwice

\* The lists of the sources have nothing in common.
LEMMA SourcesApart ==
    ASSUME TypeOK
    PROVE  /\ \A i \in deadlines : i.src = "timers"
           /\ \A i \in Range(queue) : i.src = "queue"
           /\ \A i \in Range(ready) : i.src = "os"
           /\ Everything \subseteq Item
<1>1. deadlines \subseteq ItemOf("timers") /\ removed \subseteq ItemOf("timers")
      /\ handled \subseteq Item
  BY DEF TypeOK
<1>2. Range(queue) \subseteq ItemOf("queue") /\ Range(ready) \subseteq ItemOf("os")
      /\ Range(sink) \subseteq Item
  BY RangeOfSeq DEF TypeOK
<1>3. QED
  BY <1>1, <1>2 DEF ItemOf, Everything, Waiting

\* A new item is new, and keeps the numbers complete and unique.
LEMMA AcceptConserves ==
    ASSUME serial \in Nat, NothingLost, NothingTwice,
           NEW x, x.n = serial + 1, serial' = serial + 1,
           Everything' = Everything \cup {x}
    PROVE  /\ x \notin Everything
           /\ NothingLost'
           /\ (\A i, j \in Everything : i.n = j.n => i = j)'
<1>1. \A i \in Everything : i.n \in 1..serial
  BY DEF NothingLost
<1>2. x \notin Everything
  BY <1>1
<1>3. \A i \in Everything : i.n # x.n
  BY <1>1
<1>4. (\A i, j \in Everything : i.n = j.n => i = j)'
  BY <1>3 DEF NothingTwice
<1>5. {i.n : i \in Everything'} = {i.n : i \in Everything} \cup {serial + 1}
  OBVIOUS
<1>6. 1..(serial + 1) = (1..serial) \cup {serial + 1}
  OBVIOUS
<1>7. NothingLost'
  BY <1>5, <1>6 DEF NothingLost
<1>8. QED
  BY <1>2, <1>4, <1>7

\* What moves within Everything keeps its numbers.
LEMMA MoveConserves ==
    ASSUME NothingLost, NothingTwice, serial' = serial, Everything' = Everything
    PROVE  /\ NothingLost'
           /\ (\A i, j \in Everything : i.n = j.n => i = j)'
BY DEF NothingLost, NothingTwice

\* At the start there are no events to lose.
LEMMA ConservedInit == Init => Conserved
<1>1. SUFFICES ASSUME Init PROVE Conserved
  OBVIOUS
<1>2. DOMAIN <<>> = {}
  BY EmptySeq, LenProperties
<1>3. Range(queue) = {} /\ Range(ready) = {} /\ Range(sink) = {}
  BY <1>1, <1>2 DEF Init, Range
<1>4. Everything = {} /\ serial = 0
  BY <1>1, <1>3 DEF Init, Everything, Waiting
<1>5. NothingLost
  BY <1>4 DEF NothingLost
<1>6. IsInjective(queue) /\ IsInjective(ready) /\ IsInjective(sink)
  BY <1>1, <1>2 DEF Init, IsInjective
<1>7. NothingTwice
  BY <1>1, <1>3, <1>4, <1>6 DEF Init, NothingTwice, Waiting
<1>8. QED
  BY <1>5, <1>7 DEF Conserved

\* No step loses an event or leaves it in two places.
LEMMA ConservedStep == Safe /\ Conserved /\ [Next]_vars => Conserved'
<1> SUFFICES ASSUME Safe, Conserved, [Next]_vars PROVE Conserved'
  OBVIOUS
<1>a. /\ TypeOK /\ SinkBounded /\ NothingLost /\ NothingTwice /\ serial \in Nat
      /\ Len(queue) \in Nat /\ Len(ready) \in Nat
  BY LenProperties DEF Safe, Conserved, TypeOK
<1>b. /\ \A i \in deadlines : i.src = "timers"
      /\ \A i \in Range(queue) : i.src = "queue"
      /\ \A i \in Range(ready) : i.src = "os"
  BY <1>a, SourcesApart
<1>1. CASE AppAddEvent
  <2>1. PICK id \in Ids : QueueAdd(id)
    BY <1>1 DEF AppAddEvent
  <2> DEFINE x == NewItem("queue", id, 0)
  <2>2. x \in ItemOf("queue") /\ x.n = serial + 1
    BY <1>a, NewItemType DEF NewItem, Kinds
  <2>3. queue' = Append(queue, x) /\ serial' = serial + 1
    BY <2>1 DEF QueueAdd, Accept
  <2>4. UNCHANGED <<sink, deadlines, ready, handled, removed>>
    BY <1>1 DEF AppAddEvent, ghostVars
  <2> HIDE DEF x
  <2>5. /\ Range(queue') = Range(queue) \cup {x}
        /\ x \notin Range(queue) => IsInjective(queue')
    BY <1>a, <2>2, <2>3, AppendOnce DEF TypeOK, NothingTwice
  <2>6. Everything' = Everything \cup {x} /\ Waiting' = Waiting \cup {x}
    BY <2>4, <2>5 DEF Everything, Waiting
  <2>7. /\ x \notin Everything /\ NothingLost'
        /\ (\A i, j \in Everything : i.n = j.n => i = j)'
    BY <1>a, <2>2, <2>3, <2>6, AcceptConserves
  <2>8. NothingTwice'
    BY <1>a, <2>4, <2>5, <2>6, <2>7 DEF NothingTwice, Everything, Waiting
  <2>9. QED
    BY <2>7, <2>8 DEF Conserved
<1>2. CASE AppAddDeadline \/ AppAddTimeout
  <2>1. PICK id \in Ids, due \in Nat : AddDeadline(id, due)
    BY <1>2, <1>a, EventLoopAssumption
    DEF AppAddDeadline, AppAddTimeout, AddTimeout, TypeOK
  <2> DEFINE x == NewItem("timers", id, due)
  <2>2. x.n = serial + 1
    BY DEF NewItem
  <2>3. deadlines' = deadlines \cup {x} /\ serial' = serial + 1
    BY <2>1 DEF AddDeadline, Accept
  <2>4. UNCHANGED <<sink, queue, ready, handled, removed>>
    BY <1>2 DEF AppAddDeadline, AppAddTimeout, ghostVars
  <2> HIDE DEF x
  <2>6. Everything' = Everything \cup {x} /\ Waiting' = Waiting \cup {x}
    BY <2>3, <2>4 DEF Everything, Waiting
  <2>7. /\ x \notin Everything /\ NothingLost'
        /\ (\A i, j \in Everything : i.n = j.n => i = j)'
    BY <1>a, <2>2, <2>3, <2>6, AcceptConserves
  <2>8. NothingTwice'
    BY <1>a, <2>4, <2>6, <2>7 DEF NothingTwice, Everything, Waiting
  <2>9. QED
    BY <2>7, <2>8 DEF Conserved
<1>3. CASE AppRemoveDeadline
  <2>1. PICK d \in deadlines : deadlines' = deadlines \ {d} /\ removed' = removed \cup {d}
    BY <1>3 DEF AppRemoveDeadline, Removable, RemoveDeadline
  <2>2. UNCHANGED <<serial, sink, queue, ready, handled>>
    BY <1>3 DEF AppRemoveDeadline
  <2>3. d \notin Range(queue) \cup Range(ready)
    BY <1>b
  <2>4. Waiting' = Waiting \ {d} /\ d \in Waiting
    BY <2>1, <2>2, <2>3 DEF Waiting
  <2>5. Everything' = Everything
    BY <2>1, <2>2, <2>4 DEF Everything
  <2>6. NothingLost' /\ (\A i, j \in Everything : i.n = j.n => i = j)'
    BY <1>a, <2>2, <2>5, MoveConserves
  <2>7. NothingTwice'
    BY <1>a, <2>1, <2>2, <2>4, <2>6 DEF NothingTwice
  <2>8. QED
    BY <2>6, <2>7 DEF Conserved
<1>4. CASE AppHandle
  <2>1. /\ sink' = Tail(sink) /\ sink # <<>> /\ handled' = handled \cup {Head(sink)}
        /\ UNCHANGED <<serial, deadlines, queue, ready, removed>>
    BY <1>4 DEF AppHandle, sourceVars
  <2>2. /\ Range(sink) = {Head(sink)} \cup Range(sink')
        /\ IsInjective(sink') /\ Head(sink) \notin Range(sink')
    BY <1>a, <2>1, TailOnce DEF TypeOK, NothingTwice
  <2>3. Everything' = Everything /\ Waiting' = Waiting
    BY <2>1, <2>2 DEF Everything, Waiting
  <2>4. NothingLost' /\ (\A i, j \in Everything : i.n = j.n => i = j)'
    BY <1>a, <2>1, <2>3, MoveConserves
  <2>5. NothingTwice'
    BY <1>a, <2>1, <2>2, <2>3, <2>4 DEF NothingTwice
  <2>6. QED
    BY <2>4, <2>5 DEF Conserved
<1>5. CASE Kernel
  <2>1. PICK id \in Ids : OsReady(id)
    BY <1>5 DEF Kernel
  <2> DEFINE x == NewItem("os", id, 0)
  <2>2. x \in ItemOf("os") /\ x.n = serial + 1
    BY <1>a, NewItemType DEF NewItem, Kinds
  <2>3. ready' = Append(ready, x) /\ serial' = serial + 1
    BY <2>1 DEF OsReady, Accept
  <2>4. UNCHANGED <<sink, deadlines, queue, handled, removed>>
    BY <1>5 DEF Kernel, ghostVars
  <2> HIDE DEF x
  <2>5. /\ Range(ready') = Range(ready) \cup {x}
        /\ x \notin Range(ready) => IsInjective(ready')
    BY <1>a, <2>2, <2>3, AppendOnce DEF TypeOK, NothingTwice
  <2>6. Everything' = Everything \cup {x} /\ Waiting' = Waiting \cup {x}
    BY <2>4, <2>5 DEF Everything, Waiting
  <2>7. /\ x \notin Everything /\ NothingLost'
        /\ (\A i, j \in Everything : i.n = j.n => i = j)'
    BY <1>a, <2>2, <2>3, <2>6, AcceptConserves
  <2>8. NothingTwice'
    BY <1>a, <2>4, <2>5, <2>6, <2>7 DEF NothingTwice, Everything, Waiting
  <2>9. QED
    BY <2>7, <2>8 DEF Conserved
<1>6. CASE PollQueue
  <2> DEFINE k == CapacityMin(CapacityLeft, Len(queue))
             P == Range(Prefix(queue, k))
  <2>1. k \in 0..Len(queue)
    BY <1>a, CapacityMinFits DEF TypeOK
  <2>2. sink' = sink \o Prefix(queue, k) /\ queue' = Rest(queue, k)
    BY <1>6 DEF PollQueue, QueuePoll
  <2>3. UNCHANGED <<serial, deadlines, ready, handled, removed>>
    BY <1>6 DEF PollQueue, ghostVars
  <2> HIDE DEF k
  <2>4. /\ Range(queue) = P \cup Range(queue') /\ P \cap Range(queue') = {}
        /\ IsInjective(Prefix(queue, k)) /\ IsInjective(queue')
    BY <1>a, <2>1, <2>2, CutOnce DEF TypeOK, NothingTwice
  <2>5. Prefix(queue, k) \in Seq(Item)
    BY <1>a, <2>1, CutSeq, SeqMonotonic DEF TypeOK, ItemOf
  <2>6. Range(sink') = Range(sink) \cup P
    BY <1>a, <2>2, <2>5, RangeConcatenation DEF TypeOK
  <2>7. P \cap Range(sink) = {}
    BY <1>a, <2>4 DEF NothingTwice, Waiting
  <2>8. IsInjective(sink')
    BY <1>a, <2>2, <2>4, <2>5, <2>7, ConcatOnce DEF TypeOK, NothingTwice
  <2> HIDE DEF P
  <2>9. Waiting' = Waiting \ P /\ P \subseteq Waiting
    BY <1>b, <2>3, <2>4 DEF Waiting
  <2>10. Everything' = Everything
    BY <2>3, <2>6, <2>9 DEF Everything
  <2>11. NothingLost' /\ (\A i, j \in Everything : i.n = j.n => i = j)'
    BY <1>a, <2>3, <2>10, MoveConserves
  <2>12. NothingTwice'
    BY <1>a, <2>3, <2>4, <2>6, <2>8, <2>9, <2>11 DEF NothingTwice
  <2>13. QED
    BY <2>11, <2>12 DEF Conserved
<1>7. CASE PopTimer
  <2>1. PICK d \in deadlines : deadlines' = deadlines \ {d} /\ sink' = Append(sink, d)
    BY <1>7 DEF PopTimer, TimersPop
  <2>2. UNCHANGED <<serial, queue, ready, handled, removed>>
    BY <1>7 DEF PopTimer, ghostVars
  <2>3. d \in Item /\ d \in Waiting /\ d \notin Range(queue) \cup Range(ready)
    BY <1>a, <1>b DEF TypeOK, ItemOf, Waiting
  <2>4. Range(sink') = Range(sink) \cup {d} /\ IsInjective(sink')
    <3>1. d \notin Range(sink) /\ IsInjective(sink)
      BY <1>a, <2>3 DEF NothingTwice
    <3>2. QED
      BY <1>a, <2>1, <2>3, <3>1, AppendOnce DEF TypeOK
  <2>5. Waiting' = Waiting \ {d}
    BY <2>1, <2>2, <2>3 DEF Waiting
  <2>6. Everything' = Everything
    BY <2>2, <2>3, <2>4, <2>5 DEF Everything
  <2>7. NothingLost' /\ (\A i, j \in Everything : i.n = j.n => i = j)'
    BY <1>a, <2>2, <2>6, MoveConserves
  <2>8. NothingTwice'
    BY <1>a, <2>2, <2>3, <2>4, <2>5, <2>7 DEF NothingTwice
  <2>9. QED
    BY <2>7, <2>8 DEF Conserved
<1>8. CASE SelectReturns
  <2> DEFINE k == CapacityMin(SelectRoom, Len(ready))
             P == Range(Prefix(ready, k))
  <2>1. k \in 0..Len(ready)
    BY <1>a, SelectRoomFits, EventAssumption DEF CapacityMin, TypeOK
  <2>2. sink' = sink \o Prefix(ready, k) /\ ready' = Rest(ready, k)
    BY <1>8 DEF SelectReturns, SelectEvents
  <2>3. UNCHANGED <<serial, deadlines, queue, handled, removed>>
    BY <1>8 DEF SelectReturns, ghostVars
  <2> HIDE DEF k
  <2>4. /\ Range(ready) = P \cup Range(ready') /\ P \cap Range(ready') = {}
        /\ IsInjective(Prefix(ready, k)) /\ IsInjective(ready')
    BY <1>a, <2>1, <2>2, CutOnce DEF TypeOK, NothingTwice
  <2>5. Prefix(ready, k) \in Seq(Item)
    BY <1>a, <2>1, CutSeq, SeqMonotonic DEF TypeOK, ItemOf
  <2>6. Range(sink') = Range(sink) \cup P
    BY <1>a, <2>2, <2>5, RangeConcatenation DEF TypeOK
  <2>7. P \cap Range(sink) = {}
    BY <1>a, <2>4 DEF NothingTwice, Waiting
  <2>8. IsInjective(sink')
    BY <1>a, <2>2, <2>4, <2>5, <2>7, ConcatOnce DEF TypeOK, NothingTwice
  <2> HIDE DEF P
  <2>9. Waiting' = Waiting \ P /\ P \subseteq Waiting
    BY <1>b, <2>3, <2>4 DEF Waiting
  <2>10. Everything' = Everything
    BY <2>3, <2>6, <2>9 DEF Everything
  <2>11. NothingLost' /\ (\A i, j \in Everything : i.n = j.n => i = j)'
    BY <1>a, <2>3, <2>10, MoveConserves
  <2>12. NothingTwice'
    BY <1>a, <2>3, <2>4, <2>6, <2>8, <2>9, <2>11 DEF NothingTwice
  <2>13. QED
    BY <2>11, <2>12 DEF Conserved
<1>9. CASE UNCHANGED <<serial, sink, deadlines, queue, ready, handled, removed>>
  <2>1. Waiting' = Waiting /\ Everything' = Everything /\ serial' = serial
    BY <1>9 DEF Waiting, Everything
  <2>2. QED
    BY <1>a, <1>9, <2>1 DEF Conserved, NothingLost, NothingTwice
<1>10. CASE \/ Tick \/ AppPoll \/ FoldTimeout \/ FoldDone \/ PollTimers \/ TimersDone
            \/ SelectFull \/ Select \/ SelectTimedOut \/ SelectFails \/ Return
            \/ UNCHANGED vars
  BY <1>9, <1>10 DEF Tick, AppPoll, Poll, FoldTimeout, FoldDone, PollTimers, TimersDone,
     SelectFull, Select, SelectTimedOut, SelectFails, Return, vars, sourceVars, ghostVars
<1>11. QED
  BY <1>1, <1>2, <1>3, <1>4, <1>5, <1>6, <1>7, <1>8, <1>10 DEF Next, App, PollStep

\* Every event is in one place, always.
LEMMA ConservedInvariant == Spec => []Conserved
<1>1. Conserved /\ Safe /\ [Next]_vars => Conserved'
  BY ConservedStep
<1>2. QED
  BY <1>1, ConservedInit, SafeInvariant, PTL DEF Spec

\* No event is ever lost, through full sinks and failing kernel calls.
THEOREM NothingIsLost == Spec => []NothingLost
BY ConservedInvariant, PTL DEF Conserved

\* No event is delivered twice, and no removed deadline is delivered.
THEOREM NothingComesTwice == Spec => []NothingTwice
BY ConservedInvariant, PTL DEF Conserved

-----------------------------------------------------------------------------
(* What the three steps that deliver do.                                   *)

\* Queue::poll moves a prefix of the queue to the end of the sink.
LEMMA QueueMoves ==
    ASSUME Safe, PollQueue
    PROVE  \E k \in 0..Len(queue) :
              /\ queue' = Rest(queue, k) /\ Len(queue') = Len(queue) - k
              /\ Len(sink') = Len(sink) + k
              /\ Range(sink') = Range(sink) \cup Range(Prefix(queue, k))
              /\ Range(Prefix(queue, k)) \subseteq Range(queue)
              /\ SinkHasRoom' => k = Len(queue)
<1>1. sink \in Seq(Item) /\ queue \in Seq(ItemOf("queue")) /\ SinkBounded
  BY DEF Safe, TypeOK
<1>2. Len(sink) \in Nat /\ Len(queue) \in Nat
  BY <1>1, LenProperties
<1> DEFINE k == CapacityMin(CapacityLeft, Len(queue))
<1>3. k \in 0..Len(queue) /\ (Capacity # Growable => Len(sink) + k <= Capacity)
  BY <1>1, <1>2, CapacityMinFits
<1>4. sink' = sink \o Prefix(queue, k) /\ queue' = Rest(queue, k)
  BY DEF PollQueue, QueuePoll
<1>5. k = Len(queue) \/ (Capacity # Growable /\ k = Capacity - Len(sink))
  BY DEF CapacityMin, CapacityLeft
<1> HIDE DEF k
<1>6. /\ Len(sink') = Len(sink) + k /\ Prefix(queue, k) \in Seq(Item)
      /\ Len(queue') = Len(queue) - k
  <2>1. /\ Prefix(queue, k) \in Seq(ItemOf("queue")) /\ Len(Prefix(queue, k)) = k
        /\ Len(Rest(queue, k)) = Len(queue) - k
    BY <1>1, <1>3, CutSeq
  <2>2. Prefix(queue, k) \in Seq(Item)
    BY <2>1, SeqMonotonic DEF ItemOf
  <2>3. QED
    BY <1>1, <1>4, <2>1, <2>2, ConcatProperties
<1>7. Range(sink') = Range(sink) \cup Range(Prefix(queue, k))
  BY <1>1, <1>4, <1>6, RangeConcatenation
<1>8. Range(Prefix(queue, k)) \subseteq Range(queue)
  BY <1>1, <1>3, CutOnce
<1>9. SinkHasRoom' => k = Len(queue)
  BY <1>2, <1>3, <1>5, <1>6, EventAssumption DEF SinkHasRoom
<1>10. QED
  BY <1>3, <1>4, <1>6, <1>7, <1>8, <1>9

\* select moves a prefix of the kernel's list to the end of the sink.
LEMMA SelectMoves ==
    ASSUME Safe, SelectReturns
    PROVE  \E k \in 0..Len(ready) :
              /\ ready' = Rest(ready, k)
              /\ Len(sink') = Len(sink) + k
              /\ Range(sink') = Range(sink) \cup Range(Prefix(ready, k))
              /\ Range(Prefix(ready, k)) \subseteq Range(ready)
<1>1. sink \in Seq(Item) /\ ready \in Seq(ItemOf("os")) /\ SinkBounded
  BY DEF Safe, TypeOK
<1>2. Len(sink) \in Nat /\ Len(ready) \in Nat
  BY <1>1, LenProperties
<1> DEFINE k == CapacityMin(SelectRoom, Len(ready))
<1>3. k \in 0..Len(ready)
  BY <1>1, <1>2, SelectRoomFits, EventAssumption DEF CapacityMin
<1>4. sink' = sink \o Prefix(ready, k) /\ ready' = Rest(ready, k)
  BY DEF SelectReturns, SelectEvents
<1> HIDE DEF k
<1>5. Prefix(ready, k) \in Seq(Item) /\ Len(Prefix(ready, k)) = k
  BY <1>1, <1>3, CutSeq, SeqMonotonic DEF ItemOf
<1>6. Len(sink') = Len(sink) + k
  BY <1>1, <1>4, <1>5, ConcatProperties
<1>7. Range(sink') = Range(sink) \cup Range(Prefix(ready, k))
  BY <1>1, <1>4, <1>5, RangeConcatenation
<1>8. Range(Prefix(ready, k)) \subseteq Range(ready)
  BY <1>1, <1>3, CutOnce
<1>9. QED
  BY <1>3, <1>4, <1>6, <1>7, <1>8

\* An iteration of Timers::poll moves one entry that had passed when poll looked
\* at the clock.
LEMMA PopMoves ==
    ASSUME Safe, PopTimer
    PROVE  \E d \in deadlines :
              /\ d.due \in Nat /\ d.due <= sampled
              /\ deadlines' = deadlines \ {d}
              /\ Cardinality(deadlines') = Cardinality(deadlines) - 1
              /\ left' = left - 1
              /\ Len(sink') = Len(sink) + 1
              /\ Range(sink') = Range(sink) \cup {d}
<1>1. PICK d \in deadlines : TimersPop(d)
  BY DEF PopTimer
<1>2. sink \in Seq(Item) /\ d \in Item /\ IsFiniteSet(deadlines)
  BY DEF Safe, TypeOK, ItemOf
<1>3. d.due \in Nat /\ d.due <= sampled
  BY <1>1, <1>2 DEF TimersPop, Expired, Item
<1>4. Cardinality(deadlines \ {d}) = Cardinality(deadlines) - 1
  BY <1>1, <1>2, FS_RemoveElement
<1>5. Len(sink') = Len(sink) + 1 /\ Range(sink') = Range(sink) \cup {d}
  BY <1>1, <1>2, AppendProperties, AppendOnce DEF TimersPop
<1>6. QED
  BY <1>1, <1>3, <1>4, <1>5 DEF TimersPop

-----------------------------------------------------------------------------
(* No timer fires early.                                                   *)

NotEarlyInv == TimersNotEarly /\ sampled <= now

\* At the start nothing has been delivered.
LEMMA NotEarlyInit == Init => NotEarlyInv
<1>1. SUFFICES ASSUME Init PROVE NotEarlyInv
  OBVIOUS
<1>2. Range(sink) = {}
  BY <1>1, EmptySeq, LenProperties DEF Init, Range
<1>3. QED
  BY <1>1, <1>2 DEF Init, NotEarlyInv, TimersNotEarly, Delivered

\* No step delivers a timer early: the clock Timers::poll sampled is not ahead.
LEMMA NotEarlyStep == Safe /\ NotEarlyInv /\ [Next]_vars => NotEarlyInv'
<1> SUFFICES ASSUME Safe, NotEarlyInv, [Next]_vars PROVE NotEarlyInv'
  OBVIOUS
<1>a. now \in Nat /\ sampled \in Nat /\ TypeOK
  BY DEF Safe, TypeOK
<1>b. \A i \in Delivered : i.src = "timers" => i.due \in Nat /\ i.due <= now
  <2>1. Delivered \subseteq Item
    BY <1>a, SourcesApart DEF Everything, Delivered
  <2>2. QED
    BY <2>1 DEF NotEarlyInv, TimersNotEarly, Item
<1>1. CASE PopTimer
  <2>1. PICK d \in deadlines : /\ d.due \in Nat /\ d.due <= sampled
                               /\ Range(sink') = Range(sink) \cup {d}
    BY <1>1, PopMoves
  <2>2. UNCHANGED <<now, handled, sampled>>
    BY <1>1 DEF PopTimer, ghostVars
  <2>3. Delivered' = Delivered \cup {d} /\ d.due <= now
    BY <1>a, <2>1, <2>2 DEF Delivered, NotEarlyInv
  <2>4. QED
    BY <1>b, <2>2, <2>3 DEF NotEarlyInv, TimersNotEarly
<1>2. CASE PollQueue
  <2>1. \A i \in Range(sink') : i \in Range(sink) \/ i.src = "queue"
    BY <1>2, <1>a, QueueMoves, SourcesApart
  <2>2. UNCHANGED <<now, handled>> /\ sampled' = 0
    BY <1>2 DEF PollQueue, NextSource, ghostVars
  <2>3. \A i \in Delivered' : i \in Delivered \/ i.src = "queue"
    BY <2>1, <2>2 DEF Delivered
  <2>4. QED
    BY <1>a, <1>b, <2>2, <2>3 DEF NotEarlyInv, TimersNotEarly
<1>3. CASE SelectReturns
  <2>1. \A i \in Range(sink') : i \in Range(sink) \/ i.src = "os"
    BY <1>3, <1>a, SelectMoves, SourcesApart
  <2>2. UNCHANGED <<now, handled>> /\ sampled' = 0
    BY <1>3 DEF SelectReturns, NextSource, ghostVars
  <2>3. \A i \in Delivered' : i \in Delivered \/ i.src = "os"
    BY <2>1, <2>2 DEF Delivered
  <2>4. QED
    BY <1>a, <1>b, <2>2, <2>3 DEF NotEarlyInv, TimersNotEarly
<1>4. CASE AppHandle
  <2>1. Range(sink) = {Head(sink)} \cup Range(sink')
    BY <1>4, <1>a, TailOnce DEF AppHandle, TypeOK
  <2>2. Delivered' = Delivered /\ UNCHANGED <<now, sampled>>
    BY <1>4, <2>1 DEF AppHandle, Delivered, waitVars
  <2>3. QED
    BY <1>b, <2>2 DEF NotEarlyInv, TimersNotEarly
<1>5. CASE UNCHANGED <<sink, handled>> /\ now <= now' /\ now' \in Nat /\ sampled' <= now'
  <2>1. Delivered' = Delivered
    BY <1>5 DEF Delivered
  <2>2. QED
    BY <1>5, <1>a, <1>b, <2>1 DEF NotEarlyInv, TimersNotEarly
<1>6. CASE \/ AppAddEvent \/ AppAddDeadline \/ AppAddTimeout \/ AppRemoveDeadline
           \/ AppPoll \/ Kernel \/ FoldTimeout \/ FoldDone \/ Select \/ Tick
           \/ UNCHANGED vars
  <2>1. UNCHANGED <<sink, handled, sampled>> /\ (now' = now \/ now' = now + 1)
    BY <1>6 DEF AppAddEvent, AppAddDeadline, AppAddTimeout, AppRemoveDeadline, AppPoll,
       Poll, Kernel, FoldTimeout, FoldDone, Select, Tick, vars, waitVars, ghostVars
  <2>2. QED
    BY <1>5, <1>a, <2>1 DEF NotEarlyInv
<1>7. CASE \/ PollTimers \/ TimersDone \/ SelectFull \/ SelectTimedOut \/ SelectFails
           \/ Return
  <2>1. UNCHANGED <<sink, handled, now>> /\ (sampled' = 0 \/ sampled' = now)
    BY <1>7 DEF PollTimers, TimersStart, TimersDone, SelectFull, SelectTimedOut,
       SelectFails, Return, NextSource, Leave, ghostVars
  <2>2. QED
    BY <1>5, <1>a, <2>1
<1>8. QED
  BY <1>1, <1>2, <1>3, <1>4, <1>6, <1>7 DEF Next, App, PollStep

\* No timer event is delivered before its deadline.
THEOREM TimersAreNotEarly == Spec => []TimersNotEarly
<1>1. NotEarlyInv /\ Safe /\ [Next]_vars => NotEarlyInv'
  BY NotEarlyStep
<1>2. QED
  BY <1>1, NotEarlyInit, SafeInvariant, PTL DEF Spec, NotEarlyInv

-----------------------------------------------------------------------------
(* Timers and queued events come in order.                                 *)

\* Every number given out so far is at most serial.
LEMMA NumbersBounded ==
    ASSUME TypeOK, NothingLost
    PROVE  \A i \in Everything : i.n \in Nat /\ i.n <= serial
<1>1. serial \in Nat
  BY DEF TypeOK
<1>2. \A i \in Everything : i.n \in 1..serial
  BY DEF NothingLost
<1>3. QED
  BY <1>1, <1>2

\* A deadline overtakes none that was added before it: what is popped is the
\* first of the heap, and what is added has the largest number.
LEMMA TimersInOrderStep ==
    Safe /\ Conserved /\ TimersInOrder /\ [Next]_vars => TimersInOrder'
<1> SUFFICES ASSUME Safe, Conserved, TimersInOrder, [Next]_vars PROVE TimersInOrder'
  OBVIOUS
<1>a. TypeOK /\ serial \in Nat /\ NothingLost
  BY DEF Safe, TypeOK, Conserved
<1>b. \A i \in Delivered : i.n \in Nat /\ i.n <= serial
  BY <1>a, NumbersBounded DEF Delivered, Everything
<1>1. ASSUME \A i \in Delivered' : i \in Delivered \/ i.src # "timers", deadlines' \subseteq deadlines
      PROVE  TimersInOrder'
  BY <1>1 DEF TimersInOrder
<1>2. CASE PopTimer
  <2>1. PICK d \in deadlines : TimersPop(d)
    BY <1>2 DEF PopTimer
  <2>2. deadlines' \subseteq deadlines /\ \A e \in deadlines : Earlier(d, e)
    BY <2>1 DEF TimersPop, IsNext
  <2>3. Range(sink') = Range(sink) \cup {d} /\ handled' = handled
    BY <1>a, <1>2, <2>1, AppendOnce DEF TimersPop, PopTimer, ghostVars, TypeOK, ItemOf
  <2>4. \A i \in Delivered' : i \in Delivered \/ i = d
    BY <2>3 DEF Delivered
  <2>5. QED
    BY <2>2, <2>4 DEF TimersInOrder
<1>3. CASE AppAddDeadline \/ AppAddTimeout
  <2>1. PICK id \in Ids, due \in Nat : AddDeadline(id, due)
    BY <1>3, <1>a, EventLoopAssumption
    DEF AppAddDeadline, AppAddTimeout, AddTimeout, TypeOK
  <2> DEFINE x == NewItem("timers", id, due)
  <2>2. x.n = serial + 1 /\ deadlines' = deadlines \cup {x}
    BY <2>1 DEF AddDeadline, NewItem
  <2>3. Delivered' = Delivered
    BY <1>3 DEF AppAddDeadline, AppAddTimeout, ghostVars, Delivered
  <2> HIDE DEF x
  <2>4. \A i \in Delivered : ~(x.n < i.n)
    BY <1>a, <1>b, <2>2
  <2>5. QED
    BY <2>2, <2>3, <2>4 DEF TimersInOrder
<1>4. CASE AppRemoveDeadline
  <2>1. deadlines' \subseteq deadlines /\ Delivered' = Delivered
    BY <1>4 DEF AppRemoveDeadline, RemoveDeadline, Delivered
  <2>2. QED
    BY <1>1, <2>1
<1>5. CASE AppHandle
  <2>1. Range(sink) = {Head(sink)} \cup Range(sink')
    BY <1>5, <1>a, TailOnce DEF AppHandle, TypeOK
  <2>2. Delivered' = Delivered /\ deadlines' = deadlines
    BY <1>5, <2>1 DEF AppHandle, Delivered, sourceVars
  <2>3. QED
    BY <1>1, <2>2
<1>6. CASE PollQueue
  <2>1. \A i \in Range(sink') : i \in Range(sink) \/ i.src = "queue"
    BY <1>6, <1>a, QueueMoves, SourcesApart
  <2>2. UNCHANGED <<deadlines, handled>>
    BY <1>6 DEF PollQueue, ghostVars
  <2>3. QED
    BY <1>1, <2>1, <2>2 DEF Delivered
<1>7. CASE SelectReturns
  <2>1. \A i \in Range(sink') : i \in Range(sink) \/ i.src = "os"
    BY <1>7, <1>a, SelectMoves, SourcesApart
  <2>2. UNCHANGED <<deadlines, handled>>
    BY <1>7 DEF SelectReturns, ghostVars
  <2>3. QED
    BY <1>1, <2>1, <2>2 DEF Delivered
<1>8. CASE UNCHANGED <<sink, deadlines, handled>>
  BY <1>1, <1>8 DEF Delivered
<1>9. CASE \/ AppAddEvent \/ Kernel \/ Tick \/ AppPoll \/ FoldTimeout \/ FoldDone \/ PollTimers
           \/ TimersDone \/ SelectFull \/ Select \/ SelectTimedOut \/ SelectFails \/ Return
           \/ UNCHANGED vars
  BY <1>8, <1>9 DEF AppAddEvent, Kernel, Tick, AppPoll, Poll, FoldTimeout, FoldDone, PollTimers,
     TimersDone, SelectFull, Select, SelectTimedOut, SelectFails, Return, vars, sourceVars,
     ghostVars
<1>10. QED
  BY <1>2, <1>3, <1>4, <1>5, <1>6, <1>7, <1>9 DEF Next, App, PollStep

\* A deadline is not overtaken by one that was added later and comes after it by
\* deadline and then by id, however many polls it takes to deliver them.
THEOREM TimersComeInOrder == Spec => []TimersInOrder
<1>1. Init => TimersInOrder
  BY DEF Init, TimersInOrder
<1>2. QED
  BY <1>1, TimersInOrderStep, SafeInvariant, ConservedInvariant, PTL DEF Spec

\* The queued events of S were added before those of T.
Before(S, T) == \A i \in S, j \in T : i.src = "queue" /\ j.src = "queue" => i.n < j.n

\* The queued events of a list are in the order in which they were added.
Sorted(s) ==
    \A k, l \in DOMAIN s :
        k < l /\ s[k].src = "queue" /\ s[l].src = "queue" => s[k].n < s[l].n

\* One sorted list after another.
LEMMA SortedConcat ==
    ASSUME NEW s \in Seq(Item), NEW t \in Seq(Item), Sorted(s), Sorted(t),
           Before(Range(s), Range(t))
    PROVE  Sorted(s \o t)
<1> DEFINE c == s \o t
<1>1. /\ Len(s) \in Nat /\ Len(t) \in Nat /\ DOMAIN s = 1..Len(s) /\ DOMAIN t = 1..Len(t)
  BY LenProperties
<1>2. /\ c \in Seq(Item) /\ Len(c) = Len(s) + Len(t)
      /\ \A i \in 1..(Len(s) + Len(t)) : c[i] = IF i <= Len(s) THEN s[i] ELSE t[i - Len(s)]
  BY ConcatProperties
<1> HIDE DEF c
<1>3. DOMAIN c = 1..(Len(s) + Len(t))
  BY <1>2, LenProperties
<1>4. ASSUME NEW k \in DOMAIN c, NEW l \in DOMAIN c, k < l,
             c[k].src = "queue", c[l].src = "queue"
      PROVE  c[k].n < c[l].n
  <2>1. CASE l <= Len(s)
    <3>1. k \in DOMAIN s /\ l \in DOMAIN s /\ c[k] = s[k] /\ c[l] = s[l]
      BY <1>1, <1>2, <1>3, <1>4, <2>1
    <3>2. QED
      BY <1>4, <3>1 DEF Sorted
  <2>2. CASE k <= Len(s) /\ l > Len(s)
    <3>1. k \in DOMAIN s /\ c[k] = s[k]
      BY <1>1, <1>2, <1>3, <2>2
    <3>2. l - Len(s) \in DOMAIN t /\ c[l] = t[l - Len(s)]
      BY <1>1, <1>2, <1>3, <2>2
    <3>3. c[k] \in Range(s) /\ c[l] \in Range(t)
      BY <3>1, <3>2 DEF Range
    <3>4. QED
      BY <1>4, <3>3 DEF Before
  <2>3. CASE k > Len(s)
    <3>1. l > Len(s) /\ k - Len(s) < l - Len(s)
      BY <1>1, <1>3, <1>4, <2>3
    <3>2. k - Len(s) \in DOMAIN t /\ c[k] = t[k - Len(s)]
      BY <1>1, <1>2, <1>3, <2>3
    <3>3. l - Len(s) \in DOMAIN t /\ c[l] = t[l - Len(s)]
      BY <1>1, <1>2, <1>3, <3>1
    <3>4. QED
      BY <1>4, <3>1, <3>2, <3>3 DEF Sorted
  <2>4. QED
    BY <1>1, <1>3, <1>4, <2>1, <2>2, <2>3
<1>5. QED
  BY <1>4 DEF Sorted, c

\* One more element at the end.
LEMMA SortedAppend ==
    ASSUME NEW s \in Seq(Item), NEW e \in Item, Sorted(s), Before(Range(s), {e})
    PROVE  Sorted(Append(s, e))
<1>1. /\ Append(s, e) \in Seq(Item) /\ Len(Append(s, e)) = Len(s) + 1 /\ Len(s) \in Nat
      /\ \A i \in 1..Len(s) : Append(s, e)[i] = s[i]
      /\ Append(s, e)[Len(s) + 1] = e
  BY AppendProperties, LenProperties
<1>2. DOMAIN s = 1..Len(s) /\ DOMAIN Append(s, e) = 1..(Len(s) + 1)
  BY <1>1, LenProperties
<1>3. \A k \in DOMAIN s : s[k].src = "queue" /\ e.src = "queue" => s[k].n < e.n
  BY DEF Before, Range
<1>4. QED
  BY <1>1, <1>2, <1>3 DEF Sorted

\* A sorted list without its first element.
LEMMA SortedTail ==
    ASSUME NEW s \in Seq(Item), Sorted(s), s # <<>>
    PROVE  Sorted(Tail(s)) /\ Before({Head(s)}, Range(Tail(s)))
<1>1. Len(s) \in Nat /\ Len(s) > 0 /\ DOMAIN s = 1..Len(s)
  BY LenProperties, EmptySeq
<1>2. /\ Tail(s) \in Seq(Item) /\ Len(Tail(s)) = Len(s) - 1 /\ Head(s) = s[1]
      /\ \A i \in 1..(Len(s) - 1) : Tail(s)[i] = s[i + 1]
  BY <1>1, HeadTailProperties
<1> DEFINE r == Tail(s)
           h == Head(s)
<1> HIDE DEF r, h
<1>3. /\ DOMAIN r = 1..(Len(s) - 1) /\ h = s[1]
      /\ \A i \in 1..(Len(s) - 1) : r[i] = s[i + 1] /\ i + 1 \in 1..Len(s)
  BY <1>1, <1>2, LenProperties DEF r, h
<1>4. Sorted(r)
  <2>1. ASSUME NEW k \in DOMAIN r, NEW l \in DOMAIN r, k < l PROVE k + 1 < l + 1
    BY <1>1, <1>3, <2>1
  <2>2. QED
    BY <1>1, <1>3, <2>1 DEF Sorted
<1>5. \A l \in DOMAIN r : h.src = "queue" /\ r[l].src = "queue" => h.n < r[l].n
  <2>1. \A l \in DOMAIN r : 1 < l + 1 /\ 1 \in DOMAIN s
    BY <1>1, <1>3
  <2>2. QED
    BY <1>1, <1>3, <2>1 DEF Sorted
<1>6. Before({h}, Range(r))
  BY <1>5 DEF Before, Range
<1>7. QED
  BY <1>4, <1>6 DEF r, h

\* A sorted list cut in two.
LEMMA SortedCut ==
    ASSUME NEW s \in Seq(Item), Sorted(s), NEW k \in 0..Len(s)
    PROVE  /\ Sorted(Prefix(s, k)) /\ Sorted(Rest(s, k))
           /\ Before(Range(Prefix(s, k)), Range(Rest(s, k)))
<1> DEFINE p == Prefix(s, k)
           r == Rest(s, k)
<1>1. Len(s) \in Nat /\ k \in Nat /\ k <= Len(s) /\ DOMAIN s = 1..Len(s)
  BY LenProperties
<1>2. /\ p \in Seq(Item) /\ Len(p) = k /\ r \in Seq(Item) /\ Len(r) = Len(s) - k
      /\ \A i \in 1..k : p[i] = s[i]
      /\ \A i \in 1..(Len(s) - k) : r[i] = s[k + i]
  BY CutSeq
<1> HIDE DEF p, r
<1>3. DOMAIN p = 1..k /\ DOMAIN r = 1..(Len(s) - k)
  BY <1>2, LenProperties
<1>4. \A i \in DOMAIN p : i \in DOMAIN s /\ p[i] = s[i]
  BY <1>1, <1>2, <1>3
<1>5. \A i \in DOMAIN r : k + i \in DOMAIN s /\ r[i] = s[k + i]
  BY <1>1, <1>2, <1>3
<1>6. Sorted(p)
  BY <1>4 DEF Sorted
<1>7. Sorted(r)
  <2>1. \A i, j \in DOMAIN r : i < j => k + i < k + j
    BY <1>1, <1>3
  <2>2. QED
    BY <1>5, <2>1 DEF Sorted
<1>8. \A i \in DOMAIN p, j \in DOMAIN r :
         p[i].src = "queue" /\ r[j].src = "queue" => p[i].n < r[j].n
  <2>1. \A i \in DOMAIN p, j \in DOMAIN r : i < k + j
    BY <1>1, <1>3
  <2>2. QED
    BY <1>4, <1>5, <2>1 DEF Sorted
<1>9. Before(Range(p), Range(r))
  BY <1>8 DEF Before, Range
<1>10. QED
  BY <1>6, <1>7, <1>9 DEF p, r

\* The order of the queued events, on their way from the queue to the application.
OrderInv ==
    /\ Sorted(queue) /\ Sorted(sink)
    /\ Before(Delivered, Range(queue)) /\ Before(handled, Range(sink))

\* Every queued event is in the order of OrderInv, so each is where it should be.
LEMMA OrderInvImplies == TypeOK /\ OrderInv => QueueInOrder
<1> SUFFICES ASSUME TypeOK, OrderInv PROVE QueueInOrder
  OBVIOUS
<1>1. \A j \in Range(queue) : j.src = "queue"
  BY SourcesApart
<1>2. QED
  BY <1>1 DEF OrderInv, Before, Sorted, QueueInOrder

\* A step that puts items of another source into the sink.
LEMMA OrderForeign ==
    ASSUME TypeOK, OrderInv, NEW t \in Seq(Item), \A i \in Range(t) : i.src # "queue",
           sink' = sink \o t, UNCHANGED <<queue, handled>>
    PROVE  OrderInv'
<1>1. sink \in Seq(Item)
  BY DEF TypeOK
<1>2. Sorted(t) /\ Before(Range(sink), Range(t))
  BY DEF Sorted, Before, Range
<1>3. Sorted(sink')
  BY <1>1, <1>2, SortedConcat DEF OrderInv
<1>4. Range(sink') = Range(sink) \cup Range(t)
  BY <1>1, RangeConcatenation
<1>5. QED
  BY <1>3, <1>4 DEF OrderInv, Before, Delivered

\* Every step keeps the order of what the sources hold and have delivered.
LEMMA OrderStep == Safe /\ Conserved /\ OrderInv /\ [Next]_vars => OrderInv'
<1> SUFFICES ASSUME Safe, Conserved, OrderInv, [Next]_vars PROVE OrderInv'
  OBVIOUS
<1>a. /\ TypeOK /\ SinkBounded /\ serial \in Nat /\ NothingLost
      /\ Len(queue) \in Nat /\ Len(ready) \in Nat
  BY LenProperties DEF Safe, TypeOK, Conserved
<1>b. /\ sink \in Seq(Item) /\ queue \in Seq(Item) /\ ready \in Seq(Item)
      /\ ItemOf("queue") \subseteq Item /\ ItemOf("os") \subseteq Item
  BY <1>a, SeqMonotonic DEF TypeOK, ItemOf
<1>c. /\ Sorted(queue) /\ Sorted(sink)
      /\ Before(Delivered, Range(queue)) /\ Before(handled, Range(sink))
  BY DEF OrderInv
<1>1. CASE AppAddEvent
  <2>1. PICK id \in Ids : QueueAdd(id)
    BY <1>1 DEF AppAddEvent
  <2> DEFINE x == NewItem("queue", id, 0)
  <2>2. x \in ItemOf("queue") /\ x.n = serial + 1
    BY <1>a, NewItemType DEF NewItem, Kinds
  <2>3. queue' = Append(queue, x) /\ UNCHANGED <<sink, handled>>
    BY <1>1, <2>1 DEF QueueAdd, AppAddEvent, ghostVars
  <2> HIDE DEF x
  <2>4. \A i \in Everything : i.n < x.n
    BY <1>a, <2>2, NumbersBounded
  <2>5. Before(Range(queue), {x}) /\ Before(Delivered, {x})
    BY <2>4 DEF Before, Everything, Waiting, Delivered
  <2>6. Range(queue') = Range(queue) \cup {x}
    BY <1>b, <2>2, <2>3, AppendOnce
  <2>7. Sorted(queue')
    BY <1>b, <1>c, <2>2, <2>3, <2>5, SortedAppend
  <2>8. QED
    BY <1>c, <2>3, <2>5, <2>6, <2>7 DEF OrderInv, Before, Delivered
<1>2. CASE AppHandle
  <2>1. /\ sink # <<>> /\ sink' = Tail(sink) /\ handled' = handled \cup {Head(sink)}
        /\ queue' = queue
    BY <1>2 DEF AppHandle, sourceVars
  <2>2. Sorted(sink') /\ Before({Head(sink)}, Range(sink'))
    BY <1>b, <1>c, <2>1, SortedTail
  <2>3. Range(sink) = {Head(sink)} \cup Range(sink')
    BY <1>b, <2>1, TailOnce
  <2>4. Delivered' = Delivered
    BY <2>1, <2>3 DEF Delivered
  <2>5. Before(handled', Range(sink'))
    BY <1>c, <2>1, <2>2, <2>3 DEF Before
  <2>6. QED
    BY <1>c, <2>1, <2>2, <2>4, <2>5 DEF OrderInv
<1>3. CASE PollQueue
  <2> DEFINE k == CapacityMin(CapacityLeft, Len(queue))
             P == Prefix(queue, k)
  <2>1. k \in 0..Len(queue)
    BY <1>a, <1>b, CapacityMinFits
  <2>2. sink' = sink \o P /\ queue' = Rest(queue, k) /\ handled' = handled
    BY <1>3 DEF PollQueue, QueuePoll, ghostVars
  <2> HIDE DEF k
  <2>3. /\ P \in Seq(Item) /\ Sorted(P) /\ Sorted(queue')
        /\ Before(Range(P), Range(queue'))
    BY <1>b, <1>c, <2>1, <2>2, SortedCut, CutSeq
  <2>4. Range(P) \cup Range(queue') = Range(queue)
    BY <1>b, <2>1, <2>2, CutOnce
  <2> HIDE DEF P
  <2>5. Before(Range(sink), Range(P)) /\ Before(handled, Range(P)) /\ Before(Delivered, Range(queue'))
    BY <1>c, <2>4 DEF Before, Delivered
  <2>6. Sorted(sink')
    BY <1>b, <1>c, <2>2, <2>3, <2>5, SortedConcat
  <2>7. Range(sink') = Range(sink) \cup Range(P)
    BY <1>b, <2>2, <2>3, RangeConcatenation
  <2>8. Before(handled', Range(sink')) /\ Before(Delivered', Range(queue'))
    BY <1>c, <2>2, <2>3, <2>5, <2>7 DEF Before, Delivered
  <2>9. QED
    BY <2>3, <2>6, <2>8 DEF OrderInv
<1>4. CASE SelectReturns
  <2> DEFINE k == CapacityMin(SelectRoom, Len(ready))
             P == Prefix(ready, k)
  <2>1. k \in 0..Len(ready)
    BY <1>a, SelectRoomFits, EventAssumption DEF CapacityMin, TypeOK
  <2>2. sink' = sink \o P /\ UNCHANGED <<queue, handled>>
    BY <1>4 DEF SelectReturns, SelectEvents, ghostVars
  <2> HIDE DEF k
  <2>3. P \in Seq(Item) /\ Range(P) \subseteq Range(ready)
    BY <1>b, <2>1, CutSeq, CutOnce
  <2>4. \A i \in Range(P) : i.src # "queue"
    BY <1>a, <2>3, SourcesApart
  <2> HIDE DEF P
  <2>5. QED
    BY <1>a, <2>2, <2>3, <2>4, OrderForeign
<1>5. CASE PopTimer
  <2>1. PICK d \in deadlines : sink' = Append(sink, d)
    BY <1>5 DEF PopTimer, TimersPop
  <2>2. UNCHANGED <<queue, handled>>
    BY <1>5 DEF PopTimer, ghostVars
  <2>3. d \in Item /\ d.src = "timers"
    BY <1>a DEF TypeOK, ItemOf
  <2>4. Range(sink') = Range(sink) \cup {d} /\ Before(Range(sink), {d})
    BY <1>b, <2>1, <2>3, AppendOnce DEF Before
  <2>5. Sorted(sink')
    BY <1>b, <1>c, <2>1, <2>3, <2>4, SortedAppend
  <2>6. QED
    BY <1>c, <2>2, <2>3, <2>4, <2>5 DEF OrderInv, Before, Delivered
<1>6. CASE UNCHANGED <<sink, queue, handled>>
  BY <1>c, <1>6 DEF OrderInv, Delivered
<1>7. CASE \/ AppAddDeadline \/ AppAddTimeout \/ AppRemoveDeadline \/ Kernel \/ Tick \/ AppPoll
           \/ FoldTimeout \/ FoldDone \/ PollTimers \/ TimersDone \/ SelectFull \/ Select
           \/ SelectTimedOut \/ SelectFails \/ Return \/ UNCHANGED vars
  BY <1>6, <1>7 DEF AppAddDeadline, AppAddTimeout, AppRemoveDeadline, Kernel, Tick, AppPoll, Poll,
     FoldTimeout, FoldDone, PollTimers, TimersDone, SelectFull, Select, SelectTimedOut,
     SelectFails, Return, vars, sourceVars, ghostVars
<1>8. QED
  BY <1>1, <1>2, <1>3, <1>4, <1>5, <1>7 DEF Next, App, PollStep

\* Events of the user space queue reach the sink, and the application, in the
\* order in which they were added, however small the sink is.
THEOREM QueueComesInOrder == Spec => []QueueInOrder
<1>1. Init => OrderInv
  <2>1. DOMAIN <<>> = {}
    BY EmptySeq, LenProperties
  <2>2. QED
    BY <2>1 DEF Init, OrderInv, Sorted, Before, Delivered, Range
<1>2. QED
  BY <1>1, OrderStep, OrderInvImplies, TypeInvariant, SafeInvariant, ConservedInvariant, PTL
     DEF Spec

-----------------------------------------------------------------------------
(* No wait outlasts what it waits for.                                     *)

WaitInv == TimeoutSound /\ NoOversleep

\* At the start no poll is under way.
LEMMA WaitInit == Init => WaitInv
BY DEF Init, WaitInv, TimeoutSound, NoOversleep

\* One step of the fold: the timeout takes one more source into account.
LEMMA FoldSound ==
    ASSUME Safe, TimeoutSound, FoldTimeout
    PROVE  TimeoutSound'
<1>1. /\ TypeOK /\ pc = "fold" /\ at \in Nat /\ at >= 1 /\ at <= Len(Sources)
      /\ timeout' = MinTimeout(timeout, MaxTimeout(Sources[at])) /\ at' = at + 1
      /\ UNCHANGED <<now, sink, deadlines, queue, ready, pc, began, asked>>
      /\ began <= now /\ began \in Nat /\ now \in Nat
      /\ timeout \in Timeout /\ asked \in Timeout /\ Len(Sources) \in Nat
  BY EventLoopAssumption, LenProperties
  DEF Safe, TypeOK, FoldTimeout, TimeoutSound, sourceVars, ghostVars
<1>2. Sources[at] \in Kinds
  BY <1>1, EventLoopAssumption, ElementOfSeq
<1>3. /\ TimersMaxTimeout \in Timeout /\ QueueMaxTimeout \in Timeout
      /\ OsMaxTimeout \in Timeout
      /\ deadlines # {} => TimersMaxTimeout \in Nat
      /\ \A d \in deadlines : TimersMaxTimeout = 0 \/ now + TimersMaxTimeout <= d.due
  BY <1>1, TimersMaxTimeoutBound
  DEF TypeOK, ItemOf, QueueMaxTimeout, OsMaxTimeout, Timeout
<1> DEFINE m == MaxTimeout(Sources[at])
<1>4. m \in Timeout
  BY <1>2, <1>3 DEF MaxTimeout, Kinds
<1>5. /\ timeout' \in Timeout
      /\ timeout # None => timeout' \in Nat /\ timeout' <= timeout
      /\ m # None => timeout' \in Nat /\ timeout' <= m
  BY <1>1, <1>4, MinTimeoutBound
<1>6. None \notin Nat
  BY EventAssumption
<1>7. \A i \in 1..at : i = at \/ i \in 1..(at - 1)
  BY <1>1
<1>8. asked # None => timeout' # None /\ timeout' <= asked
  BY <1>1, <1>5, <1>6 DEF TimeoutSound, Timeout
<1>9. ASSUME Folded("queue")', queue # <<>> PROVE timeout' = 0
  <2>1. \E i \in 1..at : Sources[i] = "queue"
    BY <1>1, <1>9 DEF Folded
  <2>2. CASE Sources[at] = "queue"
    <3>1. m = 0
      BY <1>9, <2>2 DEF MaxTimeout, QueueMaxTimeout
    <3>2. QED
      BY <1>5, <1>6, <3>1
  <2>3. CASE Folded("queue")
    <3>1. timeout = 0
      BY <1>1, <1>9, <2>3 DEF TimeoutSound
    <3>2. QED
      BY <1>5, <1>6, <3>1
  <2>4. QED
    BY <1>1, <1>7, <2>1, <2>2, <2>3 DEF Folded
<1>10. ASSUME Folded("timers")', NEW d \in deadlines
       PROVE  timeout' # None /\ (timeout' = 0 \/ began + timeout' <= d.due)
  <2>0. d.due \in Nat
    BY <1>1 DEF TypeOK, ItemOf, Item
  <2>1. \E i \in 1..at : Sources[i] = "timers"
    BY <1>1, <1>10 DEF Folded
  <2>2. CASE Sources[at] = "timers"
    <3>0. m = TimersMaxTimeout
      BY <2>2 DEF MaxTimeout
    <3> HIDE DEF m
    <3>1. m \in Nat /\ (m = 0 \/ now + m <= d.due)
      <4>1. TimersMaxTimeout \in Nat
        BY <1>3, <1>10
      <4>2. TimersMaxTimeout = 0 \/ now + TimersMaxTimeout <= d.due
        BY <1>3
      <4>3. QED
        BY <3>0, <4>1, <4>2
    <3>2. QED
      BY <1>1, <1>5, <1>6, <2>0, <3>1
  <2>3. CASE Folded("timers")
    <3>1. timeout # None /\ (timeout = 0 \/ began + timeout <= d.due)
      BY <1>1, <2>3 DEF TimeoutSound
    <3> HIDE DEF m
    <3>2. timeout \in Nat
      BY <1>1, <3>1 DEF Timeout
    <3>3. QED
      BY <1>1, <1>5, <1>6, <2>0, <3>1, <3>2
  <2>4. QED
    BY <1>1, <1>7, <2>1, <2>2, <2>3 DEF Folded
<1>11. QED
  BY <1>1, <1>8, <1>9, <1>10 DEF TimeoutSound

\* The wait starts with a timeout that is sound.
LEMMA SelectSound ==
    ASSUME Safe, TimeoutSound, Select
    PROVE  NoOversleep'
<1>1. /\ TypeOK /\ pc = "poll" /\ now \in Nat /\ began \in Nat /\ began <= now
      /\ timeout \in Timeout /\ asked \in Timeout
      /\ SelectStart(IF at = 1 THEN timeout ELSE 0)
      /\ UNCHANGED <<now, sink, deadlines, queue, ready, began, asked>>
  BY DEF Safe, TypeOK, Select, AtSource, TimeoutSound, sourceVars, ghostVars
<1>2. /\ asked # None => timeout # None /\ timeout <= asked
      /\ Uses("queue") /\ queue # <<>> => timeout = 0
      /\ Uses("timers") => \A d \in deadlines :
            timeout # None /\ (timeout = 0 \/ began + timeout <= d.due)
  BY <1>1 DEF TimeoutSound, Folded
<1> DEFINE t == IF at = 1 THEN timeout ELSE 0
<1>3. /\ t \in Timeout
      /\ asked # None => t # None /\ t <= asked
      /\ Uses("queue") /\ queue # <<>> => t = 0
      /\ Uses("timers") => \A d \in deadlines :
            t # None /\ (t = 0 \/ began + t <= d.due)
  BY <1>1, <1>2, EventAssumption DEF Timeout
<1>4. /\ waitStart' = now
      /\ waitEnd' = IF t = None THEN None ELSE now + DurationToMillis(t) * Granularity
  BY <1>1 DEF SelectStart
<1> HIDE DEF t
<1>5. ASSUME t # None
      PROVE  waitEnd' \in Nat /\ now <= waitEnd' /\ waitEnd' <= now + t
  <2>1. t \in Nat
    BY <1>3, <1>5 DEF Timeout
  <2> DEFINE w == DurationToMillis(t) * Granularity
  <2>2. w \in Nat /\ w <= t
    BY <2>1, MillisBound
  <2>3. waitEnd' = now + w
    BY <1>4, <1>5
  <2> HIDE DEF w
  <2>4. QED
    BY <1>1, <2>1, <2>2, <2>3
<1>6. None \notin Nat
  BY EventAssumption
<1>7. asked # None => waitEnd' # None /\ waitEnd' <= waitStart' + asked
  BY <1>1, <1>3, <1>4, <1>5, <1>6 DEF Timeout
<1>8. Uses("queue") /\ queue # <<>> => waitEnd' = waitStart'
  BY <1>1, <1>3, <1>4, <1>5, <1>6
<1>9. ASSUME Uses("timers"), NEW d \in deadlines
      PROVE  /\ waitEnd' # None
             /\ waitEnd' = waitStart' \/ waitEnd' <= d.due + (waitStart' - began)
  <2>1. d.due \in Nat
    BY <1>1 DEF TypeOK, ItemOf, Item
  <2>2. t # None /\ (t = 0 \/ began + t <= d.due)
    BY <1>3, <1>9
  <2>3. t \in Nat
    BY <1>3, <2>2 DEF Timeout
  <2>4. QED
    BY <1>1, <1>4, <1>5, <1>6, <2>1, <2>2, <2>3
<1>10. QED
  BY <1>1, <1>7, <1>8, <1>9 DEF NoOversleep, Uses

\* No step makes the timeout, or the wait that uses it, too long.
LEMMA WaitStep == Safe /\ WaitInv /\ [Next]_vars => WaitInv'
<1> SUFFICES ASSUME Safe, WaitInv, [Next]_vars PROVE WaitInv'
  OBVIOUS
<1>a. /\ TypeOK /\ TimeoutSound /\ NoOversleep
      /\ now \in Nat /\ began \in Nat /\ asked \in Timeout /\ at \in Nat
      /\ Len(Sources) \in Nat /\ DOMAIN Sources = 1..Len(Sources)
  BY EventLoopAssumption, LenProperties DEF Safe, TypeOK, WaitInv
<1>1. CASE pc' = "idle"
  BY <1>1 DEF WaitInv, TimeoutSound, NoOversleep
<1>2. CASE AppPoll
  <2>1. /\ pc' = "fold" /\ at' = 1 /\ began' = now /\ asked' = timeout' /\ now' = now
        /\ timeout' \in Timeout
    <3>1. PICK t \in Timeout : Poll(t)
      BY <1>2, EventLoopAssumption DEF AppPoll, Timeout
    <3>2. QED
      BY <3>1 DEF Poll
  <2>2. ~Folded("queue")' /\ ~Folded("timers")'
    BY <2>1 DEF Folded
  <2>3. asked' # None => timeout' <= asked'
    BY <2>1 DEF Timeout
  <2>4. QED
    BY <1>a, <2>1, <2>2, <2>3 DEF WaitInv, TimeoutSound, NoOversleep
<1>3. CASE FoldTimeout
  <2>1. TimeoutSound' /\ pc' = "fold"
    BY <1>3, <1>a, FoldSound DEF FoldTimeout
  <2>2. QED
    BY <2>1 DEF WaitInv, NoOversleep
<1>4. CASE FoldDone
  <2>1. /\ pc = "fold" /\ pc' = "poll" /\ at > Len(Sources)
        /\ UNCHANGED <<now, began, asked, timeout, queue, deadlines>>
    BY <1>4 DEF FoldDone, sourceVars, ghostVars
  <2>2. \A i \in DOMAIN Sources : i \in 1..(at - 1)
    BY <1>a, <2>1
  <2>3. \A kind \in Kinds : Folded(kind)' => Folded(kind)
    BY <2>1, <2>2 DEF Folded, Uses
  <2>4. QED
    BY <1>a, <2>1, <2>3 DEF WaitInv, TimeoutSound, NoOversleep, Kinds
<1>5. CASE Select
  <2>1. NoOversleep'
    BY <1>5, <1>a, SelectSound
  <2>2. /\ pc = "poll" /\ pc' = "select"
        /\ UNCHANGED <<now, began, asked, timeout, queue, deadlines>>
    BY <1>5 DEF Select, AtSource, sourceVars, ghostVars
  <2>3. QED
    BY <1>a, <2>1, <2>2 DEF WaitInv, TimeoutSound, Folded, Uses
<1>6. CASE Kernel \/ Tick \/ UNCHANGED vars
  <2>1. /\ UNCHANGED <<pc, at, began, asked, timeout, queue, deadlines, waitStart, waitEnd>>
        /\ now' = now \/ now' = now + 1
    BY <1>6 DEF Kernel, Tick, vars, sourceVars, loopVars, waitVars, ghostVars
  <2>2. NoOversleep'
    BY <1>a, <2>1 DEF NoOversleep, Uses
  <2>3. TimeoutSound'
    BY <1>a, <2>1 DEF TimeoutSound, Folded, Uses
  <2>4. QED
    BY <2>2, <2>3 DEF WaitInv
<1>7. CASE \/ PollTimers \/ TimersDone \/ SelectFull \/ SelectReturns \/ SelectTimedOut
           \/ PollQueue \/ PopTimer
  <2>1. /\ pc \in {"poll", "timers", "select"} /\ pc' \in {"poll", "timers"}
        /\ UNCHANGED <<now, began, asked, timeout>>
        /\ deadlines' \subseteq deadlines
    BY <1>7 DEF PollTimers, TimersDone, SelectFull, SelectReturns, SelectTimedOut,
       PollQueue, PopTimer, TimersPop, AtSource, NextSource, sourceVars, loopVars,
       ghostVars
  <2>2. queue' # <<>> => queue # <<>>
    <3>1. CASE PollQueue
      <4>1. queue' \in Seq(ItemOf("queue")) /\ queue \in Seq(ItemOf("queue"))
        BY SafeStep DEF Safe, TypeOK
      <4>2. PICK k \in 0..Len(queue) : Len(queue') = Len(queue) - k
        BY <3>1, QueueMoves
      <4>3. Len(queue') \in Nat /\ Len(queue) \in Nat
        BY <4>1, LenProperties
      <4>4. queue' # <<>> => Len(queue') > 0
        BY <4>1, <4>3, EmptySeq
      <4>5. queue = <<>> => Len(queue) = 0
        BY EmptySeq
      <4>6. QED
        BY <4>2, <4>3, <4>4, <4>5
    <3>2. CASE ~PollQueue
      BY <1>7, <3>2 DEF PollTimers, TimersDone, SelectFull, SelectReturns,
         SelectTimedOut, PopTimer, sourceVars
    <3>3. QED
      BY <3>1, <3>2
  <2>3. \A kind \in Kinds : Folded(kind)' = Folded(kind)
    BY <2>1 DEF Folded, Uses
  <2>4. QED
    BY <1>a, <2>1, <2>2, <2>3 DEF WaitInv, TimeoutSound, NoOversleep, Kinds
<1>8. CASE App \/ SelectFails \/ Return
  <2>1. pc' = "idle"
    BY <1>8 DEF App, AppAddEvent, AppAddDeadline, AppAddTimeout, AppRemoveDeadline,
       AppHandle, SelectFails, Return, Leave, loopVars
  <2>2. QED
    BY <1>1, <2>1
<1>9. QED
  BY <1>2, <1>3, <1>4, <1>5, <1>6, <1>7, <1>8 DEF Next, PollStep

\* A wait ends no later than the earliest deadline plus the time that passed
\* between the beginning of the call and the wait, at once when the queue is
\* not empty, and within the caller's timeout.
THEOREM NeverOversleeps == Spec => []NoOversleep
<1>1. WaitInv /\ Safe /\ [Next]_vars => WaitInv'
  BY WaitStep
<1>2. QED
  BY <1>1, WaitInit, SafeInvariant, PTL DEF Spec, WaitInv

-----------------------------------------------------------------------------
(* A poll that returns Ok has left nothing behind.                         *)

\* At the start no source has been polled.
LEMMA CleanInit == Init => PolledClean
BY DEF Init, PolledClean, Polled

\* The first entry of the heap not being expired, none is.
LEMMA NoneExpired ==
    ASSUME TypeOK, \A d \in deadlines : IsNext(d) => ~Expired(d, sampled)
    PROVE  \A d \in deadlines : d.due > sampled
<1>1. SUFFICES ASSUME NEW d \in deadlines PROVE d.due > sampled
  OBVIOUS
<1>2. deadlines \subseteq Item /\ sampled \in Nat
  BY DEF TypeOK, ItemOf
<1>3. PICK e \in deadlines : IsNext(e)
  BY <1>1, <1>2, NextExists
<1>4. e.due \in Nat /\ d.due \in Nat /\ e.due <= d.due
  BY <1>2, <1>3 DEF IsNext, Earlier, Item
<1>5. e.due > sampled
  BY <1>2, <1>3, <1>4 DEF Expired
<1>6. QED
  BY <1>2, <1>4, <1>5

\* Polling a source makes it the last of those that were polled.
LEMMA PolledNext ==
    ASSUME TypeOK, pc \in {"poll", "timers", "select"}, at <= Len(Sources), NextSource
    PROVE  \A kind \in Kinds : Polled(kind)' <=> Polled(kind) \/ Sources[at] = kind
<1>1. at \in Nat /\ at >= 1 /\ Len(Sources) \in Nat
  BY EventLoopAssumption, LenProperties DEF TypeOK
<1>2. pc' = "poll" /\ at' = at + 1
  BY DEF NextSource
<1>3. \A i \in 1..at : i = at \/ i \in 1..(at - 1)
  BY <1>1
<1>4. at \in 1..at /\ \A i \in 1..(at - 1) : i \in 1..at
  BY <1>1
<1>5. QED
  BY <1>1, <1>2, <1>3, <1>4 DEF Polled

\* No step leaves an event behind in a source that was polled, with room left.
LEMMA CleanStep == Safe /\ PolledClean /\ [Next]_vars => PolledClean'
<1> SUFFICES ASSUME Safe, PolledClean, [Next]_vars PROVE PolledClean'
  OBVIOUS
<1>a. /\ TypeOK /\ SinkBounded
      /\ now \in Nat /\ began \in Nat /\ sampled \in Nat /\ left \in Nat
      /\ at \in Nat /\ at >= 1
      /\ Len(Sources) \in Nat /\ Len(sink) \in Nat /\ Len(queue) \in Nat
      /\ Capacity # Growable => Capacity \in Nat
  BY EventLoopAssumption, EventAssumption, LenProperties DEF Safe, TypeOK
<1>b. Cardinality(deadlines) \in Nat
  BY <1>a, FS_CardinalityType DEF TypeOK
<1>1. CASE AppPoll
  <2>1. pc' = "fold" /\ began' = now /\ now' = now
    BY <1>1 DEF AppPoll, Poll
  <2>2. QED
    BY <1>a, <2>1 DEF PolledClean, Polled
<1>2. CASE FoldTimeout
  BY <1>2 DEF FoldTimeout, PolledClean, Polled, ghostVars
<1>3. CASE FoldDone
  <2>1. pc' = "poll" /\ at' = 1 /\ pc = "fold" /\ UNCHANGED <<now, began>>
    BY <1>3 DEF FoldDone, ghostVars
  <2>2. ~Polled("queue")' /\ ~Polled("timers")'
    BY <2>1 DEF Polled
  <2>3. QED
    BY <2>1, <2>2 DEF PolledClean
<1>4. CASE PollQueue
  <2>1. PICK k \in 0..Len(queue) :
           /\ Len(queue') = Len(queue) - k /\ Len(sink') = Len(sink) + k
           /\ SinkHasRoom' => k = Len(queue)
    BY <1>4, QueueMoves
  <2>2. /\ pc = "poll" /\ pc' = "poll" /\ at <= Len(Sources) /\ Sources[at] = "queue"
        /\ NextSource /\ UNCHANGED <<now, began, deadlines>>
    BY <1>4 DEF PollQueue, AtSource, NextSource, ghostVars
  <2>3. queue' \in Seq(ItemOf("queue"))
    BY SafeStep DEF Safe, TypeOK
  <2>4. SinkHasRoom' => queue' = <<>>
    <3>1. SUFFICES ASSUME SinkHasRoom' PROVE queue' = <<>>
      OBVIOUS
    <3>2. Len(queue') = 0
      BY <1>a, <2>1, <3>1
    <3>3. QED
      BY <2>3, <3>2, EmptySeq
  <2>5. SinkHasRoom' => SinkHasRoom
    BY <1>a, <2>1 DEF SinkHasRoom
  <2>6. Polled("timers")' => Polled("timers")
    BY <1>a, <2>2, PolledNext DEF Kinds
  <2>7. QED
    BY <2>2, <2>4, <2>5, <2>6 DEF PolledClean
<1>5. CASE PollTimers
  <2>1. /\ pc = "poll" /\ pc' = "timers" /\ sampled' = now
        /\ left' = CapacityMin(CapacityLeft, Cardinality(deadlines))
        /\ UNCHANGED <<now, began, at, queue, deadlines, sink>>
    BY <1>5 DEF PollTimers, TimersStart, AtSource, sourceVars, ghostVars
  <2>2. \/ left' = Cardinality(deadlines)
        \/ Capacity # Growable /\ Len(sink) + left' = Capacity
    <3>1. CASE Capacity = Growable
      BY <2>1, <3>1 DEF CapacityMin, CapacityLeft
    <3>2. CASE Capacity # Growable
      BY <1>a, <1>b, <2>1, <3>2 DEF CapacityMin, CapacityLeft
    <3>3. QED
      BY <3>1, <3>2
  <2>3. \A kind \in Kinds : Polled(kind)' = Polled(kind)
    BY <2>1 DEF Polled
  <2>4. SinkHasRoom' = SinkHasRoom
    BY <2>1 DEF SinkHasRoom
  <2>5. QED
    BY <2>1, <2>2, <2>3, <2>4 DEF PolledClean, Kinds
<1>6. CASE PopTimer
  <2>1. PICK d \in deadlines :
           /\ deadlines' = deadlines \ {d}
           /\ Cardinality(deadlines') = Cardinality(deadlines) - 1
           /\ left' = left - 1 /\ Len(sink') = Len(sink) + 1
    BY <1>6, PopMoves
  <2>2. pc = "timers" /\ UNCHANGED <<pc, at, now, began, sampled, queue>>
    BY <1>6 DEF PopTimer, loopVars, ghostVars
  <2>3. SinkHasRoom' => SinkHasRoom
    BY <1>a, <2>1 DEF SinkHasRoom
  <2>4. \A kind \in Kinds : Polled(kind)' = Polled(kind)
    BY <2>2 DEF Polled
  <2>5. \/ left' = Cardinality(deadlines')
        \/ Capacity # Growable /\ Len(sink') + left' = Capacity
    BY <1>a, <1>b, <2>1, <2>2 DEF PolledClean
  <2>6. QED
    BY <2>1, <2>2, <2>3, <2>4, <2>5 DEF PolledClean, Kinds
<1>7. CASE TimersDone
  <2>1. /\ pc = "timers" /\ pc' = "poll" /\ NextSource /\ TimersFinished
        /\ UNCHANGED <<now, began, queue, deadlines, sink>>
    BY <1>7 DEF TimersDone, NextSource, sourceVars, ghostVars
  <2>2. at <= Len(Sources) /\ Sources[at] = "timers"
    BY <1>a, <2>1 DEF TypeOK
  <2>3. Polled("queue")' => Polled("queue")
    BY <1>a, <2>1, <2>2, PolledNext DEF Kinds
  <2>4. SinkHasRoom' = SinkHasRoom
    BY <2>1 DEF SinkHasRoom
  <2>5. ASSUME SinkHasRoom, NEW d \in deadlines PROVE d.due > began
    <3>0. d.due \in Nat
      BY <1>a DEF TypeOK, ItemOf, Item
    <3>1. CASE left = 0
      <4>1. Cardinality(deadlines) = 0
        BY <1>a, <2>1, <2>5, <3>1 DEF PolledClean, SinkHasRoom
      <4>2. deadlines = {}
        BY <1>a, <4>1, FS_EmptySet DEF TypeOK
      <4>3. QED
        BY <4>2
    <3>2. CASE left # 0
      <4>1. d.due > sampled /\ began <= sampled
        BY <1>a, <2>1, <3>2, NoneExpired DEF TimersFinished, PolledClean
      <4>2. QED
        BY <1>a, <3>0, <4>1
    <3>3. QED
      BY <3>1, <3>2
  <2>6. QED
    BY <2>1, <2>3, <2>4, <2>5 DEF PolledClean
<1>8. CASE SelectFull \/ SelectTimedOut \/ SelectReturns
  <2>1. /\ pc \in {"poll", "select"} /\ pc' = "poll" /\ NextSource
        /\ at <= Len(Sources) /\ Sources[at] = "os"
        /\ UNCHANGED <<now, began, queue, deadlines>>
    BY <1>8, <1>a DEF SelectFull, SelectTimedOut, SelectReturns, AtSource, NextSource,
       TypeOK, sourceVars, ghostVars
  <2>2. Len(sink') \in Nat /\ Len(sink') >= Len(sink)
    <3>1. CASE SelectReturns
      <4>1. PICK k \in 0..Len(ready) : Len(sink') = Len(sink) + k
        BY <3>1, SelectMoves
      <4>2. Len(ready) \in Nat
        BY <1>a, LenProperties DEF TypeOK
      <4>3. QED
        BY <1>a, <4>1, <4>2
    <3>2. CASE ~SelectReturns
      BY <1>8, <1>a, <3>2 DEF SelectFull, SelectTimedOut
    <3>3. QED
      BY <3>1, <3>2
  <2>3. SinkHasRoom' => SinkHasRoom
    BY <1>a, <2>2 DEF SinkHasRoom
  <2>4. /\ Polled("queue")' => Polled("queue")
        /\ Polled("timers")' => Polled("timers")
    BY <1>a, <2>1, PolledNext DEF Kinds
  <2>5. QED
    BY <2>1, <2>3, <2>4 DEF PolledClean
<1>9. CASE Select
  <2>1. pc = "poll" /\ pc' = "select" /\ UNCHANGED <<at, now, began, queue, deadlines, sink>>
    BY <1>9 DEF Select, AtSource, sourceVars, ghostVars
  <2>2. \A kind \in Kinds : Polled(kind)' = Polled(kind)
    BY <2>1 DEF Polled
  <2>3. QED
    BY <2>1, <2>2 DEF PolledClean, SinkHasRoom, Kinds
<1>10. CASE Kernel \/ Tick \/ UNCHANGED vars
  <2>1. /\ UNCHANGED <<pc, at, began, sampled, left, queue, deadlines, sink>>
        /\ now' = now \/ now' = now + 1
    BY <1>10 DEF Kernel, Tick, vars, sourceVars, loopVars, waitVars, ghostVars
  <2>2. QED
    BY <1>a, <2>1 DEF PolledClean, Polled, SinkHasRoom
<1>11. CASE App \/ SelectFails \/ Return
  <2>1. pc' = "idle"
    BY <1>11 DEF App, AppAddEvent, AppAddDeadline, AppAddTimeout, AppRemoveDeadline,
       AppHandle, SelectFails, Return, Leave, loopVars
  <2>2. QED
    BY <2>1 DEF PolledClean, Polled
<1>12. QED
  BY <1>1, <1>2, <1>3, <1>4, <1>5, <1>6, <1>7, <1>8, <1>9, <1>10, <1>11
  DEF Next, PollStep

\* What a source leaves behind when it was polled, at any time.
LEMMA CleanInvariant == Spec => []PolledClean
<1>1. PolledClean /\ Safe /\ [Next]_vars => PolledClean'
  BY CleanStep
<1>2. QED
  BY <1>1, CleanInit, SafeInvariant, PTL DEF Spec

\* The step that returns Ok.
LEMMA ReturnClean ==
    ASSUME Safe, PolledClean, [Next]_vars,
           pc # "idle", pc' = "idle", result' = "ok", SinkHasRoom'
    PROVE  /\ Uses("queue") => queue' = <<>>
           /\ Uses("timers") => \A d \in deadlines' : d.due > began
<1>1. CASE Return
  <2>1. /\ pc = "poll" /\ at > Len(Sources) /\ UNCHANGED <<sink, queue, deadlines>>
    BY <1>1 DEF Return, sourceVars
  <2>2. at \in Nat /\ Len(Sources) \in Nat /\ DOMAIN Sources = 1..Len(Sources)
    BY EventLoopAssumption, LenProperties DEF Safe, TypeOK
  <2>3. \A i \in DOMAIN Sources : i \in 1..(at - 1)
    BY <2>1, <2>2
  <2>4. \A kind \in Kinds : Uses(kind) => Polled(kind)
    BY <2>1, <2>3 DEF Uses, Polled
  <2>5. QED
    BY <2>1, <2>4 DEF PolledClean, SinkHasRoom, Kinds
<1>2. CASE ~Return
  <2>1. ~SelectFails
    BY DEF SelectFails, Leave
  <2>2. pc' = pc \/ pc' # "idle"
    BY <1>2, <2>1 DEF Next, App, PollStep, AppAddEvent, AppAddDeadline, AppAddTimeout,
       AppRemoveDeadline, AppHandle, AppPoll, Poll, FoldTimeout, FoldDone, PollQueue,
       PollTimers, PopTimer, TimersDone, SelectFull, Select, SelectReturns,
       SelectTimedOut, NextSource, Kernel, Tick, loopVars, vars
  <2>3. QED
    BY <2>2
<1>3. QED
  BY <1>1, <1>2

\* A poll that returns Ok with room left in the sink leaves no event in the
\* queue and no deadline that had passed when it was called.
THEOREM OkHasPolledAll == Spec => OkPolledAll
<1>1. Safe /\ PolledClean /\ [Next]_vars =>
        [ /\ pc # "idle" /\ pc' = "idle" /\ result' = "ok"
          /\ SinkHasRoom'
          => /\ Uses("queue") => queue' = <<>>
             /\ Uses("timers") => \A d \in deadlines' : d.due > began ]_vars
  BY ReturnClean
<1>2. QED
  BY <1>1, SafeInvariant, CleanInvariant, PTL DEF Spec, OkPolledAll

-----------------------------------------------------------------------------
(* The proof that EventLoop implements Delivery: every step of the clock,  *)
(* the application, the kernel and poll is one step of Delivery or none.   *)

\* The abstract variables in terms of the concrete ones.
LEMMA MappedVars ==
    /\ D!deliveryVars = <<now, Waiting, sink, handled, removed>>
    /\ D!Known = Everything
BY DEF D!deliveryVars, D!Known, D!Range, Range, Everything

\* The initial state of the event loop is one of Delivery.
LEMMA InitRefines == Init => D!Init
<1>1. SUFFICES ASSUME Init PROVE D!Init
  OBVIOUS
<1>2. Range(queue) = {} /\ Range(ready) = {}
  BY <1>1, EmptySeq, LenProperties DEF Init, Range
<1>3. QED
  BY <1>1, <1>2 DEF Init, D!Init, Waiting

\* Accepting a new item.
LEMMA AcceptRefines ==
    ASSUME NEW x, x \notin Everything, Waiting' = Waiting \cup {x},
           UNCHANGED <<now, sink, handled, removed>>
    PROVE  D!Accept
<1>1. x \in Waiting' \ D!Known
  BY MappedVars
<1>2. QED
  BY <1>1 DEF D!Accept

\* Moving a list p of waiting items that are due to the end of the sink.
LEMMA MoveRefines ==
    ASSUME Safe, SinkBounded', NEW p \in Seq(Item),
           IsInjective(p), Range(p) \subseteq Waiting,
           \A i \in Range(p) : i.due <= now,
           sink' = sink \o p,
           Waiting' = Waiting \ Range(p),
           UNCHANGED <<now, handled, removed>>
    PROVE  D!Deliver \/ UNCHANGED D!deliveryVars
<1>1. sink \in Seq(Item) /\ Len(sink) \in Nat /\ DOMAIN sink = 1..Len(sink)
  BY LenProperties DEF Safe, TypeOK
<1>2. Len(p) \in Nat /\ DOMAIN p = 1..Len(p)
  BY LenProperties
<1>3. /\ sink \o p \in Seq(Item) /\ Len(sink \o p) = Len(sink) + Len(p)
      /\ \A i \in 1..(Len(sink) + Len(p)) :
            (sink \o p)[i] = IF i <= Len(sink) THEN sink[i] ELSE p[i - Len(sink)]
  BY <1>1, ConcatProperties
<1>4. /\ sink' \in Seq(Item) /\ Len(sink') = Len(sink) + Len(p)
      /\ \A i \in 1..(Len(sink) + Len(p)) :
            sink'[i] = IF i <= Len(sink) THEN sink[i] ELSE p[i - Len(sink)]
  BY <1>3
<1>5. CASE p = <<>>
  <2>1. Range(p) = {}
    BY <1>2, <1>5, EmptySeq DEF Range
  <2>2. sink' = sink
    BY <1>1, <1>5, ConcatEmptySeq
  <2>3. Waiting' = Waiting
    BY <2>1
  <2>4. QED
    BY <2>2, <2>3 DEF D!deliveryVars
<1>6. CASE p # <<>>
  <2>1. Len(sink') > Len(sink)
    <3>1. Len(p) # 0
      BY <1>6, EmptySeq
    <3>2. QED
      BY <1>1, <1>2, <1>4, <3>1
  <2>2. SubSeq(sink', 1, Len(sink)) = sink
    <3> DEFINE q == SubSeq(sink', 1, Len(sink))
    <3>1. \A i \in 1..Len(sink) : sink'[i] = sink[i] /\ sink'[i] \in Item
      BY <1>1, <1>2, <1>4, ElementOfSeq
    <3>2. /\ q \in Seq(Item)
          /\ Len(q) = IF 1 <= Len(sink) THEN Len(sink) - 1 + 1 ELSE 0
          /\ \A i \in 1..(Len(sink) - 1 + 1) : q[i] = sink'[1 + i - 1]
      BY <1>1, <3>1, SubSeqProperties
    <3> HIDE DEF q
    <3>3. Len(q) = Len(sink)
      BY <1>1, <3>2
    <3>4. ASSUME NEW i \in 1..Len(sink) PROVE q[i] = sink[i]
      <4>1. i \in 1..(Len(sink) - 1 + 1) /\ 1 + i - 1 = i
        BY <1>1
      <4>2. QED
        BY <3>1, <3>2, <4>1
    <3>5. q = sink
      BY <1>1, <3>2, <3>3, <3>4, SeqEqual
    <3>6. QED
      BY <3>5 DEF q
  <2>3. ASSUME NEW i \in (Len(sink) + 1)..Len(sink')
        PROVE  i \in Int /\ i - Len(sink) \in 1..Len(p) /\ sink'[i] = p[i - Len(sink)]
    BY <1>1, <1>2, <1>4
  <2>4. \A i, j \in (Len(sink) + 1)..Len(sink') : sink'[i] = sink'[j] => i = j
    <3>1. SUFFICES ASSUME NEW i \in (Len(sink) + 1)..Len(sink'),
                          NEW j \in (Len(sink) + 1)..Len(sink'), sink'[i] = sink'[j]
                   PROVE  i = j
      OBVIOUS
    <3>2. i \in Int /\ i - Len(sink) \in 1..Len(p) /\ sink'[i] = p[i - Len(sink)]
      BY <2>3
    <3>3. j \in Int /\ j - Len(sink) \in 1..Len(p) /\ sink'[j] = p[j - Len(sink)]
      BY <2>3
    <3>4. i - Len(sink) = j - Len(sink)
      BY <1>2, <3>1, <3>2, <3>3 DEF IsInjective
    <3>5. QED
      BY <1>1, <3>2, <3>3, <3>4
  <2> DEFINE moved == {sink'[i] : i \in (Len(sink) + 1)..Len(sink')}
  <2>5. moved = Range(p)
    <3>1. ASSUME NEW i \in (Len(sink) + 1)..Len(sink') PROVE sink'[i] \in Range(p)
      <4>1. i - Len(sink) \in DOMAIN p /\ sink'[i] = p[i - Len(sink)]
        BY <1>2, <2>3
      <4>2. QED
        BY <4>1 DEF Range
    <3>2. ASSUME NEW i \in 1..Len(p) PROVE p[i] \in moved
      <4>1. /\ Len(sink) + i \in (Len(sink) + 1)..Len(sink')
            /\ (Len(sink) + i) - Len(sink) = i
        BY <1>1, <1>2, <1>4
      <4>2. sink'[Len(sink) + i] = p[i]
        BY <2>3, <4>1
      <4>3. QED
        BY <4>1, <4>2
    <3>3. QED
      BY <1>2, <3>1, <3>2 DEF Range
  <2>6. Capacity = Growable \/ Len(sink') <= Capacity
    BY DEF SinkBounded
  <2>7. QED
    BY <2>1, <2>2, <2>4, <2>5, <2>6 DEF D!Deliver
<1>7. QED
  BY <1>5, <1>6

\* Moving the first k items of a source's list, whatever the deadlines of the
\* timers: the events of the other sources are due at once.
LEMMA DrainRefines ==
    ASSUME Safe, SinkBounded', NEW kind \in Kinds \ {"timers"},
           NEW s \in Seq(ItemOf(kind)), NEW k \in 0..Len(s),
           Range(s) \subseteq Waiting, IsInjective(s),
           sink' = sink \o Prefix(s, k),
           Waiting' = Waiting \ Range(Prefix(s, k)),
           UNCHANGED <<now, handled, removed>>
    PROVE  D!Deliver \/ UNCHANGED D!deliveryVars
<1>1. Range(Prefix(s, k)) \subseteq Range(s) /\ IsInjective(Prefix(s, k))
  BY CutOnce
<1>2. Range(s) \subseteq ItemOf(kind)
  BY RangeOfSeq
<1>3. now \in Nat
  BY DEF Safe, TypeOK
<1>4. \A i \in Range(Prefix(s, k)) : i.due <= now
  BY <1>1, <1>2, <1>3 DEF ItemOf
<1>5. Prefix(s, k) \in Seq(Item)
  BY CutSeq, SeqMonotonic DEF ItemOf
<1>6. QED
  BY <1>1, <1>4, <1>5, MoveRefines

\* One deadline is popped.
LEMMA PopRefines ==
    ASSUME Safe, SinkBounded', TypeOK, NEW d \in deadlines, d.due <= now,
           sink' = Append(sink, d), Waiting' = Waiting \ {d},
           UNCHANGED <<now, handled, removed>>
    PROVE  D!Deliver \/ UNCHANGED D!deliveryVars
<1>1. d \in Item /\ sink \in Seq(Item) /\ d \in Waiting
  BY DEF TypeOK, ItemOf, Waiting
<1> DEFINE p == <<d>>
<1>2. p \in Seq(Item) /\ Len(p) = 1 /\ p[1] = d
  BY <1>1
<1>3. sink' = sink \o p
  BY <1>1, AppendIsConcat
<1> HIDE DEF p
<1>4. DOMAIN p = 1..1
  BY <1>2, LenProperties
<1>5. Range(p) = {d}
  BY <1>2, <1>4 DEF Range
<1>6. IsInjective(p)
  BY <1>4 DEF IsInjective
<1>7. QED
  BY <1>1, <1>2, <1>3, <1>5, <1>6, MoveRefines

\* A step of the event loop is a step of Delivery, or changes nothing it sees.
LEMMA RefinesStep ==
    Safe /\ Conserved /\ NotEarlyInv /\ [Next]_vars => [D!Next]_(D!deliveryVars)
<1> SUFFICES ASSUME Safe, Conserved, NotEarlyInv, [Next]_vars
             PROVE  D!Next \/ UNCHANGED D!deliveryVars
  OBVIOUS
<1>a. /\ TypeOK /\ SinkBounded /\ NothingLost /\ NothingTwice /\ serial \in Nat
      /\ now \in Nat /\ sampled \in Nat /\ sampled <= now
      /\ Len(queue) \in Nat /\ Len(ready) \in Nat
      /\ queue \in Seq(ItemOf("queue")) /\ ready \in Seq(ItemOf("os"))
      /\ IsInjective(queue) /\ IsInjective(ready)
  BY LenProperties DEF Safe, Conserved, NotEarlyInv, NothingTwice, TypeOK
<1>b. /\ \A i \in deadlines : i.src = "timers"
      /\ \A i \in Range(queue) : i.src = "queue"
      /\ \A i \in Range(ready) : i.src = "os"
  BY <1>a, SourcesApart
<1>c. SinkBounded'
  BY SafeStep DEF Safe
<1>1. CASE AppAddEvent
  <2>1. PICK id \in Ids : QueueAdd(id)
    BY <1>1 DEF AppAddEvent
  <2> DEFINE x == NewItem("queue", id, 0)
  <2>2. x \in ItemOf("queue") /\ x.n = serial + 1
    BY <1>a, NewItemType DEF NewItem, Kinds
  <2>3. queue' = Append(queue, x) /\ serial' = serial + 1
    BY <2>1 DEF QueueAdd, Accept
  <2>4. UNCHANGED <<now, sink, deadlines, ready, handled, removed>>
    BY <1>1 DEF AppAddEvent, ghostVars
  <2> HIDE DEF x
  <2>5. Range(queue') = Range(queue) \cup {x}
    BY <1>a, <2>2, <2>3, AppendOnce
  <2>6. Everything' = Everything \cup {x} /\ Waiting' = Waiting \cup {x}
    BY <2>4, <2>5 DEF Everything, Waiting
  <2>7. x \notin Everything
    BY <1>a, <2>2, <2>3, <2>6, AcceptConserves
  <2>8. QED
    BY <2>4, <2>6, <2>7, AcceptRefines DEF D!Next
<1>2. CASE AppAddDeadline \/ AppAddTimeout
  <2>1. PICK id \in Ids, due \in Nat : AddDeadline(id, due)
    BY <1>2, <1>a, EventLoopAssumption DEF AppAddDeadline, AppAddTimeout, AddTimeout
  <2> DEFINE x == NewItem("timers", id, due)
  <2>2. x.n = serial + 1
    BY DEF NewItem
  <2>3. deadlines' = deadlines \cup {x} /\ serial' = serial + 1
    BY <2>1 DEF AddDeadline, Accept
  <2>4. UNCHANGED <<now, sink, queue, ready, handled, removed>>
    BY <1>2 DEF AppAddDeadline, AppAddTimeout, ghostVars
  <2> HIDE DEF x
  <2>5. Everything' = Everything \cup {x} /\ Waiting' = Waiting \cup {x}
    BY <2>3, <2>4 DEF Everything, Waiting
  <2>6. x \notin Everything
    BY <1>a, <2>2, <2>3, <2>5, AcceptConserves
  <2>7. QED
    BY <2>4, <2>5, <2>6, AcceptRefines DEF D!Next
<1>3. CASE AppRemoveDeadline
  <2>1. PICK d \in deadlines : deadlines' = deadlines \ {d} /\ removed' = removed \cup {d}
    BY <1>3 DEF AppRemoveDeadline, Removable, RemoveDeadline
  <2>2. UNCHANGED <<now, sink, queue, ready, handled>>
    BY <1>3 DEF AppRemoveDeadline
  <2>3. d \notin Range(queue) \cup Range(ready)
    BY <1>b
  <2>4. Waiting' = Waiting \ {d} /\ d \in Waiting
    BY <2>1, <2>2, <2>3 DEF Waiting
  <2>5. QED
    BY <2>1, <2>2, <2>4 DEF D!Next, D!Cancel
<1>4. CASE AppHandle
  <2>1. /\ sink' = Tail(sink) /\ sink # <<>> /\ handled' = handled \cup {Head(sink)}
        /\ UNCHANGED <<now, deadlines, queue, ready, removed>>
    BY <1>4 DEF AppHandle, sourceVars
  <2>2. Waiting' = Waiting
    BY <2>1 DEF Waiting
  <2>3. QED
    BY <2>1, <2>2 DEF D!Next, D!Handle
<1>5. CASE Kernel
  <2>1. PICK id \in Ids : OsReady(id)
    BY <1>5 DEF Kernel
  <2> DEFINE x == NewItem("os", id, 0)
  <2>2. x \in ItemOf("os") /\ x.n = serial + 1
    BY <1>a, NewItemType DEF NewItem, Kinds
  <2>3. ready' = Append(ready, x) /\ serial' = serial + 1
    BY <2>1 DEF OsReady, Accept
  <2>4. UNCHANGED <<now, sink, deadlines, queue, handled, removed>>
    BY <1>5 DEF Kernel, ghostVars
  <2> HIDE DEF x
  <2>5. Range(ready') = Range(ready) \cup {x}
    BY <1>a, <2>2, <2>3, AppendOnce
  <2>6. Everything' = Everything \cup {x} /\ Waiting' = Waiting \cup {x}
    BY <2>4, <2>5 DEF Everything, Waiting
  <2>7. x \notin Everything
    BY <1>a, <2>2, <2>3, <2>6, AcceptConserves
  <2>8. QED
    BY <2>4, <2>6, <2>7, AcceptRefines DEF D!Next
<1>6. CASE PollQueue
  <2> DEFINE k == CapacityMin(CapacityLeft, Len(queue))
             P == Range(Prefix(queue, k))
  <2>1. k \in 0..Len(queue)
    BY <1>a, CapacityMinFits DEF TypeOK
  <2>2. sink' = sink \o Prefix(queue, k) /\ queue' = Rest(queue, k)
    BY <1>6 DEF PollQueue, QueuePoll
  <2>3. UNCHANGED <<now, deadlines, ready, handled, removed>>
    BY <1>6 DEF PollQueue, ghostVars
  <2> HIDE DEF k
  <2>4. Range(queue) = P \cup Range(queue') /\ P \cap Range(queue') = {}
    BY <1>a, <2>1, <2>2, CutOnce
  <2>5. Waiting' = Waiting \ P /\ Range(queue) \subseteq Waiting
    BY <1>b, <2>3, <2>4 DEF Waiting
  <2>6. "queue" \in Kinds \ {"timers"}
    BY DEF Kinds
  <2>7. D!Deliver \/ UNCHANGED D!deliveryVars
    BY <1>a, <1>c, <2>1, <2>2, <2>3, <2>5, <2>6, DrainRefines
  <2>8. QED
    BY <2>7 DEF D!Next
<1>7. CASE PopTimer
  <2>1. PICK d \in deadlines : /\ deadlines' = deadlines \ {d} /\ sink' = Append(sink, d)
                               /\ d.due <= sampled
    BY <1>7 DEF PopTimer, TimersPop, Expired
  <2>2. UNCHANGED <<now, queue, ready, handled, removed>>
    BY <1>7 DEF PopTimer, ghostVars
  <2>3. d.due \in Nat /\ d \notin Range(queue) \cup Range(ready)
    BY <1>a, <1>b DEF TypeOK, ItemOf, Item
  <2>4. Waiting' = Waiting \ {d} /\ d.due <= now
    BY <1>a, <2>1, <2>2, <2>3 DEF Waiting
  <2>5. D!Deliver \/ UNCHANGED D!deliveryVars
    BY <1>a, <1>c, <2>1, <2>2, <2>4, PopRefines
  <2>6. QED
    BY <2>5 DEF D!Next
<1>8. CASE SelectReturns
  <2> DEFINE k == CapacityMin(SelectRoom, Len(ready))
             P == Range(Prefix(ready, k))
  <2>1. k \in 0..Len(ready)
    BY <1>a, SelectRoomFits, EventAssumption DEF CapacityMin, TypeOK
  <2>2. sink' = sink \o Prefix(ready, k) /\ ready' = Rest(ready, k)
    BY <1>8 DEF SelectReturns, SelectEvents
  <2>3. UNCHANGED <<now, deadlines, queue, handled, removed>>
    BY <1>8 DEF SelectReturns, ghostVars
  <2> HIDE DEF k
  <2>4. Range(ready) = P \cup Range(ready') /\ P \cap Range(ready') = {}
    BY <1>a, <2>1, <2>2, CutOnce
  <2>5. Waiting' = Waiting \ P /\ Range(ready) \subseteq Waiting
    BY <1>b, <2>3, <2>4 DEF Waiting
  <2>6. "os" \in Kinds \ {"timers"}
    BY DEF Kinds
  <2>7. D!Deliver \/ UNCHANGED D!deliveryVars
    BY <1>a, <1>c, <2>1, <2>2, <2>3, <2>5, <2>6, DrainRefines
  <2>8. QED
    BY <2>7 DEF D!Next
<1>9. CASE Tick
  <2>1. now' > now /\ UNCHANGED <<deadlines, queue, ready, sink, handled, removed>>
    BY <1>9, <1>a DEF Tick, sourceVars, ghostVars
  <2>2. Waiting' = Waiting
    BY <2>1 DEF Waiting
  <2>3. QED
    BY <2>1, <2>2 DEF D!Next, D!Tick
<1>10. CASE UNCHANGED <<now, sink, deadlines, queue, ready, handled, removed>>
  <2>1. Waiting' = Waiting
    BY <1>10 DEF Waiting
  <2>2. QED
    BY <1>10, <2>1 DEF D!deliveryVars
<1>11. CASE \/ AppPoll \/ FoldTimeout \/ FoldDone \/ PollTimers \/ TimersDone
            \/ SelectFull \/ Select \/ SelectTimedOut \/ SelectFails \/ Return
            \/ UNCHANGED vars
  BY <1>10, <1>11 DEF AppPoll, Poll, FoldTimeout, FoldDone, PollTimers, TimersDone,
     SelectFull, Select, SelectTimedOut, SelectFails, Return, vars, sourceVars, ghostVars
<1>12. QED
  BY <1>1, <1>2, <1>3, <1>4, <1>5, <1>6, <1>7, <1>8, <1>9, <1>11 DEF Next, App, PollStep

\* The event loop implements Delivery: polling step by step, with the clock
\* and the kernel running on and kernel calls failing, moves every accepted
\* event to the sink at most once, when it is due, within the capacity.
THEOREM EventLoopImplementsDelivery == Spec => ImplementsDelivery
<1>1. Spec => []NotEarlyInv
  <2>1. NotEarlyInv /\ Safe /\ [Next]_vars => NotEarlyInv'
    BY NotEarlyStep
  <2>2. QED
    BY <2>1, NotEarlyInit, SafeInvariant, PTL DEF Spec
<1>2. QED
  BY <1>1, InitRefines, RefinesStep, SafeInvariant, ConservedInvariant, PTL
  DEF Spec, ImplementsDelivery, D!Spec

=============================================================================
