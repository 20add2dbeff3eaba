---------------------------- MODULE SignalfdProofs ----------------------------
(***************************************************************************)
(* The Signals of Linux, for any threads, Signals and sets: no signal that *)
(* an open Signals is there to receive is lost, or ends the process in a   *)
(* thread that was started after it was created.                           *)
(***************************************************************************)
EXTENDS Signalfd, TLAPS

\* Every action keeps the types; Drop takes the signalfd out of the epoll
\* instance in the step in which the Signals stops being open.
LEMMA TypeStep == TypeOK /\ [Next]_vars => TypeOK'
<1> SUFFICES ASSUME TypeOK, [Next]_vars PROVE TypeOK'
    OBVIOUS
<1> USE SignalfdAssumption
<1>1. ASSUME NEW i \in Instances, NEW t \in Threads, NEW signals \in Sets, Create(i, t, signals)
      PROVE  TypeOK'
    BY <1>1 DEF TypeOK, Create, Sigset, SignalSet
<1>2. ASSUME NEW i \in Instances, Register(i) PROVE TypeOK'
    BY <1>2 DEF TypeOK, Register
<1>3. ASSUME NEW i \in Instances, RegisterFails(i) PROVE TypeOK'
    BY <1>3 DEF TypeOK, RegisterFails
<1>4. ASSUME NEW i \in Instances, Block(i) PROVE TypeOK'
  <2>1. i \in registered
      BY <1>4 DEF TypeOK, Block
  <2> QED
      BY <1>4, <2>1 DEF TypeOK, Block, Misses, SignalSet
<1>5. ASSUME NEW i \in Instances, BlockFails(i) PROVE TypeOK'
    BY <1>5 DEF TypeOK, BlockFails
<1>6. ASSUME NEW i \in Instances, Poll(i) PROVE TypeOK'
    BY <1>6 DEF TypeOK, Poll, newVars
<1>7. ASSUME NEW i \in Instances, Receive(i) PROVE TypeOK'
    BY <1>7 DEF TypeOK, Receive, newVars
<1>8. ASSUME NEW i \in Instances, ReceiveFails(i) PROVE TypeOK'
    BY <1>8 DEF TypeOK, ReceiveFails, newVars
<1>9. ASSUME NEW i \in Instances, Ignore(i) PROVE TypeOK'
    BY <1>9 DEF TypeOK, Ignore, newVars
<1>10. ASSUME NEW i \in Instances, Drop(i) PROVE TypeOK'
    BY <1>10 DEF TypeOK, Drop
<1>11. ASSUME NEW t \in Threads, NEW u \in Threads, Spawn(t, u) PROVE TypeOK'
    BY <1>11 DEF TypeOK, Spawn, newVars
<1>12. ASSUME NEW s \in Signal, Send(s) PROVE TypeOK'
    BY <1>12 DEF TypeOK, Send, Dies, newVars
<1>13. CASE UNCHANGED vars
    BY <1>13 DEF TypeOK, vars
<1> QED
    BY <1>1, <1>2, <1>3, <1>4, <1>5, <1>6, <1>7, <1>8, <1>9, <1>10, <1>11, <1>12, <1>13
       DEF Next, NewStep

\* Every signal, thread, Signals and signalfd is one there is.
THEOREM TypeInvariant == Spec => []TypeOK
<1>1. Init => TypeOK
    BY SignalfdAssumption DEF Init, TypeOK, SignalSet
<1> QED
    BY <1>1, TypeStep, PTL DEF Spec

\* A receive takes one signal out of the pending ones, and that is the one it
\* returns; every other action leaves the pending signals or adds to them.
LEMMA OwedStep == TypeOK /\ owed \subseteq pending /\ [Next]_vars => (owed \subseteq pending)'
<1> SUFFICES ASSUME TypeOK, owed \subseteq pending, [Next]_vars PROVE (owed \subseteq pending)'
    OBVIOUS
<1>1. ASSUME NEW i \in Instances, Receive(i) PROVE (owed \subseteq pending)'
    BY <1>1 DEF Receive
<1>2. ASSUME NEW s \in Signal, Send(s) PROVE (owed \subseteq pending)'
    BY <1>2 DEF Send
<1>3. ASSUME NEW i \in Instances, NewStep(i) PROVE UNCHANGED <<owed, pending>>
    BY <1>3 DEF NewStep, Register, RegisterFails, Block, BlockFails
<1>4. ASSUME NEW i \in Instances, NEW t \in Threads, NEW signals \in Sets, Create(i, t, signals)
      PROVE  UNCHANGED <<owed, pending>>
    BY <1>4 DEF Create
<1>5. ASSUME NEW i \in Instances, Poll(i) \/ ReceiveFails(i) \/ Ignore(i) \/ Drop(i)
      PROVE  UNCHANGED <<owed, pending>>
    BY <1>5 DEF Poll, ReceiveFails, Ignore, Drop
<1>6. ASSUME NEW t \in Threads, NEW u \in Threads, Spawn(t, u) PROVE UNCHANGED <<owed, pending>>
    BY <1>6 DEF Spawn
<1>7. CASE UNCHANGED vars
    BY <1>7 DEF vars
<1> QED
    BY <1>1, <1>2, <1>3, <1>4, <1>5, <1>6, <1>7 DEF Next

\* A signal sent to an open Signals stays pending until a receive returns it.
THEOREM NoSignalIsLost == Spec => []NoSignalLost
<1>1. Init => owed \subseteq pending
    BY DEF Init
<1>2. TypeOK /\ owed \subseteq pending => NoSignalLost
    BY DEF NoSignalLost
<1> QED
    BY <1>1, <1>2, TypeInvariant, OwedStep, PTL DEF Spec

-----------------------------------------------------------------------------
(* NotInterrupted.  What makes it inductive is that every thread blocks    *)
(* the signals of every open Signals, or missed them: the creating thread  *)
(* gets them from block_signals, which takes nothing else from its mask,   *)
(* the threads that run then miss them, and a thread that is started later *)
(* inherits the one or the other.                                          *)

\* All threads block the signals of the open Signals, or missed them.
AllBlock ==
    \A i \in Instances, t \in running :
        stage[i] = "open" => set[i] \subseteq mask[t] \cup missed[t]

\* Block adds the set to the mask of its thread and to what the others missed;
\* Spawn copies both.
LEMMA AllBlockStep == TypeOK /\ AllBlock /\ [Next]_vars => AllBlock'
<1> SUFFICES ASSUME TypeOK, AllBlock, [Next]_vars PROVE AllBlock'
    OBVIOUS
<1> USE DEF TypeOK, AllBlock
<1>1. ASSUME NEW i \in Instances, NEW t \in Threads, NEW signals \in Sets, Create(i, t, signals)
      PROVE  AllBlock'
    BY <1>1 DEF Create
<1>2. ASSUME NEW i \in Instances, Register(i) \/ RegisterFails(i) \/ BlockFails(i) PROVE AllBlock'
    BY <1>2 DEF Register, RegisterFails, BlockFails
<1>3. ASSUME NEW i \in Instances, Block(i) PROVE AllBlock'
  <2>1. caller[i] \in Threads /\ running \subseteq Threads
      OBVIOUS
  <2>2. \A t \in Threads : mask[t] \subseteq mask'[t] /\ missed[t] \subseteq missed'[t]
      BY <1>3, <2>1 DEF Block, Misses
  <2>3. \A t \in running : set[i] \subseteq mask'[t] \cup missed'[t]
      BY <1>3, <2>1 DEF Block, Misses
  <2> QED
      BY <1>3, <2>1, <2>2, <2>3 DEF Block
<1>4. ASSUME NEW i \in Instances, Poll(i) \/ Receive(i) \/ ReceiveFails(i) \/ Ignore(i)
      PROVE  AllBlock'
    BY <1>4 DEF Poll, Receive, ReceiveFails, Ignore, newVars
<1>5. ASSUME NEW i \in Instances, Drop(i) PROVE AllBlock'
    BY <1>5 DEF Drop
<1>6. ASSUME NEW t \in Threads, NEW u \in Threads, Spawn(t, u) PROVE AllBlock'
    BY <1>6 DEF Spawn, newVars
<1>7. ASSUME NEW s \in Signal, Send(s) PROVE AllBlock'
    BY <1>7 DEF Send, newVars
<1>8. CASE UNCHANGED vars
    BY <1>8 DEF vars
<1> QED
    BY <1>1, <1>2, <1>3, <1>4, <1>5, <1>6, <1>7, <1>8 DEF Next, NewStep

\* Only a sent signal ends the process, and one of an open Signals is blocked or
\* missed by every thread it could be delivered to.
LEMMA NotInterruptedStep == AllBlock /\ NotInterrupted /\ [Next]_vars => NotInterrupted'
<1> SUFFICES ASSUME AllBlock, NotInterrupted, [Next]_vars PROVE NotInterrupted'
    OBVIOUS
<1>1. ASSUME NEW s \in Signal, Send(s) PROVE NotInterrupted'
  <2>1. s \in Covered => \A t \in running : s \in mask[t] \cup missed[t]
      BY DEF Covered, AllBlock
  <2> QED
      BY <1>1, <2>1 DEF Send, Dies, NotInterrupted
<1>2. ASSUME NEW i \in Instances, NewStep(i) PROVE UNCHANGED death
    BY <1>2 DEF NewStep, Register, RegisterFails, Block, BlockFails
<1>3. ASSUME NEW i \in Instances, NEW t \in Threads, NEW signals \in Sets, Create(i, t, signals)
      PROVE  UNCHANGED death
    BY <1>3 DEF Create
<1>4. ASSUME NEW i \in Instances,
             Poll(i) \/ Receive(i) \/ ReceiveFails(i) \/ Ignore(i) \/ Drop(i)
      PROVE  UNCHANGED death
    BY <1>4 DEF Poll, Receive, ReceiveFails, Ignore, Drop
<1>5. ASSUME NEW t \in Threads, NEW u \in Threads, Spawn(t, u) PROVE UNCHANGED death
    BY <1>5 DEF Spawn
<1>6. CASE UNCHANGED vars
    BY <1>6 DEF vars, NotInterrupted
<1> QED
    BY <1>1, <1>2, <1>3, <1>4, <1>5, <1>6 DEF Next, NotInterrupted

\* No signal that an open Signals is there to receive ends the process, but in a
\* thread that ran when the Signals was created, or was started by one that did.
THEOREM NeverInterrupted == Spec => []NotInterrupted
<1>1. Init => AllBlock /\ NotInterrupted
    BY DEF Init, AllBlock, NotInterrupted
<1> QED
    BY <1>1, TypeInvariant, AllBlockStep, NotInterruptedStep, PTL DEF Spec
==============================================================================
