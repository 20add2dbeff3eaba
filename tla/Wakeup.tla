------------------------------- MODULE Wakeup -------------------------------
(***************************************************************************)
(* What an awakener promises to the threads that call wake and to the one  *)
(* that polls: after a wake the poller gets an event, one for all wakes it *)
(* has not seen yet, and it gets no event without a wake.  The promise     *)
(* lasts as long as one copy of the awakener is alive.                     *)
(***************************************************************************)
EXTENDS Naturals

VARIABLES
    copies,  \* the copies of the awakener that are alive
    owed,    \* a wake happened that the poller has not been told of
    events   \* number of events the poller got

wakeupVars == <<copies, owed, events>>

Init == copies = {} /\ owed = FALSE /\ events = 0

\* The awakener is created, or a copy of it.
Copy == \E c \in copies' \ copies : copies' = copies \cup {c} /\ UNCHANGED <<owed, events>>

Wake == copies # {} /\ owed' = TRUE /\ UNCHANGED <<copies, events>>

Deliver == owed /\ owed' = FALSE /\ events' = events + 1 /\ UNCHANGED copies

\* Only with the last copy may a wake be dropped.
Drop ==
    /\ \E c \in copies : copies' = copies \ {c}
    /\ owed' = owed \/ (copies' = {} /\ owed' = FALSE)
    /\ UNCHANGED events

Next == Copy \/ Wake \/ Deliver \/ Drop

Spec == Init /\ [][Next]_wakeupVars /\ WF_wakeupVars(Deliver)
==============================================================================
