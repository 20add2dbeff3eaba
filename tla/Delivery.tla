------------------------------ MODULE Delivery ------------------------------
(***************************************************************************)
(* What the event sources of a loop and poll together promise, whatever    *)
(* the sources are, how they are ordered and how a call of poll is cut     *)
(* into steps: an event that was accepted is pending until it is moved,    *)
(* once, to the end of the sink, never before it is due and never beyond   *)
(* the sink's capacity; there the application takes events from the front. *)
(* A pending event may be cancelled.                                       *)
(***************************************************************************)
EXTENDS Integers, Sequences, Functions

CONSTANTS Growable, Capacity

VARIABLES clock, pending, sink, handled, cancelled

deliveryVars == <<clock, pending, sink, handled, cancelled>>

Known == pending \cup Range(sink) \cup handled \cup cancelled

Init ==
    /\ clock = 0 /\ pending = {} /\ sink = <<>>
    /\ handled = {} /\ cancelled = {}

\* A source accepts an event it did not have before.
Accept ==
    /\ \E i \in pending' \ Known : pending' = pending \cup {i}
    /\ UNCHANGED <<clock, sink, handled, cancelled>>

Cancel ==
    /\ \E i \in pending : pending' = pending \ {i} /\ cancelled' = cancelled \cup {i}
    /\ UNCHANGED <<clock, sink, handled>>

\* Some pending events that are due are moved to the end of the sink.
Deliver ==
    LET old == Len(sink)
        moved == {sink'[k] : k \in (old + 1)..Len(sink')}
    IN  /\ Len(sink') > old
        /\ SubSeq(sink', 1, old) = sink
        /\ \A k, l \in (old + 1)..Len(sink') : sink'[k] = sink'[l] => k = l
        /\ moved \subseteq pending
        /\ \A i \in moved : i.due <= clock
        /\ Capacity = Growable \/ Len(sink') <= Capacity
        /\ pending' = pending \ moved
        /\ UNCHANGED <<clock, handled, cancelled>>

Handle ==
    /\ sink # <<>>
    /\ sink' = Tail(sink)
    /\ handled' = handled \cup {Head(sink)}
    /\ UNCHANGED <<clock, pending, cancelled>>

Tick == clock' > clock /\ UNCHANGED <<pending, sink, handled, cancelled>>

Next == Accept \/ Cancel \/ Deliver \/ Handle \/ Tick

Spec == Init /\ [][Next]_deliveryVars
==============================================================================
