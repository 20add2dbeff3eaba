-------------------------------- MODULE Event --------------------------------
(***************************************************************************)
(* What every event source shares (src/event.rs): the capacity an event    *)
(* sink has left, the timeouts sources and callers hand to each other, and *)
(* the events themselves.                                                  *)
(*                                                                         *)
(* An Item is one readiness event from the moment a source accepts it      *)
(* until the application has handled it.  `id` is the event::Id, `src`     *)
(* tells which source accepted it (and so its readiness: Ready::TIMER for  *)
(* "timers"), `due` is the deadline of a timer (0 for the others).  The    *)
(* serial number `n` is not in the code: events of the same id and         *)
(* readiness are equal values there, and the numbers let the properties    *)
(* tell them apart.                                                        *)
(***************************************************************************)
EXTENDS Integers, Sequences, FiniteSets, Functions

CONSTANTS
    None,      \* Option::None of a timeout: no bound on the wait
    Growable,  \* Capacity::Growable
    Capacity,  \* the capacity of the event sink: a limit, or Growable
    Ids,       \* the event::Ids in use, ordered (Id derives Ord)
    MaxItems   \* bound on the number of events accepted in a behaviour

ASSUME EventAssumption ==
    /\ None \notin Nat
    /\ Growable \notin Nat
    /\ Capacity \in Nat \cup {Growable}
    /\ Ids \subseteq Nat
    /\ MaxItems \in Nat

VARIABLES
    now,     \* the monotonic clock behind Instant::now()
    serial,  \* number of events accepted so far
    sink     \* the caller's event sink

Kinds == {"os", "queue", "timers"}

Item == [n : Nat, src : Kinds, id : Nat, due : Nat]

\* Option<Duration>
Timeout == Nat \cup {None}

NewItem(src, id, due) == [n |-> serial + 1, src |-> src, id |-> id, due |-> due]

\* Event::new for an event of source src: the next item is created.
Accept == serial < MaxItems /\ serial' = serial + 1

\* Sink::capacity_left of a sink of the given capacity.
CapacityLeft == IF Capacity = Growable THEN Growable ELSE Capacity - Len(sink)

\* Capacity::min, the smaller of a capacity and a count.
CapacityMin(cap, n) == IF cap # Growable /\ cap < n THEN cap ELSE n

\* Fault: a caller's timeout hides the sources' own.
FaultyMinTimeoutLeft(left, right) == IF left = None THEN right ELSE left

\* min_timeout of src/lib.rs, where None is "no bound".
MinTimeout(left, right) ==
    CASE left = None  -> right
      [] right = None -> left
      [] OTHER        -> IF left <= right THEN left ELSE right

\* Moving the first k elements of a source's list to the end of the sink.
Prefix(s, k) == SubSeq(s, 1, k)
Rest(s, k)   == SubSeq(s, k + 1, Len(s))
==============================================================================
