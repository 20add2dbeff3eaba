-------------------------------- MODULE Kqueue -------------------------------
(***************************************************************************)
(* Registrations with the kqueue selector (src/sys/unix/kqueue.rs).  A     *)
(* handle is registered by up to two knotes, one for each filter: `knotes` *)
(* is what the kernel keeps for a handle and a filter, `active` its queue  *)
(* of knotes that have something to report.                                *)
(*                                                                         *)
(* One call changes both filters, and each change succeeds or fails on its *)
(* own: the selector hands kevent() a receipt for every change, looks      *)
(* through them for an error it does not ignore, and returns the first.    *)
(* What the other change did stays.                                        *)
(*                                                                         *)
(* External, from how the code uses it: EV_ADD makes a knote, or gives the *)
(* one that is there the new id and keeps its EV_CLEAR and EV_ONESHOT, and *)
(* activates it if it is ready; EV_DELETE removes it, or answers ENOENT;   *)
(* kevent() takes knotes from the queue, drops the ones that are not ready *)
(* any more, reports the others and then deletes (oneshot), deactivates    *)
(* (clear) or queues them again (level).                                   *)
(*                                                                         *)
(* So reregister does not change the option of a filter that is still      *)
(* there: what the caller may count on is the option in force, that of the *)
(* call that made the knote.                                               *)
(***************************************************************************)
EXTENDS Registrations

CONSTANT AddsMayFail   \* may EV_ADD fail: ENOMEM, or EPIPE, say

VARIABLES
    knotes,   \* the kernel's knotes
    active,   \* its queue of active knotes
    inForce,  \* history: the option of the call that made each knote
    got,      \* history: the events of each filter since the handle was
              \* (re)registered: 0, 1 or 2 for more; not counted while unsettled
    unsettled \* history: the handles for which a call failed, or register found
              \* knotes there, until reregister or deregister returns Ok

vars == <<sharedVars, knotes, active, inForce, got, unsettled>>

KqueueConditions == {"in", "out", "eof", "err"}

Filters == {"write", "read"}

Knotes == [id : Ids, flags : SUBSET {"clear", "oneshot"}]

ASSUME KqueueAssumption ==
    /\ Conditions \subseteq KqueueConditions
    /\ AddsMayFail \in BOOLEAN
    /\ None \notin Knotes

\* Fault: oneshot is left out.
FaultyOptToFlags(opt) == {f \in {"clear"} : IsEdge(opt)}

\* opt_to_flags; all changes have EV_RECEIPT.
OptToFlags(opt) == {f \in {"clear"} : IsEdge(opt)} \cup {f \in {"oneshot"} : IsOneshot(opt)}

NewKevent(id, opt) == [id |-> id, flags |-> OptToFlags(opt)]

\* The filters that register and reregister add.
FiltersOf(interests) ==
    {f \in {"write"} : "writable" \in interests} \cup {f \in {"read"} : "readable" \in interests}

\* kevent_to_event, for a filter and the conditions the kernel found: EV_EOF,
\* and the error of the socket in fflags.  EV_ERROR is only set in receipts.
KeventToEvent(id, filter, conditions) ==
    [id |-> id,
     ready |-> {IF filter = "read" THEN "readable" ELSE "writable"}
                 \cup {r \in {"hup"}   : "eof" \in conditions}
                 \cup {r \in {"error"} : {"eof", "err"} \subseteq conditions}]

\* The conditions that make the kernel report a filter.
Triggers(filter) == {"eof", "err", IF filter = "read" THEN "in" ELSE "out"}

Found(h, filter) == cond[h] \cap Triggers(filter)

Active(h, filter) == <<h, filter>> \in Range(active)

Enqueue(queue, k) == IF k \in Range(queue) THEN queue ELSE Append(queue, k)

\* The queue after the knotes of h for the filters in `gone` were deleted and
\* those in `ready` activated.
Requeue(h, ready, gone) ==
    LET keep(queue, f) == IF f \in gone THEN Without(queue, <<h, f>>) ELSE queue
        add(queue, f) == IF f \in ready THEN Enqueue(queue, <<h, f>>) ELSE queue
    IN  add(add(keep(keep(active, "write"), "read"), "write"), "read")

Init ==
    /\ SharedInit
    /\ knotes = [k \in Handles \X Filters |-> None]
    /\ active = <<>>
    /\ inForce = [k \in Handles \X Filters |-> {}]
    /\ got = [k \in Handles \X Filters |-> 0]
    /\ unsettled = {}

\* EV_ADD for a knote: it is made, or gets the id.
Add(k, args) ==
    IF knotes[k] = None THEN NewKevent(args.id, args.opt) ELSE [knotes[k] EXCEPT !.id = args.id]

\* kevent() applies the changes for handle h: the filters it adds and those it
\* deletes.
Change(h, adds, args, deletes) ==
    /\ knotes' = [k \in Handles \X Filters |->
                    IF k[1] # h THEN knotes[k]
                    ELSE IF k[2] \in adds THEN Add(k, args)
                    ELSE IF k[2] \in deletes THEN None
                    ELSE knotes[k]]
    /\ inForce' = [k \in Handles \X Filters |->
                     IF k[1] = h /\ k[2] \in adds /\ knotes[k] = None THEN args.opt
                     ELSE IF k[1] = h /\ k[2] \in deletes THEN {}
                     ELSE inForce[k]]
    /\ active' = Requeue(h, {f \in adds : Found(h, f) # {}}, deletes)

\* kevent_register: kevent() ran and check_errors found no error but ENOENT,
\* which the caller ignores, or kevent() was interrupted after all changes.
RegisterOk(h, adds, deletes, args, exact) ==
    /\ Change(h, adds, args, deletes)
    /\ Granted(h, args)
    /\ got' = [k \in Handles \X Filters |-> IF k[1] = h THEN 0 ELSE got[k]]
    /\ unsettled' = IF exact THEN unsettled \ {h} ELSE unsettled \cup {h}

\* kevent_register: some changes failed, and check_errors returns an error.
RegisterPartly(h, adds, deletes, args) ==
    /\ AddsMayFail
    /\ \E failed \in (SUBSET adds) \ {{}} :
          Change(h, adds \ failed, args, deletes)
    /\ Refused
    /\ got' = [k \in Handles \X Filters |-> IF k[1] = h THEN 0 ELSE got[k]]
    /\ unsettled' = unsettled \cup {h}

\* kevent_register: kevent() itself failed, no change was made.
RegisterFails == Refused /\ UNCHANGED <<knotes, active, inForce, got, unsettled>>

\* Selector::register.  It adds to what is there: the registration is just what
\* was asked for if nothing was.
Register(h, args) ==
    LET adds == FiltersOf(args.interests)
        exact == \A f \in Filters : knotes[<<h, f>>] = None
    IN  \/ RegisterOk(h, adds, {}, args, exact)
        \/ RegisterPartly(h, adds, {}, args)
        \/ RegisterFails

\* Fault: the filters there is no interest in any more are not deleted.
FaultyReregister(h, args) ==
    LET adds == FiltersOf(args.interests)
    IN  \/ RegisterOk(h, adds, {}, args, TRUE)
        \/ RegisterPartly(h, adds, {}, args)
        \/ RegisterFails

\* Fault: no ENOENT is expected, a filter that fired with oneshot is not added.
FaultyReregisterKnown(h, args) ==
    LET adds == {f \in FiltersOf(args.interests) : knotes[<<h, f>>] # None}
    IN  \/ RegisterOk(h, adds, Filters \ FiltersOf(args.interests), args, TRUE)
        \/ RegisterPartly(h, adds, Filters \ FiltersOf(args.interests), args)
        \/ RegisterFails

\* Selector::reregister: both filters are added or deleted.
Reregister(h, args) ==
    LET adds == FiltersOf(args.interests)
    IN  \/ RegisterOk(h, adds, Filters \ adds, args, TRUE)
        \/ RegisterPartly(h, adds, Filters \ adds, args)
        \/ RegisterFails

\* Selector::deregister: both filters are deleted, ENOENT is fine.
Deregister(h) ==
    \/ RegisterOk(h, {}, Filters, None, TRUE)
    \/ RegisterFails

\* A condition arises on a handle, or goes.
Arises(h, c) ==
    /\ Arose(h, c)
    /\ active' = Requeue(h, {f \in Filters : c \in Triggers(f) /\ knotes[<<h, f>>] # None}, {})
    /\ UNCHANGED <<knotes, inForce, got, unsettled>>

Goes(h, c) == Went(h, c) /\ UNCHANGED <<knotes, active, inForce, got, unsettled>>

\* The first knote of kevent()'s queue is that of handle h for filter f.
First(h, f) == active # <<>> /\ Head(active) = <<h, f>>

\* kevent() finds it not ready any more.
WaitDrops(h, f) ==
    /\ First(h, f) /\ Found(h, f) = {}
    /\ active' = Tail(active)
    /\ last' = None
    /\ UNCHANGED <<cond, fresh, wanted, knotes, inForce, got, unsettled>>

\* Selector::select with an event to return: that of the first knote.
Select(h, f) ==
    LET k == <<h, f>>
    IN  /\ First(h, f) /\ Found(h, f) # {}
        /\ Reported(h, Found(h, f), KeventToEvent(knotes[k].id, f, Found(h, f)))
        /\ got' = [got EXCEPT ![k] = IF h \notin unsettled /\ @ < 2 THEN @ + 1 ELSE @]
        /\ IF "oneshot" \in knotes[k].flags
           THEN knotes' = [knotes EXCEPT ![k] = None] /\ active' = Tail(active)
           ELSE /\ knotes' = knotes
                /\ active' = IF "clear" \in knotes[k].flags THEN Tail(active)
                             ELSE Append(Tail(active), k)
        /\ UNCHANGED <<inForce, unsettled>>

Calls ==
    \E h \in Handles :
        \/ \E args \in Arguments : Register(h, args) \/ Reregister(h, args)
        \/ Deregister(h)

Surroundings == \E h \in Handles, c \in Conditions : Arises(h, c) \/ Goes(h, c)

Wait == \E h \in Handles, f \in Filters : WaitDrops(h, f) \/ Select(h, f)

Next == Calls \/ Surroundings \/ Wait

Spec == Init /\ [][Next]_vars

\* The application goes on polling.
FairSpec == Spec /\ WF_vars(Wait)

-----------------------------------------------------------------------------
(* Properties.                                                             *)

\* The type invariant; an active knote is there, and active once.  A part of
\* NothingMissed.
TypeOK ==
    /\ SharedTypeOK
    /\ knotes \in [Handles \X Filters -> Knotes \cup {None}]
    /\ active \in Seq(Handles \X Filters) /\ IsInjective(active)
    /\ \A k \in Range(active) : knotes[k] # None
    /\ inForce \in [Handles \X Filters -> AllOptions]
    /\ got \in [Handles \X Filters -> 0..2]
    /\ unsettled \subseteq Handles

\* The option in force for a filter of a handle.
Opt(h, f) == inForce[<<h, f>>]

\* The conditions its next events are for.
DueFor(h, f) == (IF IsEdge(Opt(h, f)) THEN fresh[h] ELSE cond[h]) \cap Triggers(f)

\* A filter of a handle the next polls owe an event to.
Owed(h, f) ==
    /\ h \notin unsettled /\ wanted[h] # None
    /\ f \in FiltersOf(wanted[h].interests)
    /\ IsOneshot(Opt(h, f)) => got[<<h, f>>] = 0
    /\ DueFor(h, f) # {}

\* No readiness is missed: a filter that is owed an event is active, also after
\* calls that failed halfway and the reregister that put things right.
NothingMissed ==
    /\ TypeOK
    /\ \A h \in Handles, f \in Filters : Owed(h, f) => Active(h, f)

\* Of the id and the interests it is true that "the reregister arguments fully
\* override the previous values", and deregister leaves nothing, whatever earlier
\* calls did or failed to do: once one of them returned Ok, an event is for an
\* operation its handle is registered for, with the id of the last successful call.
EventsCurrent ==
    last # None /\ last.handle \notin unsettled =>
        /\ wanted[last.handle] # None
        /\ last.id = wanted[last.handle].id
        /\ last.ready \cap {"readable", "writable"} \subseteq wanted[last.handle].interests

\* A filter that was added as oneshot gets a single event until its handle is
\* reregistered.
OneshotOnce ==
    \A h \in Handles, f \in Filters :
        h \notin unsettled /\ wanted[h] # None /\ IsOneshot(Opt(h, f)) => got[<<h, f>>] <= 1

\* A registration whose filters were both added as oneshot gets a single event,
\* for all of its interests, until it is reregistered (src/os/option.rs).
OneshotSingle ==
    \A h \in Handles :
        h \notin unsettled /\ wanted[h] # None /\ (\A f \in Filters : IsOneshot(Opt(h, f))) =>
            got[<<h, "write">>] + got[<<h, "read">>] <= 1

\* A filter that is owed an event gets one, or stops being owed one: knotes that
\* are always ready do not keep it waiting.
EventsCome ==
    \A h \in Handles, f \in Filters :
        Owed(h, f) ~>
            \/ ~Owed(h, f)
            \/ last # None /\ last.handle = h
               /\ (IF f = "read" THEN "readable" ELSE "writable") \in last.ready
==============================================================================
