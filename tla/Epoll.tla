-------------------------------- MODULE Epoll --------------------------------
(***************************************************************************)
(* Registrations with the epoll selector (src/sys/unix/epoll.rs).  `table` *)
(* is the interest list of the epoll instance: for a handle the id and the *)
(* event flags the selector gave to epoll_ctl; `list` is its ready list.   *)
(*                                                                         *)
(* External, from how the code uses it: epoll_ctl refuses to add what is   *)
(* there and to modify or delete what is not, and lists a handle that is   *)
(* ready; epoll_wait takes a handle from the list, drops it if it is not   *)
(* ready any more, else reports it, and then lists it again (level) or     *)
(* disables it (oneshot).                                                  *)
(***************************************************************************)
EXTENDS Registrations

VARIABLES
    table,  \* the interest list of the epoll instance
    list,   \* its ready list
    got     \* history: has a handle had an event since it was (re)registered:
            \* 0, 1 or 2 for more

vars == <<sharedVars, table, list, got>>

EpollConditions == {"in", "pri", "out", "err", "rdhup", "hup"}

Private == {"et", "oneshot"}

\* What the interest list has for a handle.
Entries == [id : Ids, events : SUBSET (EpollConditions \cup Private)]

ASSUME EpollAssumption ==
    /\ Conditions \subseteq EpollConditions
    /\ None \notin Entries

\* Fault: oneshot is left out.
FaultyToEpollEventsOneshot(interests, opt) ==
    {"pri", "rdhup"}
        \cup {f \in {"in"}  : "readable" \in interests}
        \cup {f \in {"out"} : "writable" \in interests}
        \cup {f \in {"et"}  : IsEdge(opt)}

\* Fault: the interest in writing is left out.
FaultyToEpollEventsOut(interests, opt) ==
    {"pri", "rdhup"}
        \cup {f \in {"in"}      : "readable" \in interests}
        \cup {f \in {"et"}      : IsEdge(opt)}
        \cup {f \in {"oneshot"} : IsOneshot(opt)}

\* to_epoll_events
ToEpollEvents(interests, opt) ==
    {"pri", "rdhup"}
        \cup {f \in {"in"}      : "readable" \in interests}
        \cup {f \in {"out"}     : "writable" \in interests}
        \cup {f \in {"et"}      : IsEdge(opt)}
        \cup {f \in {"oneshot"} : IsOneshot(opt)}

NewEpollEvent(interests, opt, id) == [id |-> id, events |-> ToEpollEvents(interests, opt)]

\* ep_event_to_event, for the flags epoll_wait returned.
EpEventToEvent(id, flags) ==
    [id |-> id,
     ready |-> {r \in {"readable"} : flags \cap {"in", "pri"} # {}}
                 \cup {r \in {"writable"} : "out" \in flags}
                 \cup {r \in {"error"}    : "err" \in flags}
                 \cup {r \in {"hup"}      : flags \cap {"rdhup", "hup"} # {}}]

\* The conditions the kernel monitors for an entry: errors always, and nothing
\* once the entry is disabled.
Monitored(entry) ==
    IF entry.events \subseteq Private THEN {}
    ELSE (entry.events \ Private) \cup {"err", "hup"}

Revents(h, entry) == IF entry = None THEN {} ELSE cond[h] \cap Monitored(entry)

Listed(h) == h \in Range(list)

\* The ready list after handle h was found ready (or not).
Enlist(h, ready) == IF ready /\ ~Listed(h) THEN Append(list, h) ELSE list

Init ==
    /\ SharedInit
    /\ table = [h \in Handles |-> None]
    /\ list = <<>>
    /\ got = [h \in Handles |-> 0]

\* Fault: a modification keeps the id there was.
FaultyCtlOkKeepsId(h, args) ==
    LET id == IF table[h] = None THEN args.id ELSE table[h].id
        entry == NewEpollEvent(args.interests, args.opt, id)
    IN  /\ table' = [table EXCEPT ![h] = entry]
        /\ list' = Enlist(h, Revents(h, entry) # {})
        /\ got' = [got EXCEPT ![h] = 0]
        /\ Granted(h, args)

\* epoll_ctl with EPOLL_CTL_ADD or EPOLL_CTL_MOD succeeds.
CtlOk(h, args) ==
    LET entry == NewEpollEvent(args.interests, args.opt, args.id)
    IN  /\ table' = [table EXCEPT ![h] = entry]
        /\ list' = Enlist(h, Revents(h, entry) # {})
        /\ got' = [got EXCEPT ![h] = 0]
        /\ Granted(h, args)

CtlFails == Refused /\ UNCHANGED <<table, list, got>>

\* Selector::register.  The call may fail for lack of resources as well.
Register(h, args) ==
    \/ table[h] = None /\ CtlOk(h, args)
    \/ CtlFails

\* Selector::reregister
Reregister(h, args) ==
    \/ table[h] # None /\ CtlOk(h, args)
    \/ CtlFails

\* Selector::deregister
Deregister(h) ==
    \/ /\ table[h] # None
       /\ table' = [table EXCEPT ![h] = None]
       /\ list' = Without(list, h)
       /\ got' = [got EXCEPT ![h] = 0]
       /\ Granted(h, None)
    \/ table[h] = None /\ CtlFails

\* A condition arises on a handle, or goes.
Arises(h, c) ==
    /\ Arose(h, c)
    /\ list' = Enlist(h, table[h] # None /\ c \in Monitored(table[h]))
    /\ UNCHANGED <<table, got>>

Goes(h, c) == Went(h, c) /\ UNCHANGED <<table, list, got>>

\* epoll_wait finds the first handle of its list not ready any more.
WaitDrops ==
    /\ list # <<>> /\ Revents(Head(list), table[Head(list)]) = {}
    /\ list' = Tail(list)
    /\ last' = None
    /\ UNCHANGED <<cond, fresh, wanted, table, got>>

\* Selector::select with an event to return: that of the first handle.
Select ==
    /\ list # <<>>
    /\ LET h == Head(list)
           entry == table[h]
           flags == Revents(h, entry)
       IN  /\ flags # {}
           /\ Reported(h, flags, EpEventToEvent(entry.id, flags))
           /\ got' = [got EXCEPT ![h] = IF @ < 2 THEN @ + 1 ELSE 2]
           /\ IF "oneshot" \in entry.events
              THEN /\ table' = [table EXCEPT ![h].events = @ \cap Private]
                   /\ list' = Tail(list)
              ELSE /\ table' = table
                   /\ list' = IF "et" \in entry.events THEN Tail(list)
                              ELSE Append(Tail(list), h)

Calls ==
    \E h \in Handles :
        \/ \E args \in Arguments : Register(h, args) \/ Reregister(h, args)
        \/ Deregister(h)

Surroundings == \E h \in Handles, c \in Conditions : Arises(h, c) \/ Goes(h, c)

Next == Calls \/ Surroundings \/ WaitDrops \/ Select

Spec == Init /\ [][Next]_vars

-----------------------------------------------------------------------------
(* Properties.                                                             *)

\* The type invariant; what is listed is registered, once.  A part of NothingMissed.
TypeOK ==
    /\ SharedTypeOK
    /\ table \in [Handles -> Entries \cup {None}]
    /\ list \in Seq(Handles) /\ IsInjective(list)
    /\ \A h \in Handles : Listed(h) => table[h] # None
    /\ got \in [Handles -> 0..2]

\* The conditions a caller means by its interests; errors and hang ups are
\* reported in any case.
Meant(interests) ==
    {"err", "hup", "rdhup"} \cup {c \in {"in"}  : "readable" \in interests}
                            \cup {c \in {"out"} : "writable" \in interests}

\* A handle the next polls owe an event to.
Owed(h) ==
    /\ wanted[h] # None
    /\ IsOneshot(wanted[h].opt) => got[h] = 0
    /\ Due(h) \cap Meant(wanted[h].interests) # {}

\* No readiness is missed, however register, reregister and deregister calls,
\* conditions that come and go, and polls follow each other: a handle that is
\* owed an event is on the ready list, a oneshot one that became ready while it
\* was disabled included once it is reregistered.
NothingMissed == TypeOK /\ \A h \in Handles : Owed(h) => Listed(h)

\* An event carries the id of the last successful register or reregister of its
\* handle, is for a handle that is registered, is not empty, and is for an
\* operation the handle is registered for.  One case is none of the caller's
\* asking: urgent data makes a handle readable whatever its interests are.
EventsCurrent ==
    last # None =>
        /\ wanted[last.handle] # None
        /\ last.id = wanted[last.handle].id
        /\ last.ready # {}
        /\ \/ last.ready \cap {"readable", "writable"} \subseteq wanted[last.handle].interests
           \/ "pri" \in cond[last.handle] /\ last.ready \cap {"writable"} \subseteq wanted[last.handle].interests

\* A oneshot registration gets a single event until it is reregistered.
OneshotOnce ==
    \A h \in Handles :
        wanted[h] # None /\ IsOneshot(wanted[h].opt) => got[h] <= 1

==============================================================================
