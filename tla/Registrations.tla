---------------------------- MODULE Registrations ----------------------------
(***************************************************************************)
(* What the two selectors share: the arguments of OsQueue::register and    *)
(* reregister (src/os/mod.rs, interests.rs, option.rs), what the caller    *)
(* may rely on after those calls, and the events it gets.                  *)
(*                                                                         *)
(* A handle is an open file.  The conditions that hold on it come and go   *)
(* as its peer, the kernel and the application act on it.  A poll is       *)
(* modelled one event at a time: a call that returns several is the same   *)
(* as several calls with a sink that has room for one.                     *)
(***************************************************************************)
EXTENDS Integers, Sequences, FiniteSets, Functions

CONSTANTS
    None,        \* no registration, no event
    Handles,     \* the Evented handles of the application
    Ids,         \* the event::Ids it uses
    Interests,   \* the Interests it uses
    Options,     \* the RegisterOptions it uses
    Conditions   \* the conditions that come up

\* Interests is a set of bits that is not empty (NonZeroU8).
AllInterests == (SUBSET {"readable", "writable"}) \ {{}}

\* RegisterOption is a set of bits; RegisterOption::LEVEL is the empty one.
AllOptions == SUBSET {"edge", "oneshot"}

\* Ready is a set of bits too.
Ready == SUBSET {"readable", "writable", "error", "hup"}

Arguments == [id : Ids, interests : Interests, opt : Options]

ASSUME RegistrationsAssumption ==
    /\ Interests \subseteq AllInterests
    /\ Options \subseteq AllOptions
    /\ None \notin Handles \cup Arguments

VARIABLES
    cond,    \* the conditions that hold on each handle
    fresh,   \* history: those the application has not been told of since they
             \* arose or since it (re)registered the handle
    wanted,  \* history: the arguments of the last call of register or
             \* reregister that returned Ok, None before it or if deregister did
    last     \* the event this step's poll returned, None if it returned none

sharedVars == <<cond, fresh, wanted, last>>

IsEdge(opt)    == "edge" \in opt
IsOneshot(opt) == "oneshot" \in opt

\* A list without element e, which it has once at most.
Without(s, e) ==
    LET k == CHOOSE k \in DOMAIN s : s[k] = e
    IN  IF e \notin Range(s) THEN s
        ELSE [i \in 1..(Len(s) - 1) |-> IF i < k THEN s[i] ELSE s[i + 1]]

SharedInit ==
    /\ cond = [h \in Handles |-> {}] /\ fresh = [h \in Handles |-> {}]
    /\ wanted = [h \in Handles |-> None]
    /\ last = None

SharedTypeOK ==
    /\ cond \in [Handles -> SUBSET Conditions]
    /\ fresh \in [Handles -> SUBSET Conditions]
    /\ \A h \in Handles : fresh[h] \subseteq cond[h]
    /\ wanted \in [Handles -> Arguments \cup {None}]
    /\ last \in [handle : Handles, id : Ids, ready : Ready] \cup {None}

\* A call on handle h returns Ok: from here on the caller relies on args.
Granted(h, args) ==
    /\ wanted' = [wanted EXCEPT ![h] = args]
    /\ fresh' = [fresh EXCEPT ![h] = cond[h]]
    /\ last' = None
    /\ UNCHANGED cond

\* It returns an error: the caller relies on what it relied on before.
Refused ==
    /\ last' = None
    /\ UNCHANGED <<cond, fresh, wanted>>

\* The kernel reports conditions c of handle h, as event e.
Reported(h, c, e) ==
    /\ last' = [handle |-> h, id |-> e.id, ready |-> e.ready]
    /\ fresh' = [fresh EXCEPT ![h] = @ \ c]
    /\ UNCHANGED <<cond, wanted>>

\* A condition arises, or arises again: more data for a handle that is
\* readable already.
Arose(h, c) ==
    /\ cond' = [cond EXCEPT ![h] = @ \cup {c}]
    /\ fresh' = [fresh EXCEPT ![h] = @ \cup {c}]
    /\ last' = None
    /\ UNCHANGED wanted

\* A condition goes: the handle was read or written until WouldBlock, say.
Went(h, c) ==
    /\ c \in cond[h]
    /\ cond' = [cond EXCEPT ![h] = @ \ {c}]
    /\ fresh' = [fresh EXCEPT ![h] = @ \ {c}]
    /\ last' = None
    /\ UNCHANGED wanted

\* What a registration is about, of the conditions that hold: all of them when
\* it is level triggered, those that are new when it is edge triggered.
Due(h) == IF IsEdge(wanted[h].opt) THEN fresh[h] ELSE cond[h]
==============================================================================
