----------------------------- MODULE EpollProofs -----------------------------
(***************************************************************************)
(* Registrations with the epoll selector, for any handles, ids, interests, *)
(* options and conditions: no readiness is missed, an event is what the    *)
(* caller asked for, and a oneshot registration fires once.                *)
(***************************************************************************)
EXTENDS Epoll, SequenceTheorems, TLAPS

-----------------------------------------------------------------------------
(* Lists without repetitions.                                              *)

\* w is s without its element at position k.
IsCut(w, s, k) ==
    /\ Len(w) = Len(s) - 1
    /\ \A i \in 1..(Len(s) - 1) : w[i] = IF i < k THEN s[i] ELSE s[i + 1]

\* Taking out one element of a list.
LEMMA CutOut ==
    ASSUME NEW S, NEW s \in Seq(S), NEW w \in Seq(S), IsInjective(s),
           NEW k \in 1..Len(s), IsCut(w, s, k)
    PROVE  IsInjective(w) /\ Range(w) = Range(s) \ {s[k]}
<1>1. Len(s) \in Nat /\ DOMAIN s = 1..Len(s) /\ DOMAIN w = 1..(Len(s) - 1)
    BY LenProperties DEF IsCut
<1>2. \A i, j \in 1..Len(s) : s[i] = s[j] => i = j
    BY <1>1 DEF IsInjective
<1>3. IsInjective(w)
    BY <1>1, <1>2 DEF IsInjective, IsCut
<1>4. ASSUME NEW i \in 1..(Len(s) - 1) PROVE w[i] \in Range(s) /\ w[i] # s[k]
    BY <1>1, <1>2 DEF Range, IsCut
<1>5. ASSUME NEW i \in 1..Len(s), i # k PROVE s[i] \in Range(w)
  <2>1. CASE i < k
      BY <1>1, <2>1 DEF Range, IsCut
  <2>2. CASE i > k
    <3>1. i - 1 \in 1..(Len(s) - 1) /\ w[i - 1] = s[i]
        BY <1>1, <2>2 DEF IsCut
    <3> QED
        BY <1>1, <3>1 DEF Range
  <2> QED
      BY <1>1, <1>5, <2>1, <2>2
<1>6. \A x : x \in Range(w) => x \in Range(s) /\ x # s[k]
    BY <1>1, <1>4 DEF Range
<1>7. \A x : x \in Range(s) /\ x # s[k] => x \in Range(w)
    BY <1>1, <1>5 DEF Range
<1> QED
    BY <1>3, <1>6, <1>7

\* Taking the first entry off a list without repetitions leaves one without
\* repetitions, and without that entry.
LEMMA TailOnce ==
    ASSUME NEW S, NEW s \in Seq(S), IsInjective(s), s # <<>>
    PROVE  /\ Head(s) \in S /\ Head(s) \in Range(s) /\ Tail(s) \in Seq(S)
           /\ IsInjective(Tail(s)) /\ Range(Tail(s)) = Range(s) \ {Head(s)}
<1>1. /\ Len(s) \in Nat /\ 1 \in 1..Len(s) /\ DOMAIN s = 1..Len(s)
      /\ Head(s) = s[1] /\ Head(s) \in S
    BY LenProperties, EmptySeq, HeadTailProperties
<1>2. /\ Tail(s) \in Seq(S) /\ Len(Tail(s)) = Len(s) - 1
      /\ \A i \in 1..(Len(s) - 1) : Tail(s)[i] = s[i + 1]
    BY <1>1, HeadTailProperties
<1>3. IsCut(Tail(s), s, 1)
    BY <1>2 DEF IsCut
<1>4. IsInjective(Tail(s)) /\ Range(Tail(s)) = Range(s) \ {s[1]}
  <2> DEFINE r == Tail(s)
  <2> HIDE DEF r
  <2>1. r \in Seq(S) /\ IsCut(r, s, 1)
      BY <1>2, <1>3 DEF r
  <2>2. IsInjective(r) /\ Range(r) = Range(s) \ {s[1]}
      BY <1>1, <2>1, CutOut
  <2> QED
      BY <2>2 DEF r
<1> QED
    BY <1>1, <1>2, <1>4 DEF Range

\* Taking a handle out of a list without repetitions leaves the other handles.
LEMMA WithoutOnce ==
    ASSUME NEW S, NEW s \in Seq(S), IsInjective(s), NEW e
    PROVE  /\ Without(s, e) \in Seq(S) /\ IsInjective(Without(s, e))
           /\ Range(Without(s, e)) = Range(s) \ {e}
<1>1. CASE e \in Range(s)
  <2>1. Len(s) \in Nat /\ DOMAIN s = 1..Len(s) /\ \A i \in 1..Len(s) : s[i] \in S
      BY LenProperties, ElementOfSeq
  <2>2. PICK k \in 1..Len(s) :
           /\ s[k] = e
           /\ Without(s, e) = [i \in 1..(Len(s) - 1) |-> IF i < k THEN s[i] ELSE s[i + 1]]
      BY <1>1, <2>1 DEF Range, Without
  <2>3. k \in 1..Len(s) /\ s[k] = e
      BY <2>2
  <2> DEFINE w == [i \in 1..(Len(s) - 1) |-> IF i < k THEN s[i] ELSE s[i + 1]]
  <2>4. Len(s) - 1 \in Nat /\ w \in [1..(Len(s) - 1) -> S]
      BY <2>1, <2>2
  <2>5. \A i \in 1..(Len(s) - 1) : w[i] = IF i < k THEN s[i] ELSE s[i + 1]
      OBVIOUS
  <2> HIDE DEF w
  <2>6. w \in Seq(S)
      BY <2>4, SeqDef
  <2>7. DOMAIN w = 1..(Len(s) - 1) /\ DOMAIN w = 1..Len(w) /\ Len(w) \in Nat
      BY <2>4, <2>6, LenProperties
  <2>8. Len(w) = Len(s) - 1
      BY <2>4, <2>7
  <2>9. IsInjective(w) /\ Range(w) = Range(s) \ {s[k]}
    <3>1. IsCut(w, s, k)
        BY <2>5, <2>8 DEF IsCut
    <3> QED
        BY <2>3, <2>6, <3>1, CutOut
  <2> QED
      BY <2>2, <2>6, <2>9 DEF w
<1>2. CASE e \notin Range(s)
    BY <1>2 DEF Without
<1> QED
    BY <1>1, <1>2

\* Appending an entry that a list does not hold adds it once.
LEMMA AppendOnce ==
    ASSUME NEW S, NEW s \in Seq(S), IsInjective(s), NEW e \in S, e \notin Range(s)
    PROVE  /\ Append(s, e) \in Seq(S) /\ IsInjective(Append(s, e))
           /\ Range(Append(s, e)) = Range(s) \cup {e}
<1>1. /\ Append(s, e) \in Seq(S) /\ Len(Append(s, e)) = Len(s) + 1 /\ Len(s) \in Nat
      /\ \A i \in 1..Len(s) : Append(s, e)[i] = s[i]
      /\ Append(s, e)[Len(s) + 1] = e
    BY AppendProperties, LenProperties
<1>2. DOMAIN s = 1..Len(s) /\ DOMAIN Append(s, e) = 1..(Len(s) + 1)
    BY <1>1, LenProperties
<1>3. Range(Append(s, e)) = Range(s) \cup {e}
    BY <1>1, <1>2 DEF Range
<1>4. IsInjective(Append(s, e))
    BY <1>1, <1>2 DEF IsInjective, Range
<1> QED
    BY <1>1, <1>3, <1>4

\* Putting the first element back at the end.
LEMMA RotateOnce ==
    ASSUME NEW S, NEW s \in Seq(S), IsInjective(s), s # <<>>
    PROVE  /\ Append(Tail(s), Head(s)) \in Seq(S) /\ IsInjective(Append(Tail(s), Head(s)))
           /\ Range(Append(Tail(s), Head(s))) = Range(s)
<1> DEFINE h == Head(s)
           r == Tail(s)
<1>1. h \in S /\ h \in Range(s) /\ r \in Seq(S) /\ IsInjective(r) /\ Range(r) = Range(s) \ {h}
    BY TailOnce, Zenon
<1> HIDE DEF h, r
<1>2. h \in S /\ r \in Seq(S) /\ IsInjective(r) /\ h \notin Range(r)
    BY <1>1
<1>3. /\ Append(r, h) \in Seq(S) /\ IsInjective(Append(r, h))
      /\ Range(Append(r, h)) = Range(r) \cup {h}
    BY <1>2, AppendOnce, Zenon
<1>4. Range(Append(r, h)) = Range(s)
    BY <1>1, <1>3
<1> QED
    BY <1>3, <1>4, Zenon DEF h, r

-----------------------------------------------------------------------------
\* The interest list has what the last successful call asked for, or, after the
\* event of a oneshot registration, an entry that is disabled.
Current(h) ==
    \/ /\ table[h].events = ToEpollEvents(wanted[h].interests, wanted[h].opt)
       /\ IsOneshot(wanted[h].opt) => got[h] = 0
    \/ IsOneshot(wanted[h].opt) /\ got[h] = 1 /\ table[h].events \subseteq Private

\* The kernel's interest list and the caller agree.
Agree ==
    \A h \in Handles :
        /\ table[h] = None <=> wanted[h] = None
        /\ wanted[h] # None => table[h].id = wanted[h].id /\ Current(h)

\* What the kernel monitors and is due is listed.
DueListed ==
    \A h \in Handles :
        wanted[h] # None /\ Due(h) \cap Monitored(table[h]) # {} => Listed(h)

\* A registration that is enabled is monitored for what its interests mean, and
\* one that is disabled for nothing.
LEMMA MonitoredWhenEnabled ==
    ASSUME NEW entry \in Entries, NEW args \in Arguments,
           entry.events = ToEpollEvents(args.interests, args.opt)
    PROVE  /\ Meant(args.interests) \subseteq Monitored(entry)
           /\ Monitored(entry) \subseteq Meant(args.interests) \cup {"pri"}
           /\ "oneshot" \in entry.events <=> IsOneshot(args.opt)
           /\ "et" \in entry.events <=> IsEdge(args.opt)
    BY DEF Meant, Monitored, ToEpollEvents, Private, Entries

\* What is on the ready list after Enlist.
LEMMA EnlistOnce ==
    ASSUME TypeOK, NEW h \in Handles, NEW ready \in BOOLEAN
    PROVE  /\ Enlist(h, ready) \in Seq(Handles) /\ IsInjective(Enlist(h, ready))
           /\ Range(list) \subseteq Range(Enlist(h, ready))
           /\ Range(Enlist(h, ready)) \subseteq Range(list) \cup {h}
           /\ ready => h \in Range(Enlist(h, ready))
           /\ ~ready => Enlist(h, ready) = list
<1>1. list \in Seq(Handles) /\ IsInjective(list)
    BY DEF TypeOK
<1>2. CASE ready /\ ~Listed(h)
  <2>1. Enlist(h, ready) = Append(list, h)
      BY <1>2 DEF Enlist
  <2>2. /\ Append(list, h) \in Seq(Handles) /\ IsInjective(Append(list, h))
        /\ Range(Append(list, h)) = Range(list) \cup {h}
      BY <1>1, <1>2, AppendOnce, Zenon DEF Listed
  <2> QED
      BY <1>2, <2>1, <2>2, Zenon
<1>3. CASE ~(ready /\ ~Listed(h))
    BY <1>1, <1>3 DEF Enlist, Listed
<1> QED
    BY <1>2, <1>3

\* The entry that a call gives to epoll_ctl.
LEMMA NewEntry ==
    ASSUME NEW args \in Arguments
    PROVE  /\ NewEpollEvent(args.interests, args.opt, args.id) \in Entries
           /\ NewEpollEvent(args.interests, args.opt, args.id) # None
           /\ args # None
<1>1. NewEpollEvent(args.interests, args.opt, args.id) \in Entries
    BY DEF NewEpollEvent, Entries, ToEpollEvents, EpollConditions, Private, Arguments
<1> QED
    BY <1>1, EpollAssumption, RegistrationsAssumption

-----------------------------------------------------------------------------
(* The type invariant.                                                     *)

\* What a call or a poll leaves on the ready list is registered: CtlOk has an
\* entry for the handle it lists, and Deregister takes its handle off.
LEMMA TypeStep == TypeOK /\ [Next]_vars => TypeOK'
<1> SUFFICES ASSUME TypeOK, [Next]_vars PROVE TypeOK'
    OBVIOUS
<1> USE RegistrationsAssumption, EpollAssumption
<1>1. ASSUME NEW h \in Handles, NEW args \in Arguments, CtlOk(h, args) PROVE TypeOK'
  <2> DEFINE entry == NewEpollEvent(args.interests, args.opt, args.id)
  <2>1. entry \in Entries /\ entry # None /\ args # None
      BY NewEntry
  <2>2. /\ list' \in Seq(Handles) /\ IsInjective(list')
        /\ Range(list') \subseteq Range(list) \cup {h}
      BY <1>1, EnlistOnce, Zenon DEF CtlOk
  <2>3. /\ SharedTypeOK'
      BY <1>1 DEF CtlOk, Granted, SharedTypeOK, TypeOK
  <2> HIDE DEF entry
  <2>4. table' = [table EXCEPT ![h] = entry] /\ got' = [got EXCEPT ![h] = 0]
      BY <1>1 DEF CtlOk, entry
  <2> QED
      BY <2>1, <2>2, <2>3, <2>4 DEF TypeOK, Listed
<1>2. ASSUME CtlFails PROVE TypeOK'
    BY <1>2 DEF CtlFails, Refused, TypeOK, SharedTypeOK, Listed
<1>3. ASSUME NEW h \in Handles, Deregister(h) PROVE TypeOK'
  <2>1. CASE CtlFails
      BY <1>2, <2>1
  <2>2. CASE table[h] # None /\ ~CtlFails
    <3>1. /\ list' \in Seq(Handles) /\ IsInjective(list')
          /\ Range(list') = Range(list) \ {h}
      <4>1. list' = Without(list, h)
          BY <1>3, <2>2 DEF Deregister
      <4>2. list \in Seq(Handles) /\ IsInjective(list)
          BY DEF TypeOK
      <4> QED
          BY <4>1, <4>2, WithoutOnce, Zenon
    <3>2. SharedTypeOK'
        BY <1>3, <2>2 DEF Deregister, Granted, SharedTypeOK, TypeOK
    <3>3. table' = [table EXCEPT ![h] = None] /\ got' = [got EXCEPT ![h] = 0]
        BY <1>3, <2>2 DEF Deregister
    <3> QED
        BY <3>1, <3>2, <3>3 DEF TypeOK, Listed
  <2> QED
      BY <1>3, <2>1, <2>2 DEF Deregister
<1>4. ASSUME NEW h \in Handles, NEW c \in Conditions, Arises(h, c) PROVE TypeOK'
  <2>1. /\ list' \in Seq(Handles) /\ IsInjective(list')
        /\ Range(list') \subseteq Range(list) \cup {h}
        /\ table[h] = None => list' = list
      BY <1>4, EnlistOnce, Zenon DEF Arises
  <2>2. SharedTypeOK'
      BY <1>4 DEF Arises, Arose, SharedTypeOK, TypeOK
  <2> QED
      BY <1>4, <2>1, <2>2 DEF Arises, TypeOK, Listed
<1>5. ASSUME NEW h \in Handles, NEW c \in Conditions, Goes(h, c) PROVE TypeOK'
    BY <1>5 DEF Goes, Went, TypeOK, SharedTypeOK, Listed
<1>6. ASSUME list # <<>>
      PROVE  /\ Head(list) \in Handles /\ Head(list) \in Range(list)
             /\ Tail(list) \in Seq(Handles) /\ IsInjective(Tail(list))
             /\ Range(Tail(list)) = Range(list) \ {Head(list)}
    BY <1>6, TailOnce, Zenon DEF TypeOK
<1>7. ASSUME WaitDrops PROVE TypeOK'
  <2>1. /\ list' \in Seq(Handles) /\ IsInjective(list') /\ Range(list') \subseteq Range(list)
      BY <1>6, <1>7, Zenon DEF WaitDrops
  <2>2. SharedTypeOK' /\ UNCHANGED <<table, got>>
      BY <1>7 DEF WaitDrops, TypeOK, SharedTypeOK
  <2> QED
      BY <2>1, <2>2 DEF TypeOK, Listed
<1>8. ASSUME Select PROVE TypeOK'
  <2> DEFINE h == Head(list)
             flags == Revents(h, table[h])
             ev == EpEventToEvent(table[h].id, flags)
  <2>1. list # <<>> /\ h \in Handles /\ h \in Range(list)
      BY <1>6, <1>8, Zenon DEF Select
  <2>2. table[h] # None /\ table[h] \in Entries
      BY <2>1 DEF TypeOK, Listed
  <2>3. /\ list' \in Seq(Handles) /\ IsInjective(list') /\ Range(list') \subseteq Range(list)
    <3>1. CASE list' = Tail(list)
        BY <1>6, <2>1, <3>1, Zenon
    <3>2. CASE list' = Append(Tail(list), h)
        BY <2>1, <3>2, RotateOnce, Zenon DEF TypeOK
    <3>3. list' = Tail(list) \/ list' = Append(Tail(list), h)
        BY <1>8, Zenon DEF Select
    <3> QED
        BY <3>1, <3>2, <3>3
  <2>4. ev.id \in Ids /\ ev.ready \in Ready
      BY <2>2 DEF EpEventToEvent, Ready, Entries
  <2>5. Reported(h, flags, ev)
      BY <1>8 DEF Select
  <2>6. /\ got' = [got EXCEPT ![h] = IF @ < 2 THEN @ + 1 ELSE 2]
        /\ \/ table' = table
           \/ table' = [table EXCEPT ![h].events = @ \cap Private]
      BY <1>8 DEF Select
  <2> HIDE DEF h, flags, ev
  <2>7. SharedTypeOK'
      BY <2>1, <2>4, <2>5 DEF Reported, TypeOK, SharedTypeOK
  <2>8. table' \in [Handles -> Entries \cup {None}] /\ \A g \in Handles : table[g] # None => table'[g] # None
      BY <2>1, <2>2, <2>6 DEF TypeOK, Entries
  <2>9. got' \in [Handles -> 0..2]
      BY <2>1, <2>6 DEF TypeOK
  <2> QED
      BY <2>3, <2>7, <2>8, <2>9 DEF TypeOK, Listed
<1>9. CASE UNCHANGED vars
    BY <1>9 DEF vars, sharedVars, TypeOK, SharedTypeOK, Listed
<1> QED
    BY <1>1, <1>2, <1>3, <1>4, <1>5, <1>7, <1>8, <1>9
       DEF Next, Calls, Surroundings, Register, Reregister

\* The ready list, the interest list and the events have their types.
THEOREM TypeInvariant == Spec => []TypeOK
<1>1. <<>> \in Seq(Handles) /\ IsInjective(<<>>) /\ Range(<<>>) = {}
    BY EmptySeq DEF IsInjective, Range
<1>2. Init => TypeOK
    BY <1>1 DEF Init, SharedInit, TypeOK, SharedTypeOK, Listed
<1> QED
    BY <1>2, TypeStep, PTL DEF Spec

-----------------------------------------------------------------------------
(* What the caller asked for and what the kernel has.                      *)

\* A report to a handle finds its entry enabled.
LEMMA ReportEnabled ==
    ASSUME TypeOK, Agree, NEW h \in Handles, table[h] # None, Revents(h, table[h]) # {}
    PROVE  /\ wanted[h] # None /\ wanted[h] \in Arguments /\ table[h] \in Entries
           /\ table[h].id = wanted[h].id
           /\ table[h].events = ToEpollEvents(wanted[h].interests, wanted[h].opt)
           /\ IsOneshot(wanted[h].opt) => got[h] = 0
<1>1. wanted[h] # None /\ wanted[h] \in Arguments /\ table[h] \in Entries
    BY DEF Agree, TypeOK, SharedTypeOK
<1>2. ~(table[h].events \subseteq Private)
    BY DEF Revents, Monitored
<1> QED
    BY <1>1, <1>2 DEF Agree, Current

\* The calls change the interest list and what the caller relies on together, or
\* neither; an event of a oneshot registration disables it.
LEMMA AgreeStep == TypeOK /\ Agree /\ [Next]_vars => Agree'
<1> SUFFICES ASSUME TypeOK, Agree, [Next]_vars PROVE Agree'
    OBVIOUS
<1>1. ASSUME NEW h \in Handles, NEW args \in Arguments, CtlOk(h, args) PROVE Agree'
  <2> DEFINE entry == NewEpollEvent(args.interests, args.opt, args.id)
  <2>1. /\ entry # None /\ args # None /\ entry.id = args.id
        /\ entry.events = ToEpollEvents(args.interests, args.opt)
      BY NewEntry DEF NewEpollEvent
  <2>2. /\ table' = [table EXCEPT ![h] = entry] /\ got' = [got EXCEPT ![h] = 0]
        /\ wanted' = [wanted EXCEPT ![h] = args]
      BY <1>1 DEF CtlOk, Granted
  <2> HIDE DEF entry
  <2> QED
      BY <2>1, <2>2 DEF Agree, Current, TypeOK, SharedTypeOK
<1>2. ASSUME UNCHANGED <<table, wanted, got>> PROVE Agree'
    BY <1>2 DEF Agree, Current
<1>3. ASSUME NEW h \in Handles, Deregister(h), ~CtlFails PROVE Agree'
    BY <1>3 DEF Deregister, Granted, Agree, Current, TypeOK, SharedTypeOK
<1>4. ASSUME Select PROVE Agree'
  <2> DEFINE h == Head(list)
  <2>1. list # <<>> /\ Revents(h, table[h]) # {}
      BY <1>4 DEF Select
  <2>2. h \in Handles /\ table[h] # None
    <3>1. h \in Handles /\ h \in Range(list)
        BY <2>1, TailOnce, Zenon DEF TypeOK
    <3> QED
        BY <3>1 DEF TypeOK, Listed
  <2>3. /\ wanted[h] # None /\ wanted[h] \in Arguments /\ table[h] \in Entries
        /\ table[h].id = wanted[h].id
        /\ table[h].events = ToEpollEvents(wanted[h].interests, wanted[h].opt)
        /\ IsOneshot(wanted[h].opt) => got[h] = 0
      BY <2>1, <2>2, ReportEnabled
  <2>4. "oneshot" \in table[h].events <=> IsOneshot(wanted[h].opt)
      BY <2>3, MonitoredWhenEnabled
  <2>5. /\ wanted' = wanted
        /\ got' = [got EXCEPT ![h] = IF @ < 2 THEN @ + 1 ELSE 2]
        /\ table' = IF "oneshot" \in table[h].events
                    THEN [table EXCEPT ![h].events = @ \cap Private] ELSE table
      BY <1>4 DEF Select, Reported
  <2> HIDE DEF h
  <2>6. ASSUME NEW g \in Handles, g # h
        PROVE  table'[g] = table[g] /\ wanted'[g] = wanted[g] /\ got'[g] = got[g]
      BY <2>5, <2>6 DEF TypeOK
  <2>7. CASE IsOneshot(wanted[h].opt)
    <3>1. got'[h] = 1
        BY <2>2, <2>3, <2>5, <2>7 DEF TypeOK
    <3>2. /\ table'[h] = [table[h] EXCEPT !.events = @ \cap Private]
        BY <2>2, <2>4, <2>5, <2>7 DEF TypeOK
    <3>3. table'[h] \in Entries /\ table'[h].id = table[h].id /\ table'[h].events \subseteq Private
        BY <2>3, <3>2 DEF Entries
    <3>4. table'[h] # None
        BY <3>3, EpollAssumption
    <3> QED
        BY <2>3, <2>5, <2>6, <2>7, <3>1, <3>3, <3>4 DEF Agree, Current
  <2>8. CASE ~IsOneshot(wanted[h].opt)
      BY <2>3, <2>4, <2>5, <2>6, <2>8 DEF Agree, Current
  <2> QED
      BY <2>7, <2>8
<1>5. ASSUME NEW h \in Handles, NEW c \in Conditions, Arises(h, c) \/ Goes(h, c)
      PROVE  UNCHANGED <<table, wanted, got>>
    BY <1>5 DEF Arises, Arose, Goes, Went
<1>6. CtlFails \/ WaitDrops \/ UNCHANGED vars => UNCHANGED <<table, wanted, got>>
    BY DEF CtlFails, Refused, WaitDrops, vars, sharedVars
<1> QED
    BY <1>1, <1>2, <1>3, <1>4, <1>5, <1>6 DEF Next, Calls, Surroundings, Register, Reregister

-----------------------------------------------------------------------------
(* NothingMissed.                                                          *)

\* A handle is listed when epoll_ctl finds it ready and when a condition arises
\* that its entry is monitored for.  It leaves the list when nothing it is
\* monitored for holds, when it is deregistered, and with its event: then it is
\* disabled, or listed again, or what was due has been reported.
LEMMA DueStep == TypeOK /\ Agree /\ DueListed /\ [Next]_vars => DueListed'
<1> SUFFICES ASSUME TypeOK, Agree, DueListed, [Next]_vars PROVE DueListed'
    OBVIOUS
<1> USE RegistrationsAssumption, EpollAssumption
<1>1. ASSUME NEW h \in Handles, NEW args \in Arguments, CtlOk(h, args) PROVE DueListed'
  <2> DEFINE entry == NewEpollEvent(args.interests, args.opt, args.id)
  <2>1. entry # None
      BY NewEntry
  <2>2. /\ Range(list) \subseteq Range(list')
        /\ Revents(h, entry) # {} => h \in Range(list')
      BY <1>1, EnlistOnce, Zenon DEF CtlOk
  <2>3. /\ table' = [table EXCEPT ![h] = entry] /\ cond' = cond
        /\ wanted' = [wanted EXCEPT ![h] = args] /\ fresh' = [fresh EXCEPT ![h] = cond[h]]
      BY <1>1 DEF CtlOk, Granted
  <2> HIDE DEF entry
  <2>4. Due(h)' \cap Monitored(table'[h]) # {} => h \in Range(list')
      BY <2>1, <2>2, <2>3 DEF Due, Revents, TypeOK, SharedTypeOK
  <2>5. ASSUME NEW g \in Handles, g # h
        PROVE  /\ table'[g] = table[g] /\ wanted'[g] = wanted[g]
               /\ cond'[g] = cond[g] /\ fresh'[g] = fresh[g]
      BY <2>3, <2>5 DEF TypeOK, SharedTypeOK
  <2> QED
      BY <2>2, <2>4, <2>5 DEF DueListed, Due, Listed
<1>2. ASSUME NEW h \in Handles, Deregister(h), ~CtlFails PROVE DueListed'
  <2>1. list' = Without(list, h) /\ wanted'[h] = None
      BY <1>2 DEF Deregister, Granted, TypeOK, SharedTypeOK
  <2>2. list \in Seq(Handles) /\ IsInjective(list)
      BY DEF TypeOK
  <2>3. Range(list') = Range(list) \ {h}
      BY <2>1, <2>2, WithoutOnce, Zenon
  <2>4. ASSUME NEW g \in Handles, g # h
        PROVE  /\ table'[g] = table[g] /\ wanted'[g] = wanted[g]
               /\ cond'[g] = cond[g] /\ fresh'[g] = fresh[g]
      BY <1>2, <2>4 DEF Deregister, Granted, TypeOK, SharedTypeOK
  <2> QED
      BY <2>1, <2>3, <2>4 DEF DueListed, Due, Listed
<1>3. ASSUME NEW h \in Handles, NEW c \in Conditions, Arises(h, c) PROVE DueListed'
  <2>1. /\ Range(list) \subseteq Range(list')
        /\ table[h] # None /\ c \in Monitored(table[h]) => h \in Range(list')
      BY <1>3, EnlistOnce, Zenon DEF Arises
  <2>2. /\ table' = table /\ wanted' = wanted
        /\ cond' = [cond EXCEPT ![h] = @ \cup {c}] /\ fresh' = [fresh EXCEPT ![h] = @ \cup {c}]
      BY <1>3 DEF Arises, Arose
  <2>3. Due(h)' = Due(h) \cup {c}
      BY <2>2 DEF Due, TypeOK, SharedTypeOK
  <2>4. ASSUME NEW g \in Handles, g # h PROVE Due(g)' = Due(g)
      BY <2>2, <2>4 DEF Due, TypeOK, SharedTypeOK
  <2>5. ASSUME NEW g \in Handles, wanted[g] # None, Due(g) \cap Monitored(table[g]) # {}
        PROVE  g \in Range(list')
      BY <2>1, <2>5 DEF DueListed, Listed
  <2>6. wanted[h] # None => table[h] # None
      BY DEF Agree
  <2>7. wanted[h] # None /\ Due(h)' \cap Monitored(table[h]) # {} => h \in Range(list')
      BY <2>1, <2>3, <2>5, <2>6
  <2> QED
      BY <2>2, <2>4, <2>5, <2>7 DEF DueListed, Listed
<1>4. ASSUME NEW h \in Handles, NEW c \in Conditions, Goes(h, c) PROVE DueListed'
  <2>1. UNCHANGED <<table, wanted, list>>
      BY <1>4 DEF Goes, Went
  <2>2. ASSUME NEW g \in Handles PROVE Due(g)' \subseteq Due(g)
      BY <1>4 DEF Goes, Went, Due, TypeOK, SharedTypeOK
  <2> QED
      BY <2>1, <2>2 DEF DueListed, Listed
<1>5. ASSUME list # <<>>
      PROVE  /\ Head(list) \in Handles /\ Head(list) \in Range(list)
             /\ Range(Tail(list)) = Range(list) \ {Head(list)}
    BY <1>5, TailOnce, Zenon DEF TypeOK
<1>6. ASSUME WaitDrops PROVE DueListed'
  <2> DEFINE h == Head(list)
  <2>1. list # <<>> /\ Revents(h, table[h]) = {} /\ list' = Tail(list)
      BY <1>6 DEF WaitDrops
  <2>2. UNCHANGED <<table, wanted, cond, fresh>>
      BY <1>6 DEF WaitDrops
  <2>3. h \in Handles /\ Range(list') = Range(list) \ {h}
      BY <1>5, <2>1, Zenon
  <2> HIDE DEF h
  <2>4. wanted[h] # None => Due(h) \cap Monitored(table[h]) = {}
      BY <2>1, <2>3 DEF Revents, Due, Agree, TypeOK, SharedTypeOK
  <2> QED
      BY <2>2, <2>3, <2>4 DEF DueListed, Due, Listed
<1>7. ASSUME Select PROVE DueListed'
  <2> DEFINE h == Head(list)
             flags == Revents(h, table[h])
  <2>1. list # <<>> /\ flags # {} /\ Reported(h, flags, EpEventToEvent(table[h].id, flags))
      BY <1>7 DEF Select
  <2>2. h \in Handles /\ h \in Range(list) /\ Range(Tail(list)) = Range(list) \ {h}
      BY <1>5, <2>1, Zenon
  <2>3. table[h] # None
      BY <2>2 DEF TypeOK, Listed
  <2>4. /\ wanted[h] # None /\ wanted[h] \in Arguments /\ table[h] \in Entries
        /\ table[h].events = ToEpollEvents(wanted[h].interests, wanted[h].opt)
      BY <2>1, <2>2, <2>3, ReportEnabled
  <2>5. /\ "oneshot" \in table[h].events <=> IsOneshot(wanted[h].opt)
        /\ "et" \in table[h].events <=> IsEdge(wanted[h].opt)
      BY <2>4, MonitoredWhenEnabled
  <2>6. /\ cond' = cond /\ wanted' = wanted /\ fresh' = [fresh EXCEPT ![h] = @ \ flags]
      BY <2>1 DEF Reported
  <2>7. Range(list) \ {h} \subseteq Range(list')
    <3>1. CASE list' = Tail(list)
        BY <2>2, <3>1
    <3>2. CASE list' = Append(Tail(list), h)
        BY <2>1, <3>2, RotateOnce, Zenon DEF TypeOK
    <3>3. list' = Tail(list) \/ list' = Append(Tail(list), h)
        BY <1>7, Zenon DEF Select
    <3> QED
        BY <3>1, <3>2, <3>3
  <2>8. CASE "oneshot" \in table[h].events
    <3>1. table' = [table EXCEPT ![h].events = @ \cap Private]
        BY <1>7, <2>8 DEF Select
    <3> HIDE DEF h
    <3>2. table'[h] = [table[h] EXCEPT !.events = @ \cap Private]
        BY <2>2, <3>1 DEF TypeOK
    <3>3. table'[h].events \subseteq Private
        BY <2>4, <3>2 DEF Entries
    <3>4. Monitored(table'[h]) = {}
        BY <3>3 DEF Monitored
    <3>5. ASSUME NEW g \in Handles, g # h PROVE table'[g] = table[g] /\ fresh'[g] = fresh[g]
        BY <2>6, <3>1, <3>5 DEF TypeOK, SharedTypeOK
    <3> QED
        BY <2>6, <2>7, <3>4, <3>5 DEF DueListed, Due, Listed
  <2>9. CASE "oneshot" \notin table[h].events
    <3>1. table' = table /\ list' = IF "et" \in table[h].events THEN Tail(list) ELSE Append(Tail(list), h)
        BY <1>7, <2>9 DEF Select
    <3>2. ASSUME "et" \notin table[h].events PROVE h \in Range(list')
      <4>1. list' = Append(Tail(list), h)
          BY <3>1, <3>2
      <4> QED
          BY <2>1, <2>2, <4>1, RotateOnce, Zenon DEF TypeOK
    <3>3. fresh'[h] \cap Monitored(table[h]) = {}
      <4>1. flags = cond[h] \cap Monitored(table[h])
          BY <2>3 DEF Revents
      <4> HIDE DEF h, flags
      <4>2. fresh'[h] = fresh[h] \ flags /\ fresh[h] \subseteq cond[h]
          BY <2>2, <2>6 DEF TypeOK, SharedTypeOK
      <4> QED
          BY <4>1, <4>2
    <3> HIDE DEF h
    <3>4. ASSUME NEW g \in Handles, g # h PROVE fresh'[g] = fresh[g]
        BY <2>6, <3>4 DEF TypeOK, SharedTypeOK
    <3> QED
        BY <2>5, <2>6, <2>7, <3>1, <3>2, <3>3, <3>4 DEF DueListed, Due, Listed
  <2> QED
      BY <2>8, <2>9
<1>8. CtlFails \/ UNCHANGED vars => UNCHANGED <<table, wanted, cond, fresh, list>>
    BY DEF CtlFails, Refused, vars, sharedVars
<1>9. ASSUME UNCHANGED <<table, wanted, cond, fresh, list>> PROVE DueListed'
    BY <1>9 DEF DueListed, Due, Listed
<1> QED
    BY <1>1, <1>2, <1>3, <1>4, <1>6, <1>7, <1>8, <1>9
       DEF Next, Calls, Surroundings, Register, Reregister

\* Nothing is registered and nothing is listed at first.
LEMMA AgreeInit == Init => Agree /\ DueListed
    BY DEF Init, SharedInit, Agree, DueListed

\* A handle that is owed an event is on the ready list, however calls, conditions
\* and polls follow each other.
THEOREM NothingIsMissed == Spec => []NothingMissed
<1>1. TypeOK /\ Agree /\ DueListed => NothingMissed
  <2> SUFFICES ASSUME TypeOK, Agree, DueListed, NEW h \in Handles, Owed(h) PROVE Listed(h)
      BY DEF NothingMissed
  <2>1. /\ wanted[h] # None /\ wanted[h] \in Arguments /\ table[h] \in Entries
      BY DEF Owed, Agree, TypeOK, SharedTypeOK
  <2>2. table[h].events = ToEpollEvents(wanted[h].interests, wanted[h].opt)
      BY <2>1 DEF Owed, Agree, Current
  <2>3. Meant(wanted[h].interests) \subseteq Monitored(table[h])
      BY <2>1, <2>2, MonitoredWhenEnabled
  <2> QED
      BY <2>1, <2>3 DEF Owed, DueListed
<1> QED
    BY <1>1, AgreeInit, TypeInvariant, AgreeStep, DueStep, PTL DEF Spec

\* A oneshot registration gets a single event until it is reregistered.
THEOREM OneshotFiresOnce == Spec => []OneshotOnce
<1>1. TypeOK /\ Agree => OneshotOnce
    BY DEF Agree, Current, OneshotOnce, TypeOK
<1> QED
    BY <1>1, AgreeInit, TypeInvariant, AgreeStep, PTL DEF Spec

-----------------------------------------------------------------------------
(* EventsCurrent.                                                          *)

\* What ep_event_to_event makes of flags: none of them is dropped.
LEMMA EventOfFlags ==
    ASSUME NEW id, NEW flags, flags \subseteq EpollConditions, flags # {}
    PROVE  LET e == EpEventToEvent(id, flags)
           IN  /\ e.id = id /\ e.ready # {}
               /\ "readable" \in e.ready => "in" \in flags \/ "pri" \in flags
               /\ "writable" \in e.ready => "out" \in flags
<1>1. PICK f \in flags : f \in EpollConditions
    OBVIOUS
<1> QED
    BY <1>1 DEF EpEventToEvent, EpollConditions

\* A poll reports with the id and for the operations of its handle's entry, which
\* is what the caller asked for last; every other step returns no event.
LEMMA EventsCurrentStep ==
    TypeOK /\ Agree /\ EventsCurrent /\ [Next]_vars => EventsCurrent'
<1> SUFFICES ASSUME TypeOK, Agree, EventsCurrent, [Next]_vars PROVE EventsCurrent'
    OBVIOUS
<1>1. ASSUME last' = None PROVE EventsCurrent'
    BY <1>1 DEF EventsCurrent
<1>2. ASSUME Select PROVE EventsCurrent'
  <2>1. PICK h \in Handles : h = Head(list) /\ table[h] # None
    <3>1. Head(list) \in Handles /\ Head(list) \in Range(list)
        BY <1>2, TailOnce, Zenon DEF TypeOK, Select
    <3> QED
        BY <3>1 DEF TypeOK, Listed
  <2> DEFINE flags == Revents(h, table[h])
             e == EpEventToEvent(table[h].id, flags)
  <2>2. flags # {} /\ Reported(h, flags, e)
      BY <1>2, <2>1 DEF Select
  <2>3. /\ wanted[h] # None /\ wanted[h] \in Arguments /\ table[h] \in Entries
        /\ table[h].id = wanted[h].id
        /\ table[h].events = ToEpollEvents(wanted[h].interests, wanted[h].opt)
      BY <2>1, <2>2, ReportEnabled
  <2>4. flags \subseteq cond[h] /\ flags \subseteq Meant(wanted[h].interests) \cup {"pri"}
      BY <2>1, <2>3, MonitoredWhenEnabled DEF Revents
  <2>5. flags \subseteq EpollConditions
      BY <2>1, <2>4, EpollAssumption DEF TypeOK, SharedTypeOK
  <2> HIDE DEF flags
  <2>6. /\ e.id = wanted[h].id /\ e.ready # {}
        /\ "readable" \in e.ready => "in" \in flags \/ "pri" \in flags
        /\ "writable" \in e.ready => "out" \in flags
      BY <2>2, <2>3, <2>5, EventOfFlags
  <2>7. /\ "in" \in flags => "readable" \in wanted[h].interests
        /\ "out" \in flags => "writable" \in wanted[h].interests
        /\ "pri" \in flags => "pri" \in cond[h]
      BY <2>4 DEF Meant
  <2> HIDE DEF e
  <2>8. last' = [handle |-> h, id |-> e.id, ready |-> e.ready] /\ UNCHANGED <<cond, wanted>>
      BY <2>2 DEF Reported
  <2> QED
      BY <2>3, <2>6, <2>7, <2>8 DEF EventsCurrent
<1>3. CtlFails \/ WaitDrops => last' = None
    BY DEF CtlFails, Refused, WaitDrops
<1>4. ASSUME NEW h \in Handles, NEW args \in Arguments, CtlOk(h, args) PROVE last' = None
    BY <1>4 DEF CtlOk, Granted
<1>5. ASSUME NEW h \in Handles, Deregister(h) PROVE last' = None
    BY <1>3, <1>5 DEF Deregister, Granted
<1>6. ASSUME NEW h \in Handles, NEW c \in Conditions, Arises(h, c) \/ Goes(h, c) PROVE last' = None
    BY <1>6 DEF Arises, Arose, Goes, Went
<1>7. ASSUME UNCHANGED vars PROVE EventsCurrent'
    BY <1>7 DEF EventsCurrent, vars, sharedVars
<1> QED
    BY <1>1, <1>2, <1>3, <1>4, <1>5, <1>6, <1>7
       DEF Next, Calls, Surroundings, Register, Reregister

\* Every event has the id of the last successful register or reregister of its
\* handle and is for an operation that was asked for.
THEOREM EventsAreCurrent == Spec => []EventsCurrent
<1>1. Init => EventsCurrent
    BY DEF Init, SharedInit, EventsCurrent
<1> QED
    BY <1>1, AgreeInit, TypeInvariant, AgreeStep, EventsCurrentStep, PTL DEF Spec
==============================================================================
