----------------------------- MODULE KqueueProofs -----------------------------
(***************************************************************************)
(* Registrations with the kqueue selector, for any handles, ids,           *)
(* interests, options and conditions, with changes that fail or without:   *)
(* no readiness is missed, an event is what the caller asked for, and a    *)
(* filter that was added as oneshot fires once.                            *)
(***************************************************************************)
EXTENDS Kqueue, SequenceTheorems, TLAPS

-----------------------------------------------------------------------------
(* Lists without repetitions.                                              *)

\* w is s without its element at position k.
IsCut(w, s, k) ==
    /\ Len(w) = Len(s) - 1
    /\ \A i \in 1..(Len(s) - 1) : w[i] = IF i < k THEN s[i] ELSE s[i + 1]

\* Taking out one element of a list.
LEMMA CutOut ==
    ASSUME NEW S, NEW s \in Seq(S), NEW w \in Seq(S), IsInjective(s),
           NEW k \in 1..Len(s), IsCut(w, s, k)
    PROVE  IsInjective(w) /\ Range(w) = Range(s) \ {s[k]}
<1>1. Len(s) \in Nat /\ DOMAIN s = 1..Len(s) /\ DOMAIN w = 1..(Len(s) - 1)
    BY LenProperties DEF IsCut
<1>2. \A i, j \in 1..Len(s) : s[i] = s[j] => i = j
    BY <1>1 DEF IsInjective
<1>3. IsInjective(w)
    BY <1>1, <1>2 DEF IsInjective, IsCut
<1>4. ASSUME NEW i \in 1..(Len(s) - 1) PROVE w[i] \in Range(s) /\ w[i] # s[k]
    BY <1>1, <1>2 DEF Range, IsCut
<1>5. ASSUME NEW i \in 1..Len(s), i # k PROVE s[i] \in Range(w)
  <2>1. CASE i < k
      BY <1>1, <2>1 DEF Range, IsCut
  <2>2. CASE i > k
    <3>1. i - 1 \in 1..(Len(s) - 1) /\ w[i - 1] = s[i]
        BY <1>1, <2>2 DEF IsCut
    <3> QED
        BY <1>1, <3>1 DEF Range
  <2> QED
      BY <1>1, <1>5, <2>1, <2>2
<1>6. \A x : x \in Range(w) => x \in Range(s) /\ x # s[k]
    BY <1>1, <1>4 DEF Range
<1>7. \A x : x \in Range(s) /\ x # s[k] => x \in Range(w)
    BY <1>1, <1>5 DEF Range
<1> QED
    BY <1>3, <1>6, <1>7

\* Taking the first knote off a queue without repetitions leaves one without
\* repetitions, and without that knote.
LEMMA TailOnce ==
    ASSUME NEW S, NEW s \in Seq(S), IsInjective(s), s # <<>>
    PROVE  /\ Head(s) \in S /\ Head(s) \in Range(s) /\ Tail(s) \in Seq(S)
           /\ IsInjective(Tail(s)) /\ Range(Tail(s)) = Range(s) \ {Head(s)}
<1>1. /\ Len(s) \in Nat /\ 1 \in 1..Len(s) /\ DOMAIN s = 1..Len(s)
      /\ Head(s) = s[1] /\ Head(s) \in S
    BY LenProperties, EmptySeq, HeadTailProperties
<1>2. /\ Tail(s) \in Seq(S) /\ Len(Tail(s)) = Len(s) - 1
      /\ \A i \in 1..(Len(s) - 1) : Tail(s)[i] = s[i + 1]
    BY <1>1, HeadTailProperties
<1>3. IsCut(Tail(s), s, 1)
    BY <1>2 DEF IsCut
<1>4. IsInjective(Tail(s)) /\ Range(Tail(s)) = Range(s) \ {s[1]}
  <2> DEFINE r == Tail(s)
  <2> HIDE DEF r
  <2>1. r \in Seq(S) /\ IsCut(r, s, 1)
      BY <1>2, <1>3 DEF r
  <2>2. IsInjective(r) /\ Range(r) = Range(s) \ {s[1]}
      BY <1>1, <2>1, CutOut
  <2> QED
      BY <2>2 DEF r
<1> QED
    BY <1>1, <1>2, <1>4 DEF Range

\* Taking knotes out of a queue without repetitions leaves the other knotes.
LEMMA WithoutOnce ==
    ASSUME NEW S, NEW s \in Seq(S), IsInjective(s), NEW e
    PROVE  /\ Without(s, e) \in Seq(S) /\ IsInjective(Without(s, e))
           /\ Range(Without(s, e)) = Range(s) \ {e}
<1>1. CASE e \in Range(s)
  <2>1. Len(s) \in Nat /\ DOMAIN s = 1..Len(s) /\ \A i \in 1..Len(s) : s[i] \in S
      BY LenProperties, ElementOfSeq
  <2>2. PICK k \in 1..Len(s) :
           /\ s[k] = e
           /\ Without(s, e) = [i \in 1..(Len(s) - 1) |-> IF i < k THEN s[i] ELSE s[i + 1]]
      BY <1>1, <2>1 DEF Range, Without
  <2>3. k \in 1..Len(s) /\ s[k] = e
      BY <2>2
  <2> DEFINE w == [i \in 1..(Len(s) - 1) |-> IF i < k THEN s[i] ELSE s[i + 1]]
  <2>4. Len(s) - 1 \in Nat /\ w \in [1..(Len(s) - 1) -> S]
      BY <2>1, <2>2
  <2>5. \A i \in 1..(Len(s) - 1) : w[i] = IF i < k THEN s[i] ELSE s[i + 1]
      OBVIOUS
  <2> HIDE DEF w
  <2>6. w \in Seq(S)
      BY <2>4, SeqDef
  <2>7. DOMAIN w = 1..(Len(s) - 1) /\ DOMAIN w = 1..Len(w) /\ Len(w) \in Nat
      BY <2>4, <2>6, LenProperties
  <2>8. Len(w) = Len(s) - 1
      BY <2>4, <2>7
  <2>9. IsInjective(w) /\ Range(w) = Range(s) \ {s[k]}
    <3>1. IsCut(w, s, k)
        BY <2>5, <2>8 DEF IsCut
    <3> QED
        BY <2>3, <2>6, <3>1, CutOut
  <2> QED
      BY <2>2, <2>6, <2>9 DEF w
<1>2. CASE e \notin Range(s)
    BY <1>2 DEF Without
<1> QED
    BY <1>1, <1>2

\* Appending a knote that a queue does not hold adds it once.
LEMMA AppendOnce ==
    ASSUME NEW S, NEW s \in Seq(S), IsInjective(s), NEW e \in S, e \notin Range(s)
    PROVE  /\ Append(s, e) \in Seq(S) /\ IsInjective(Append(s, e))
           /\ Range(Append(s, e)) = Range(s) \cup {e}
<1>1. /\ Append(s, e) \in Seq(S) /\ Len(Append(s, e)) = Len(s) + 1 /\ Len(s) \in Nat
      /\ \A i \in 1..Len(s) : Append(s, e)[i] = s[i]
      /\ Append(s, e)[Len(s) + 1] = e
    BY AppendProperties, LenProperties
<1>2. DOMAIN s = 1..Len(s) /\ DOMAIN Append(s, e) = 1..(Len(s) + 1)
    BY <1>1, LenProperties
<1>3. Range(Append(s, e)) = Range(s) \cup {e}
    BY <1>1, <1>2 DEF Range
<1>4. IsInjective(Append(s, e))
    BY <1>1, <1>2 DEF IsInjective, Range
<1> QED
    BY <1>1, <1>3, <1>4

\* Putting the first element back at the end.
LEMMA RotateOnce ==
    ASSUME NEW S, NEW s \in Seq(S), IsInjective(s), s # <<>>
    PROVE  /\ Append(Tail(s), Head(s)) \in Seq(S) /\ IsInjective(Append(Tail(s), Head(s)))
           /\ Range(Append(Tail(s), Head(s))) = Range(s)
<1> DEFINE h == Head(s)
           r == Tail(s)
<1>1. h \in S /\ h \in Range(s) /\ r \in Seq(S) /\ IsInjective(r) /\ Range(r) = Range(s) \ {h}
    BY TailOnce, Zenon
<1> HIDE DEF h, r
<1>2. h \in S /\ r \in Seq(S) /\ IsInjective(r) /\ h \notin Range(r)
    BY <1>1
<1>3. /\ Append(r, h) \in Seq(S) /\ IsInjective(Append(r, h))
      /\ Range(Append(r, h)) = Range(r) \cup {h}
    BY <1>2, AppendOnce, Zenon
<1>4. Range(Append(r, h)) = Range(s)
    BY <1>1, <1>3
<1> QED
    BY <1>3, <1>4, Zenon DEF h, r

-----------------------------------------------------------------------------
(* What the caller asked for and what the kernel has.                      *)

\* Every knote has the flags of the option in force.
MadeAs ==
    \A k \in Handles \X Filters : knotes[k] # None => knotes[k].flags = OptToFlags(inForce[k])

\* The knote of filter f of a registered handle is the one the last successful
\* call asked for, with the option in force; or none once it fired with oneshot,
\* or none at all.
Current(h, f) ==
    \/ /\ f \in FiltersOf(wanted[h].interests)
       /\ knotes[<<h, f>>] = NewKevent(wanted[h].id, Opt(h, f))
       /\ IsOneshot(Opt(h, f)) => got[<<h, f>>] = 0
    \/ /\ f \in FiltersOf(wanted[h].interests)
       /\ knotes[<<h, f>>] = None
       /\ IsOneshot(Opt(h, f)) /\ got[<<h, f>>] = 1
    \/ /\ f \notin FiltersOf(wanted[h].interests)
       /\ knotes[<<h, f>>] = None /\ got[<<h, f>>] = 0

\* The kernel's knotes and the caller agree on the handles that are settled.
Agree ==
    \A h \in Handles, f \in Filters :
        h \notin unsettled =>
            IF wanted[h] = None THEN knotes[<<h, f>>] = None ELSE Current(h, f)

\* A knote for which something is due is active.
DueActive ==
    \A h \in Handles, f \in Filters :
        /\ h \notin unsettled /\ wanted[h] # None /\ knotes[<<h, f>>] # None
        /\ DueFor(h, f) # {}
        => Active(h, f)

\* Queueing a knote that may be queued already keeps the queue without repetitions.
LEMMA EnqueueOnce ==
    ASSUME NEW S, NEW s \in Seq(S), IsInjective(s), NEW e \in S
    PROVE  /\ Enqueue(s, e) \in Seq(S) /\ IsInjective(Enqueue(s, e))
           /\ Range(Enqueue(s, e)) = Range(s) \cup {e}
<1>1. CASE e \in Range(s)
    BY <1>1 DEF Enqueue
<1>2. CASE e \notin Range(s)
  <2>1. /\ Append(s, e) \in Seq(S) /\ IsInjective(Append(s, e))
        /\ Range(Append(s, e)) = Range(s) \cup {e}
      BY <1>2, AppendOnce, Zenon
  <2> QED
      BY <1>2, <2>1, Zenon DEF Enqueue
<1> QED
    BY <1>1, <1>2

\* The knotes of handle h for the filters fs.
KnotesOf(h, fs) == {k \in Handles \X Filters : k[1] = h /\ k[2] \in fs}

\* What is active after Requeue.
LEMMA RequeueOnce ==
    ASSUME TypeOK, NEW h \in Handles, NEW ready, NEW gone
    PROVE  /\ Requeue(h, ready, gone) \in Seq(Handles \X Filters)
           /\ IsInjective(Requeue(h, ready, gone))
           /\ Range(Requeue(h, ready, gone))
                = (Range(active) \ KnotesOf(h, gone)) \cup KnotesOf(h, ready)
<1> DEFINE K == Handles \X Filters
           w == <<h, "write">>
           r == <<h, "read">>
           q1 == IF "write" \in gone THEN Without(active, w) ELSE active
           q2 == IF "read" \in gone THEN Without(q1, r) ELSE q1
           q3 == IF "write" \in ready THEN Enqueue(q2, w) ELSE q2
           q4 == IF "read" \in ready THEN Enqueue(q3, r) ELSE q3
<1>1. Requeue(h, ready, gone) = q4
    BY Zenon DEF Requeue
<1>2. w \in K /\ r \in K
    BY DEF Filters
<1>3. w # r /\ \A fs : KnotesOf(h, fs) = {k \in {w} : "write" \in fs} \cup {k \in {r} : "read" \in fs}
    BY DEF Filters, KnotesOf
<1> HIDE DEF w, r, K, q1, q2, q3, q4
<1>4. /\ q1 \in Seq(K) /\ IsInjective(q1)
      /\ Range(q1) = IF "write" \in gone THEN Range(active) \ {w} ELSE Range(active)
  <2>1. active \in Seq(K) /\ IsInjective(active)
      BY DEF TypeOK, K
  <2> QED
      BY <2>1, WithoutOnce, Zenon DEF q1
<1>5. /\ q2 \in Seq(K) /\ IsInjective(q2)
      /\ Range(q2) = IF "read" \in gone THEN Range(q1) \ {r} ELSE Range(q1)
    BY <1>4, WithoutOnce, Zenon DEF q2
<1>6. /\ q3 \in Seq(K) /\ IsInjective(q3)
      /\ Range(q3) = IF "write" \in ready THEN Range(q2) \cup {w} ELSE Range(q2)
  <2>1. q2 \in Seq(K) /\ IsInjective(q2) /\ w \in K
      BY <1>2, <1>5
  <2>2. /\ Enqueue(q2, w) \in Seq(K) /\ IsInjective(Enqueue(q2, w))
        /\ Range(Enqueue(q2, w)) = Range(q2) \cup {w}
      BY <2>1, EnqueueOnce
  <2> QED
      BY <2>1, <2>2, Zenon DEF q3
<1>7. /\ q4 \in Seq(K) /\ IsInjective(q4)
      /\ Range(q4) = IF "read" \in ready THEN Range(q3) \cup {r} ELSE Range(q3)
  <2>1. q3 \in Seq(K) /\ IsInjective(q3) /\ r \in K
      BY <1>2, <1>6
  <2>2. /\ Enqueue(q3, r) \in Seq(K) /\ IsInjective(Enqueue(q3, r))
        /\ Range(Enqueue(q3, r)) = Range(q3) \cup {r}
      BY <2>1, EnqueueOnce
  <2> QED
      BY <2>1, <2>2, Zenon DEF q4
<1>8. Range(q4) = (Range(active) \ KnotesOf(h, gone)) \cup KnotesOf(h, ready)
    BY <1>3, <1>4, <1>5, <1>6, <1>7
<1> QED
    BY <1>1, <1>7, <1>8 DEF K

\* What an EV_ADD makes is a knote.
LEMMA NewKnote ==
    ASSUME NEW args \in Arguments
    PROVE  /\ NewKevent(args.id, args.opt) \in Knotes /\ NewKevent(args.id, args.opt) # None
           /\ args # None
<1>1. NewKevent(args.id, args.opt) \in Knotes
    BY DEF NewKevent, Knotes, OptToFlags, Arguments
<1> QED
    BY <1>1, KqueueAssumption, RegistrationsAssumption

\* EV_ADD for a filter leaves a knote with the id, and the flags of the option
\* in force from then on.
LEMMA AddKnote ==
    ASSUME TypeOK, NEW k \in Handles \X Filters, NEW args \in Arguments
    PROVE  /\ Add(k, args) \in Knotes /\ Add(k, args) # None
           /\ MadeAs => Add(k, args) = NewKevent(args.id, IF knotes[k] = None THEN args.opt
                                                         ELSE inForce[k])
<1>1. CASE knotes[k] = None
    BY <1>1, NewKnote DEF Add
<1>2. CASE knotes[k] # None
  <2>1. knotes[k] \in Knotes /\ args.id \in Ids
      BY <1>2 DEF TypeOK, Arguments
  <2>2. Add(k, args) = [id |-> args.id, flags |-> knotes[k].flags]
      BY <1>2, <2>1 DEF Add, Knotes
  <2>3. Add(k, args) \in Knotes
      BY <2>1, <2>2 DEF Knotes
  <2> QED
      BY <1>2, <2>2, <2>3, KqueueAssumption DEF MadeAs, NewKevent
<1> QED
    BY <1>1, <1>2

\* What kevent() leaves of the knotes and their queue after the changes for one
\* handle: those of other handles stay, what is added is active if it is ready.
LEMMA ChangeKnotes ==
    ASSUME TypeOK, NEW h \in Handles, NEW adds, NEW deletes, NEW args,
           adds # {} => args \in Arguments, Change(h, adds, args, deletes)
    PROVE  /\ knotes' \in [Handles \X Filters -> Knotes \cup {None}]
           /\ inForce' \in [Handles \X Filters -> AllOptions]
           /\ active' \in Seq(Handles \X Filters) /\ IsInjective(active')
           /\ adds \cap deletes = {} => \A k \in Range(active') : knotes'[k] # None
           /\ \A g \in Handles, f \in Filters :
                 g # h => /\ knotes'[<<g, f>>] = knotes[<<g, f>>]
                          /\ inForce'[<<g, f>>] = inForce[<<g, f>>]
                          /\ Active(g, f) => <<g, f>> \in Range(active')
           /\ \A f \in Filters :
                 /\ f \in adds /\ f \notin deletes /\ MadeAs
                       => knotes'[<<h, f>>] = NewKevent(args.id, inForce'[<<h, f>>])
                 /\ f \in adds /\ Found(h, f) # {} => <<h, f>> \in Range(active')
                 /\ f \notin adds /\ f \in deletes => knotes'[<<h, f>>] = None
                 /\ f \notin adds /\ f \notin deletes
                       => UNCHANGED <<knotes[<<h, f>>], inForce[<<h, f>>]>>
<1> DEFINE ready == {f \in adds : Found(h, f) # {}}
<1>1. /\ active' \in Seq(Handles \X Filters) /\ IsInjective(active')
      /\ Range(active') = (Range(active) \ KnotesOf(h, deletes)) \cup KnotesOf(h, ready)
  <2>1. active' = Requeue(h, ready, deletes)
      BY DEF Change
  <2> HIDE DEF ready
  <2> QED
      BY <2>1, RequeueOnce, Zenon
<1>2. ASSUME NEW g \in Handles, NEW f \in Filters
      PROVE  /\ <<g, f>> \in Handles \X Filters
             /\ knotes'[<<g, f>>] = IF g # h THEN knotes[<<g, f>>]
                                    ELSE IF f \in adds THEN Add(<<g, f>>, args)
                                    ELSE IF f \in deletes THEN None
                                    ELSE knotes[<<g, f>>]
             /\ inForce'[<<g, f>>] =
                   IF g = h /\ f \in adds /\ knotes[<<g, f>>] = None THEN args.opt
                   ELSE IF g = h /\ f \in deletes THEN {}
                   ELSE inForce[<<g, f>>]
    BY DEF Change
<1>3. /\ knotes' \in [Handles \X Filters -> Knotes \cup {None}]
      /\ inForce' \in [Handles \X Filters -> AllOptions]
  <2>1. ASSUME NEW k \in Handles \X Filters, k[2] \in adds
        PROVE  Add(k, args) \in Knotes /\ args.opt \in AllOptions
      BY <2>1, AddKnote, RegistrationsAssumption DEF Arguments
  <2>2. {} \in AllOptions
      BY DEF AllOptions
  <2> QED
      BY <2>1, <2>2 DEF Change, TypeOK
<1>4. ASSUME NEW f \in Filters, f \in adds
      PROVE  /\ knotes'[<<h, f>>] # None
             /\ MadeAs /\ f \notin deletes
                   => knotes'[<<h, f>>] = NewKevent(args.id, inForce'[<<h, f>>])
    BY <1>2, <1>4, AddKnote
<1>5. ASSUME adds \cap deletes = {}, NEW k \in Range(active') PROVE knotes'[k] # None
  <2>1. k \in Handles \X Filters
      BY <1>1, RangeOfSeq DEF TypeOK, Range
  <2>2. PICK g \in Handles, f \in Filters : k = <<g, f>>
      BY <2>1
  <2>3. k \in Range(active) => knotes[k] # None
      BY DEF TypeOK
  <2>4. \/ k \in Range(active) /\ ~(g = h /\ f \in deletes)
        \/ g = h /\ f \in adds
      BY <1>1, <1>5, <2>1, <2>2 DEF KnotesOf
  <2> QED
      BY <1>2, <1>4, <1>5, <2>2, <2>3, <2>4
<1>6. ASSUME NEW g \in Handles, NEW f \in Filters, g # h, Active(g, f)
      PROVE  <<g, f>> \in Range(active')
    BY <1>1, <1>6 DEF Active, KnotesOf
<1>7. ASSUME NEW f \in Filters, f \in adds, Found(h, f) # {}
      PROVE  <<h, f>> \in Range(active')
    BY <1>1, <1>7 DEF KnotesOf
<1> QED
    BY <1>1, <1>2, <1>3, <1>4, <1>5, <1>6, <1>7

-----------------------------------------------------------------------------
(* The type invariant.                                                     *)

\* What is active without the first knote, and with it put back at the end.
LEMMA FirstKnote ==
    ASSUME TypeOK, NEW h \in Handles, NEW f \in Filters, First(h, f)
    PROVE  /\ Active(h, f) /\ knotes[<<h, f>>] \in Knotes /\ knotes[<<h, f>>] # None
           /\ Tail(active) \in Seq(Handles \X Filters) /\ IsInjective(Tail(active))
           /\ Range(Tail(active)) = Range(active) \ {<<h, f>>}
           /\ Append(Tail(active), <<h, f>>) \in Seq(Handles \X Filters)
           /\ IsInjective(Append(Tail(active), <<h, f>>))
           /\ Range(Append(Tail(active), <<h, f>>)) = Range(active)
<1>1. active \in Seq(Handles \X Filters) /\ IsInjective(active) /\ active # <<>>
    BY DEF TypeOK, First
<1>2. /\ Head(active) \in Range(active)
      /\ Tail(active) \in Seq(Handles \X Filters) /\ IsInjective(Tail(active))
      /\ Range(Tail(active)) = Range(active) \ {Head(active)}
    BY <1>1, TailOnce, Zenon
<1>3. /\ Append(Tail(active), Head(active)) \in Seq(Handles \X Filters)
      /\ IsInjective(Append(Tail(active), Head(active)))
      /\ Range(Append(Tail(active), Head(active))) = Range(active)
    BY <1>1, RotateOnce, Zenon
<1>4. Head(active) = <<h, f>>
    BY DEF First
<1>5. Active(h, f) /\ knotes[<<h, f>>] # None /\ knotes[<<h, f>>] \in Knotes
    BY <1>2, <1>4 DEF Active, TypeOK
<1> QED
    BY <1>2, <1>3, <1>4, <1>5, Zenon

\* A call that returns Ok keeps the types.
LEMMA RegisterOkType ==
    ASSUME TypeOK, NEW h \in Handles, NEW args \in Arguments \cup {None},
           NEW adds, NEW deletes, NEW exact,
           adds # {} => args \in Arguments, adds \cap deletes = {},
           RegisterOk(h, adds, deletes, args, exact)
    PROVE  TypeOK'
<1>2. Change(h, adds, args, deletes)
    BY DEF RegisterOk
<1>3. /\ knotes' \in [Handles \X Filters -> Knotes \cup {None}]
      /\ inForce' \in [Handles \X Filters -> AllOptions]
      /\ active' \in Seq(Handles \X Filters) /\ IsInjective(active')
      /\ \A k \in Range(active') : knotes'[k] # None
    BY <1>2, ChangeKnotes
<1>4. SharedTypeOK'
    BY DEF RegisterOk, Granted, TypeOK, SharedTypeOK
<1>5. got' \in [Handles \X Filters -> 0..2] /\ unsettled' \subseteq Handles
    BY DEF RegisterOk, TypeOK
<1> QED
    BY <1>3, <1>4, <1>5 DEF TypeOK

\* And so does one that fails halfway.
LEMMA RegisterPartlyType ==
    ASSUME TypeOK, NEW h \in Handles, NEW args \in Arguments, NEW adds, NEW deletes,
           adds \cap deletes = {}, RegisterPartly(h, adds, deletes, args)
    PROVE  TypeOK'
<1>1. PICK failed \in SUBSET adds : Change(h, adds \ failed, args, deletes)
    BY DEF RegisterPartly
<1> DEFINE done == adds \ failed
<1>2. done \cap deletes = {} /\ Change(h, done, args, deletes)
    BY <1>1
<1> HIDE DEF done
<1>3. /\ knotes' \in [Handles \X Filters -> Knotes \cup {None}]
      /\ inForce' \in [Handles \X Filters -> AllOptions]
      /\ active' \in Seq(Handles \X Filters) /\ IsInjective(active')
      /\ \A k \in Range(active') : knotes'[k] # None
    BY <1>2, ChangeKnotes
<1>4. SharedTypeOK'
    BY DEF RegisterPartly, Refused, TypeOK, SharedTypeOK
<1>5. got' \in [Handles \X Filters -> 0..2] /\ unsettled' \subseteq Handles
    BY DEF RegisterPartly, TypeOK
<1> QED
    BY <1>3, <1>4, <1>5 DEF TypeOK

\* Every step keeps the types.
LEMMA TypeStep == TypeOK /\ [Next]_vars => TypeOK'
<1> SUFFICES ASSUME TypeOK, [Next]_vars PROVE TypeOK'
    OBVIOUS
<1>1. ASSUME RegisterFails PROVE TypeOK'
    BY <1>1 DEF RegisterFails, Refused, TypeOK, SharedTypeOK
<1>2. ASSUME NEW h \in Handles, NEW args \in Arguments, Register(h, args) PROVE TypeOK'
  <2>1. FiltersOf(args.interests) \cap {} = {}
      OBVIOUS
  <2> QED
      BY <1>1, <1>2, <2>1, RegisterOkType, RegisterPartlyType DEF Register
<1>3. ASSUME NEW h \in Handles, NEW args \in Arguments, Reregister(h, args) PROVE TypeOK'
  <2>1. FiltersOf(args.interests) \cap (Filters \ FiltersOf(args.interests)) = {}
      OBVIOUS
  <2> QED
      BY <1>1, <1>3, <2>1, RegisterOkType, RegisterPartlyType DEF Reregister
<1>4. ASSUME NEW h \in Handles, Deregister(h) PROVE TypeOK'
  <2>1. {} \cap Filters = {}
      OBVIOUS
  <2> QED
      BY <1>1, <1>4, <2>1, RegisterOkType DEF Deregister
<1>5. ASSUME NEW h \in Handles, NEW c \in Conditions, Arises(h, c) PROVE TypeOK'
  <2> DEFINE ready == {f \in Filters : c \in Triggers(f) /\ knotes[<<h, f>>] # None}
  <2>1. SharedTypeOK' /\ UNCHANGED <<knotes, inForce, got, unsettled>>
      BY <1>5 DEF Arises, Arose, TypeOK, SharedTypeOK
  <2>2. active' = Requeue(h, ready, {})
      BY <1>5 DEF Arises
  <2>3. \A k \in KnotesOf(h, ready) : knotes[k] # None
      BY DEF KnotesOf
  <2> HIDE DEF ready
  <2>4. /\ active' \in Seq(Handles \X Filters) /\ IsInjective(active')
        /\ Range(active') = (Range(active) \ KnotesOf(h, {})) \cup KnotesOf(h, ready)
      BY <2>2, RequeueOnce, Zenon
  <2> QED
      BY <2>1, <2>3, <2>4 DEF TypeOK
<1>6. ASSUME NEW h \in Handles, NEW c \in Conditions, Goes(h, c) PROVE TypeOK'
    BY <1>6 DEF Goes, Went, TypeOK, SharedTypeOK
<1>7. ASSUME NEW h \in Handles, NEW f \in Filters, WaitDrops(h, f) PROVE TypeOK'
  <2>1. First(h, f) /\ active' = Tail(active)
      BY <1>7 DEF WaitDrops
  <2>2. /\ active' \in Seq(Handles \X Filters) /\ IsInjective(active')
        /\ Range(active') \subseteq Range(active)
      BY <2>1, FirstKnote, Zenon
  <2>3. SharedTypeOK' /\ UNCHANGED <<knotes, inForce, got, unsettled>>
      BY <1>7 DEF WaitDrops, TypeOK, SharedTypeOK
  <2> QED
      BY <2>2, <2>3 DEF TypeOK
<1>8. ASSUME NEW h \in Handles, NEW f \in Filters, Select(h, f) PROVE TypeOK'
  <2> DEFINE k == <<h, f>>
             e == KeventToEvent(knotes[k].id, f, Found(h, f))
  <2>1. /\ First(h, f) /\ Reported(h, Found(h, f), e) /\ UNCHANGED <<inForce, unsettled>>
        /\ got' = [got EXCEPT ![k] = IF h \notin unsettled /\ @ < 2 THEN @ + 1 ELSE @]
      BY <1>8 DEF Select
  <2>2. \/ knotes' = [knotes EXCEPT ![k] = None] /\ active' = Tail(active)
        \/ knotes' = knotes /\ (active' = Tail(active) \/ active' = Append(Tail(active), k))
      BY <1>8, Zenon DEF Select
  <2>3. /\ active' \in Seq(Handles \X Filters) /\ IsInjective(active')
        /\ Range(active') \subseteq Range(active)
        /\ active' = Tail(active) => k \notin Range(active')
      BY <2>1, <2>2, FirstKnote
  <2>4. e.id \in Ids /\ e.ready \in Ready
      BY <2>1, FirstKnote DEF KeventToEvent, Ready, Knotes
  <2> HIDE DEF e
  <2>5. SharedTypeOK'
      BY <2>1, <2>4 DEF Reported, TypeOK, SharedTypeOK
  <2>6. got' \in [Handles \X Filters -> 0..2]
      BY <2>1 DEF TypeOK
  <2>7. knotes' \in [Handles \X Filters -> Knotes \cup {None}]
      BY <2>2 DEF TypeOK
  <2>8. ASSUME NEW j \in Range(active') PROVE knotes'[j] # None
    <3>1. knotes[j] # None
        BY <2>3, <2>8 DEF TypeOK
    <3>2. j \in Handles \X Filters
        BY <2>3, <2>8, RangeOfSeq DEF Range
    <3>3. active' = Tail(active) => j # k
        BY <2>3, <2>8
    <3> HIDE DEF k
    <3> QED
        BY <2>2, <3>1, <3>2, <3>3 DEF TypeOK
  <2> QED
      BY <2>1, <2>3, <2>5, <2>6, <2>7, <2>8 DEF TypeOK
<1>9. CASE UNCHANGED vars
    BY <1>9 DEF vars, sharedVars, TypeOK, SharedTypeOK
<1> QED
    BY <1>2, <1>3, <1>4, <1>5, <1>6, <1>7, <1>8, <1>9 DEF Next, Calls, Surroundings, Wait

\* The knotes, their queue and the events have their types.
THEOREM TypeInvariant == Spec => []TypeOK
<1>1. <<>> \in Seq(Handles \X Filters) /\ IsInjective(<<>>) /\ Range(<<>>) = {}
    BY EmptySeq DEF IsInjective, Range
<1>2. Init => TypeOK
    BY <1>1 DEF Init, SharedInit, TypeOK, SharedTypeOK, AllOptions
<1> QED
    BY <1>2, TypeStep, PTL DEF Spec

-----------------------------------------------------------------------------
(* MadeAs, Agree and DueActive are kept.                                   *)

\* The option in force is set with the flags.
LEMMA MadeAsStep == TypeOK /\ MadeAs /\ [Next]_vars => MadeAs'
<1> SUFFICES ASSUME TypeOK, MadeAs, [Next]_vars PROVE MadeAs'
    OBVIOUS
<1>1. ASSUME NEW h \in Handles, NEW args \in Arguments \cup {None}, NEW adds, NEW deletes,
             adds # {} => args \in Arguments, adds \cap deletes = {},
             Change(h, adds, args, deletes)
      PROVE  MadeAs'
  <2> SUFFICES ASSUME NEW g \in Handles, NEW f \in Filters, knotes'[<<g, f>>] # None
               PROVE  knotes'[<<g, f>>].flags = OptToFlags(inForce'[<<g, f>>])
      BY DEF MadeAs
  <2>1. <<g, f>> \in Handles \X Filters
      OBVIOUS
  <2>2. \/ UNCHANGED <<knotes[<<g, f>>], inForce[<<g, f>>]>>
        \/ knotes'[<<g, f>>] = NewKevent(args.id, inForce'[<<g, f>>])
      BY <1>1, ChangeKnotes
  <2> QED
      BY <2>1, <2>2 DEF MadeAs, NewKevent
<1>2. ASSUME UNCHANGED <<knotes, inForce>> PROVE MadeAs'
    BY <1>2 DEF MadeAs
<1>3. RegisterFails \/ UNCHANGED vars => UNCHANGED <<knotes, inForce>>
    BY DEF RegisterFails, vars
<1>4. ASSUME NEW h \in Handles, NEW args \in Arguments, Register(h, args) PROVE MadeAs'
  <2> DEFINE adds == FiltersOf(args.interests)
  <2>1. \/ \E some \in SUBSET adds : Change(h, some, args, {})
        \/ RegisterFails
      BY <1>4 DEF Register, RegisterOk, RegisterPartly
  <2>2. \A some \in SUBSET adds : some \cap {} = {}
      OBVIOUS
  <2> QED
      BY <1>1, <1>2, <1>3, <2>1, <2>2
<1>5. ASSUME NEW h \in Handles, NEW args \in Arguments, Reregister(h, args) PROVE MadeAs'
  <2> DEFINE adds == FiltersOf(args.interests)
  <2>1. \/ \E some \in SUBSET adds : Change(h, some, args, Filters \ adds)
        \/ RegisterFails
      BY <1>5 DEF Reregister, RegisterOk, RegisterPartly
  <2>2. \A some \in SUBSET adds : some \cap (Filters \ adds) = {}
      OBVIOUS
  <2> QED
      BY <1>1, <1>2, <1>3, <2>1, <2>2
<1>6. ASSUME NEW h \in Handles, Deregister(h) PROVE MadeAs'
  <2>1. Change(h, {}, None, Filters) \/ RegisterFails
      BY <1>6 DEF Deregister, RegisterOk
  <2>2. {} \cap Filters = {}
      OBVIOUS
  <2> QED
      BY <1>1, <1>2, <1>3, <2>1, <2>2
<1>7. ASSUME NEW h \in Handles, NEW c \in Conditions, Arises(h, c) \/ Goes(h, c) PROVE MadeAs'
    BY <1>2, <1>7 DEF Arises, Goes
<1>8. ASSUME NEW h \in Handles, NEW f \in Filters, WaitDrops(h, f) PROVE MadeAs'
    BY <1>2, <1>8 DEF WaitDrops
<1>9. ASSUME NEW h \in Handles, NEW f \in Filters, Select(h, f) PROVE MadeAs'
  <2>1. inForce' = inForce /\ (knotes' = knotes \/ knotes' = [knotes EXCEPT ![<<h, f>>] = None])
      BY <1>9, Zenon DEF Select
  <2> QED
      BY <2>1 DEF MadeAs, TypeOK
<1> QED
    BY <1>2, <1>3, <1>4, <1>5, <1>6, <1>7, <1>8, <1>9 DEF Next, Calls, Surroundings, Wait

\* A call that returned Ok and changed both filters, or found nothing of the ones
\* it left alone, settles its handle; any other call leaves it unsettled.
LEMMA RegisterOkAgrees ==
    ASSUME TypeOK, MadeAs, Agree, DueActive, NEW h \in Handles, NEW args \in Arguments,
           NEW deletes, NEW exact,
           FiltersOf(args.interests) \cap deletes = {},
           RegisterOk(h, FiltersOf(args.interests), deletes, args, exact),
           h \notin unsettled' =>
              \A f \in Filters \ FiltersOf(args.interests) :
                  f \in deletes \/ knotes[<<h, f>>] = None
    PROVE  Agree' /\ DueActive'
<1> DEFINE adds == FiltersOf(args.interests)
<1>1. args # None
    BY NewKnote
<1>2. Change(h, adds, args, deletes) /\ adds \cap deletes = {}
    BY DEF RegisterOk
<1>3. /\ wanted' = [wanted EXCEPT ![h] = args] /\ fresh' = [fresh EXCEPT ![h] = cond[h]]
      /\ cond' = cond
      /\ got' = [k \in Handles \X Filters |-> IF k[1] = h THEN 0 ELSE got[k]]
      /\ \A g \in Handles : g # h => (g \in unsettled' <=> g \in unsettled)
    BY DEF RegisterOk, Granted
<1> HIDE DEF adds
<1>4. /\ \A g \in Handles, f \in Filters :
            g # h => /\ knotes'[<<g, f>>] = knotes[<<g, f>>]
                     /\ inForce'[<<g, f>>] = inForce[<<g, f>>]
                     /\ Active(g, f) => <<g, f>> \in Range(active')
      /\ \A f \in Filters :
            /\ f \in adds => knotes'[<<h, f>>] = NewKevent(args.id, inForce'[<<h, f>>])
            /\ f \in adds /\ Found(h, f) # {} => <<h, f>> \in Range(active')
            /\ f \notin adds /\ f \in deletes => knotes'[<<h, f>>] = None
            /\ f \notin adds /\ f \notin deletes => knotes'[<<h, f>>] = knotes[<<h, f>>]
    BY <1>1, <1>2, ChangeKnotes
<1>5. wanted'[h] = args /\ fresh'[h] = cond[h] /\ cond'[h] = cond[h]
    BY <1>3 DEF TypeOK, SharedTypeOK
<1>6. ASSUME NEW g \in Handles, g # h
      PROVE  wanted'[g] = wanted[g] /\ fresh'[g] = fresh[g] /\ cond'[g] = cond[g]
    BY <1>3, <1>6 DEF TypeOK, SharedTypeOK
<1>7. \A g \in Handles, f \in Filters : got'[<<g, f>>] = IF g = h THEN 0 ELSE got[<<g, f>>]
    BY <1>3
<1>8. ASSUME NEW f \in Filters, h \notin unsettled' PROVE Current(h, f)'
    BY <1>4, <1>5, <1>7, <1>8 DEF Current, Opt, adds
<1>9. ASSUME NEW g \in Handles, NEW f \in Filters, g # h
      PROVE  Current(g, f)' <=> Current(g, f)
    BY <1>4, <1>6, <1>7, <1>9 DEF Current, Opt
<1>10. Agree'
    BY <1>1, <1>3, <1>4, <1>5, <1>6, <1>8, <1>9 DEF Agree
<1>11. ASSUME NEW f \in Filters, h \notin unsettled', knotes'[<<h, f>>] # None,
              DueFor(h, f)' # {}
       PROVE  <<h, f>> \in Range(active')
  <2>1. DueFor(h, f)' = cond[h] \cap Triggers(f)
      BY <1>5 DEF DueFor
  <2>2. f \in adds
      BY <1>4, <1>11 DEF adds
  <2> QED
      BY <1>4, <1>11, <2>1, <2>2 DEF Found
<1>12. ASSUME NEW g \in Handles, NEW f \in Filters, g # h PROVE DueFor(g, f)' = DueFor(g, f)
    BY <1>4, <1>6, <1>12 DEF DueFor, Opt
<1>13. DueActive'
    BY <1>3, <1>4, <1>6, <1>11, <1>12 DEF DueActive, Active
<1> QED
    BY <1>10, <1>13

\* Whatever a step does to the knotes of handle h, the others are not concerned.
LEMMA OthersStay ==
    ASSUME TypeOK, Agree, DueActive, NEW h \in Handles,
           \A g \in Handles : g # h =>
              /\ wanted'[g] = wanted[g] /\ fresh'[g] = fresh[g] /\ cond'[g] = cond[g]
              /\ g \in unsettled' <=> g \in unsettled,
           \A g \in Handles, f \in Filters : g # h =>
              /\ knotes'[<<g, f>>] = knotes[<<g, f>>] /\ got'[<<g, f>>] = got[<<g, f>>]
              /\ inForce'[<<g, f>>] = inForce[<<g, f>>]
              /\ Active(g, f) => <<g, f>> \in Range(active'),
           h \notin unsettled' => \A f \in Filters :
              /\ IF wanted'[h] = None THEN knotes'[<<h, f>>] = None ELSE Current(h, f)'
              /\ wanted'[h] # None /\ knotes'[<<h, f>>] # None /\ DueFor(h, f)' # {}
                    => <<h, f>> \in Range(active')
    PROVE  Agree' /\ DueActive'
<1>1. ASSUME NEW g \in Handles, NEW f \in Filters, g # h
      PROVE  (Current(g, f)' <=> Current(g, f)) /\ DueFor(g, f)' = DueFor(g, f)
    BY <1>1 DEF Current, DueFor, Opt
<1>2. Agree'
    BY <1>1 DEF Agree
<1>3. DueActive'
    BY <1>1 DEF DueActive, Active
<1> QED
    BY <1>2, <1>3

\* Deregister leaves no knote.
LEMMA DeregisterAgrees ==
    ASSUME TypeOK, Agree, DueActive, NEW h \in Handles, RegisterOk(h, {}, Filters, None, TRUE)
    PROVE  Agree' /\ DueActive'
<1>1. Change(h, {}, None, Filters)
    BY DEF RegisterOk
<1>2. /\ \A g \in Handles, f \in Filters :
            g # h => /\ knotes'[<<g, f>>] = knotes[<<g, f>>]
                     /\ inForce'[<<g, f>>] = inForce[<<g, f>>]
                     /\ Active(g, f) => <<g, f>> \in Range(active')
      /\ \A f \in Filters : knotes'[<<h, f>>] = None
  <2> DEFINE adds == {}
  <2>1. Change(h, adds, None, Filters) /\ adds = {}
      BY <1>1
  <2> HIDE DEF adds
  <2> QED
      BY <2>1, ChangeKnotes
<1>3. /\ wanted' = [wanted EXCEPT ![h] = None] /\ fresh' = [fresh EXCEPT ![h] = cond[h]]
      /\ cond' = cond /\ unsettled' = unsettled \ {h}
      /\ got' = [k \in Handles \X Filters |-> IF k[1] = h THEN 0 ELSE got[k]]
    BY DEF RegisterOk, Granted
<1>4. ASSUME NEW g \in Handles, g # h
      PROVE  /\ wanted'[g] = wanted[g] /\ fresh'[g] = fresh[g] /\ cond'[g] = cond[g]
             /\ g \in unsettled' <=> g \in unsettled
             /\ \A f \in Filters : got'[<<g, f>>] = got[<<g, f>>]
    BY <1>3, <1>4 DEF TypeOK, SharedTypeOK
<1>5. wanted'[h] = None
    BY <1>3 DEF TypeOK, SharedTypeOK
<1> QED
    BY <1>2, <1>4, <1>5, OthersStay

\* A call that fails halfway leaves its handle unsettled.
LEMMA RegisterPartlyAgrees ==
    ASSUME TypeOK, Agree, DueActive, NEW h \in Handles, NEW args \in Arguments, NEW adds,
           NEW deletes, RegisterPartly(h, adds, deletes, args)
    PROVE  Agree' /\ DueActive'
<1>1. PICK failed \in SUBSET adds : Change(h, adds \ failed, args, deletes)
    BY DEF RegisterPartly
<1> DEFINE done == adds \ failed
<1>2. Change(h, done, args, deletes)
    BY <1>1
<1> HIDE DEF done
<1>3. \A g \in Handles, f \in Filters :
         g # h => /\ knotes'[<<g, f>>] = knotes[<<g, f>>]
                  /\ inForce'[<<g, f>>] = inForce[<<g, f>>]
                  /\ Active(g, f) => <<g, f>> \in Range(active')
    BY <1>2, ChangeKnotes
<1>4. /\ UNCHANGED <<wanted, fresh, cond>> /\ unsettled' = unsettled \cup {h}
      /\ got' = [k \in Handles \X Filters |-> IF k[1] = h THEN 0 ELSE got[k]]
    BY DEF RegisterPartly, Refused
<1>5. ASSUME NEW g \in Handles, g # h
      PROVE  \A f \in Filters : got'[<<g, f>>] = got[<<g, f>>]
    BY <1>4, <1>5
<1> QED
    BY <1>3, <1>4, <1>5, OthersStay

\* An event that is reported is the one that was asked for last.
LEMMA ReportCurrent ==
    ASSUME TypeOK, Agree, NEW h \in Handles, NEW f \in Filters, First(h, f), h \notin unsettled
    PROVE  /\ wanted[h] # None /\ wanted[h] \in Arguments
           /\ f \in FiltersOf(wanted[h].interests)
           /\ knotes[<<h, f>>] = NewKevent(wanted[h].id, Opt(h, f))
           /\ IsOneshot(Opt(h, f)) => got[<<h, f>>] = 0
<1>1. knotes[<<h, f>>] # None
    BY FirstKnote
<1>2. wanted[h] # None /\ Current(h, f)
    BY <1>1 DEF Agree
<1> QED
    BY <1>1, <1>2 DEF Current, TypeOK, SharedTypeOK

\* A knote leaves the queue with its event when it is deleted, or when what was
\* due has been reported; the other filter of its handle is told nothing less.
LEMMA SelectAgrees ==
    ASSUME TypeOK, Agree, DueActive, NEW h \in Handles, NEW f \in Filters, Select(h, f)
    PROVE  Agree' /\ DueActive'
<1> DEFINE k == <<h, f>>
           found == Found(h, f)
<1>1. /\ First(h, f) /\ UNCHANGED <<cond, wanted, inForce, unsettled>>
      /\ fresh' = [fresh EXCEPT ![h] = @ \ found]
      /\ got' = [got EXCEPT ![k] = IF h \notin unsettled /\ @ < 2 THEN @ + 1 ELSE @]
      /\ knotes' = IF "oneshot" \in knotes[k].flags THEN [knotes EXCEPT ![k] = None] ELSE knotes
    BY DEF Select, Reported
<1>2. \/ active' = Tail(active)
      \/ active' = Append(Tail(active), k)
    BY Zenon DEF Select
<1>3. "oneshot" \notin knotes[k].flags /\ "clear" \notin knotes[k].flags
         => active' = Append(Tail(active), k)
    BY Zenon DEF Select
<1>4. /\ Range(active) \ {k} \subseteq Range(active')
      /\ active' = Append(Tail(active), k) => k \in Range(active')
    BY <1>1, <1>2, FirstKnote DEF Active
<1> HIDE DEF k, found
<1>5. k \in Handles \X Filters /\ knotes[k] \in Knotes /\ knotes[k] # None
    BY <1>1, FirstKnote DEF k
<1>6. ASSUME NEW j \in Handles \X Filters, j # k
      PROVE  /\ knotes'[j] = knotes[j] /\ got'[j] = got[j]
             /\ j \in Range(active) => j \in Range(active')
    BY <1>1, <1>4, <1>6 DEF TypeOK
<1>7. ASSUME NEW g \in Handles, NEW c \in Filters, <<g, c>> # k
      PROVE  /\ <<g, c>> \in Handles \X Filters
             /\ knotes'[<<g, c>>] = knotes[<<g, c>>] /\ got'[<<g, c>>] = got[<<g, c>>]
             /\ Active(g, c) => <<g, c>> \in Range(active')
    BY <1>6, <1>7 DEF Active
<1>8. /\ fresh'[h] = fresh[h] \ found /\ fresh'[h] \subseteq fresh[h]
      /\ \A g \in Handles : g # h => fresh'[g] = fresh[g]
    BY <1>1 DEF TypeOK, SharedTypeOK
<1>9. ASSUME h \notin unsettled, NEW c \in Filters
      PROVE  /\ wanted[h] # None /\ Current(h, c)'
             /\ knotes'[<<h, c>>] # None /\ DueFor(h, c)' # {}
                   => <<h, c>> \in Range(active')
  <2>1. /\ wanted[h] # None /\ wanted[h] \in Arguments
        /\ f \in FiltersOf(wanted[h].interests)
        /\ knotes[k] = NewKevent(wanted[h].id, Opt(h, f))
        /\ IsOneshot(Opt(h, f)) => got[k] = 0
      BY <1>1, <1>9, ReportCurrent DEF k
  <2>2. /\ "oneshot" \in knotes[k].flags <=> IsOneshot(Opt(h, f))
        /\ "clear" \in knotes[k].flags <=> IsEdge(Opt(h, f))
      BY <2>1 DEF NewKevent, OptToFlags
  <2>3. CASE c # f
    <3>1. <<h, c>> # k
        BY <2>3 DEF k
    <3>2. Current(h, c)' <=> Current(h, c)
        BY <1>1, <1>7, <3>1 DEF Current, Opt
    <3>3. DueFor(h, c)' \subseteq DueFor(h, c)
        BY <1>1, <1>8 DEF DueFor, Opt
    <3> QED
        BY <1>1, <1>7, <1>9, <2>1, <3>1, <3>2, <3>3 DEF Agree, DueActive
  <2>4. CASE c = f /\ IsOneshot(Opt(h, f))
    <3>1. knotes'[k] = None
        BY <1>1, <1>5, <2>2, <2>4 DEF TypeOK
    <3>2. got'[k] = 1
        BY <1>1, <1>5, <1>9, <2>1, <2>4 DEF TypeOK
    <3> QED
        BY <1>1, <2>1, <2>4, <3>1, <3>2 DEF Current, Opt, k
  <2>5. CASE c = f /\ ~IsOneshot(Opt(h, f))
    <3>1. knotes' = knotes
        BY <1>1, <2>2, <2>5
    <3>2. Current(h, f)'
        BY <1>1, <2>1, <2>5, <3>1 DEF Current, Opt, k
    <3>3. CASE IsEdge(Opt(h, f))
      <4>1. /\ DueFor(h, f)' = (fresh[h] \ found) \cap Triggers(f)
            /\ found = cond[h] \cap Triggers(f) /\ fresh[h] \subseteq cond[h]
          BY <1>1, <1>8, <3>3 DEF DueFor, Opt, found, Found, TypeOK, SharedTypeOK
      <4> QED
          BY <2>1, <2>5, <3>2, <4>1
    <3>4. CASE ~IsEdge(Opt(h, f))
        BY <1>3, <1>4, <2>1, <2>2, <2>5, <3>2, <3>4 DEF k
    <3> QED
        BY <3>3, <3>4
  <2> QED
      BY <2>3, <2>4, <2>5
<1>10. ASSUME NEW g \in Handles, NEW c \in Filters, g # h
       PROVE  /\ knotes'[<<g, c>>] = knotes[<<g, c>>] /\ got'[<<g, c>>] = got[<<g, c>>]
              /\ inForce'[<<g, c>>] = inForce[<<g, c>>]
              /\ Active(g, c) => <<g, c>> \in Range(active')
    BY <1>1, <1>7, <1>10 DEF k
<1> QED
    BY <1>1, <1>8, <1>9, <1>10, OthersStay

\* Every step keeps the agreement of the kernel with the last calls, and every
\* knote that is due in the queue.
LEMMA AgreeStep ==
    TypeOK /\ MadeAs /\ Agree /\ DueActive /\ [Next]_vars => Agree' /\ DueActive'
<1> SUFFICES ASSUME TypeOK, MadeAs, Agree, DueActive, [Next]_vars PROVE Agree' /\ DueActive'
    OBVIOUS
<1>1. ASSUME UNCHANGED <<cond, fresh, wanted, knotes, active, inForce, got, unsettled>>
      PROVE  Agree' /\ DueActive'
    BY <1>1 DEF Agree, Current, DueActive, DueFor, Opt, Active
<1>2. RegisterFails \/ UNCHANGED vars
         => UNCHANGED <<cond, fresh, wanted, knotes, active, inForce, got, unsettled>>
    BY DEF RegisterFails, Refused, vars, sharedVars
<1>3. ASSUME NEW h \in Handles, NEW args \in Arguments, Register(h, args)
      PROVE  Agree' /\ DueActive'
  <2> DEFINE adds == FiltersOf(args.interests)
             exact == \A f \in Filters : knotes[<<h, f>>] = None
  <2>1. CASE RegisterOk(h, adds, {}, args, exact)
    <3>1. h \notin unsettled' => exact
        BY <2>1 DEF RegisterOk
    <3>2. adds \cap {} = {}
        OBVIOUS
    <3> QED
        BY <2>1, <3>1, <3>2, RegisterOkAgrees
  <2>2. CASE RegisterPartly(h, adds, {}, args)
      BY <2>2, RegisterPartlyAgrees
  <2> QED
      BY <1>1, <1>2, <1>3, <2>1, <2>2 DEF Register
<1>4. ASSUME NEW h \in Handles, NEW args \in Arguments, Reregister(h, args)
      PROVE  Agree' /\ DueActive'
  <2> DEFINE adds == FiltersOf(args.interests)
  <2>1. CASE RegisterOk(h, adds, Filters \ adds, args, TRUE)
    <3>1. adds \cap (Filters \ adds) = {}
        OBVIOUS
    <3> QED
        BY <2>1, <3>1, RegisterOkAgrees
  <2>2. CASE RegisterPartly(h, adds, Filters \ adds, args)
      BY <2>2, RegisterPartlyAgrees
  <2> QED
      BY <1>1, <1>2, <1>4, <2>1, <2>2 DEF Reregister
<1>5. ASSUME NEW h \in Handles, Deregister(h) PROVE Agree' /\ DueActive'
    BY <1>1, <1>2, <1>5, DeregisterAgrees DEF Deregister
<1>6. ASSUME NEW h \in Handles, NEW c \in Conditions, Arises(h, c) PROVE Agree' /\ DueActive'
  <2> DEFINE ready == {f \in Filters : c \in Triggers(f) /\ knotes[<<h, f>>] # None}
  <2>1. /\ UNCHANGED <<wanted, knotes, inForce, got, unsettled>> /\ active' = Requeue(h, ready, {})
        /\ cond' = [cond EXCEPT ![h] = @ \cup {c}] /\ fresh' = [fresh EXCEPT ![h] = @ \cup {c}]
      BY <1>6 DEF Arises, Arose
  <2>2. \A f \in ready : <<h, f>> \in KnotesOf(h, ready)
      BY DEF KnotesOf
  <2>3. KnotesOf(h, {}) = {}
      BY DEF KnotesOf
  <2>4. Range(active') = (Range(active) \ KnotesOf(h, {})) \cup KnotesOf(h, ready)
    <3> HIDE DEF ready
    <3> QED
        BY <2>1, RequeueOnce, Zenon
  <2>5. /\ \A f \in Filters : DueFor(h, f)' = DueFor(h, f) \cup ({c} \cap Triggers(f))
        /\ \A g \in Handles, f \in Filters : g # h => DueFor(g, f)' = DueFor(g, f)
      BY <2>1 DEF DueFor, Opt, TypeOK, SharedTypeOK
  <2>6. Agree'
      BY <2>1 DEF Agree, Current, Opt
  <2>7. DueActive'
      BY <2>1, <2>2, <2>3, <2>4, <2>5 DEF DueActive, Active
  <2> QED
      BY <2>6, <2>7
<1>7. ASSUME NEW h \in Handles, NEW c \in Conditions, Goes(h, c) PROVE Agree' /\ DueActive'
  <2>1. UNCHANGED <<wanted, knotes, active, inForce, got, unsettled>>
      BY <1>7 DEF Goes, Went
  <2>2. \A g \in Handles, f \in Filters : DueFor(g, f)' \subseteq DueFor(g, f)
      BY <1>7, <2>1 DEF Goes, Went, DueFor, Opt, TypeOK, SharedTypeOK
  <2> QED
      BY <2>1, <2>2 DEF Agree, Current, Opt, DueActive, Active
<1>8. ASSUME NEW h \in Handles, NEW f \in Filters, WaitDrops(h, f) PROVE Agree' /\ DueActive'
  <2>1. /\ UNCHANGED <<cond, fresh, wanted, knotes, inForce, got, unsettled>>
        /\ First(h, f) /\ Found(h, f) = {} /\ active' = Tail(active)
      BY <1>8 DEF WaitDrops
  <2>2. Range(active') = Range(active) \ {<<h, f>>}
      BY <2>1, FirstKnote, Zenon
  <2>3. DueFor(h, f) = {}
      BY <2>1 DEF Found, DueFor, TypeOK, SharedTypeOK
  <2>4. Agree'
      BY <2>1 DEF Agree, Current, Opt
  <2>5. DueActive'
    <3>1. ASSUME NEW g \in Handles, NEW c \in Filters, <<g, c>> \in Range(active),
                 DueFor(g, c) # {}
          PROVE  <<g, c>> \in Range(active')
        BY <2>2, <2>3, <3>1
    <3> QED
        BY <2>1, <3>1 DEF DueActive, Active, DueFor, Opt
  <2> QED
      BY <2>4, <2>5
<1> QED
    BY <1>1, <1>2, <1>3, <1>4, <1>5, <1>6, <1>7, <1>8, SelectAgrees
       DEF Next, Calls, Surroundings, Wait

\* There are no knotes at first.
LEMMA AgreeInit == Init => MadeAs /\ Agree /\ DueActive
    BY DEF Init, SharedInit, MadeAs, Agree, DueActive

-----------------------------------------------------------------------------
(* The theorems.                                                           *)

\* A filter that is owed an event is active, however calls, those that fail
\* halfway too, conditions and polls follow each other.
THEOREM NothingIsMissed == Spec => []NothingMissed
<1>1. TypeOK /\ Agree /\ DueActive => NothingMissed
  <2> SUFFICES ASSUME TypeOK, Agree, DueActive, NEW h \in Handles, NEW f \in Filters, Owed(h, f)
               PROVE  Active(h, f)
      BY DEF NothingMissed
  <2>1. wanted[h] # None /\ wanted[h] \in Arguments /\ h \notin unsettled /\ Current(h, f)
      BY DEF Owed, Agree, TypeOK, SharedTypeOK
  <2>2. /\ knotes[<<h, f>>] = NewKevent(wanted[h].id, Opt(h, f))
        /\ wanted[h].id \in Ids
      BY <2>1 DEF Owed, Current, Arguments
  <2>3. knotes[<<h, f>>] \in Knotes
      BY <2>2 DEF NewKevent, OptToFlags, Knotes
  <2>4. knotes[<<h, f>>] # None
      BY <2>3, KqueueAssumption
  <2> QED
      BY <2>1, <2>4 DEF Owed, DueActive
<1> QED
    BY <1>1, AgreeInit, TypeInvariant, MadeAsStep, AgreeStep, PTL DEF Spec

\* Each filter that was added as oneshot gets a single event until its handle is
\* reregistered, also if later calls that found its knote gave another option.
THEOREM OneshotFiresOnce == Spec => []OneshotOnce
<1>1. TypeOK /\ Agree => OneshotOnce
    BY DEF Agree, Current, OneshotOnce, TypeOK
<1> QED
    BY <1>1, AgreeInit, TypeInvariant, MadeAsStep, AgreeStep, PTL DEF Spec

\* A poll reports with the id and for the filter of a knote the caller asked for
\* last, if its handle is settled; every other step returns no event.
LEMMA EventsCurrentStep ==
    TypeOK /\ Agree /\ EventsCurrent /\ [Next]_vars => EventsCurrent'
<1> SUFFICES ASSUME TypeOK, Agree, EventsCurrent, [Next]_vars PROVE EventsCurrent'
    OBVIOUS
<1>1. ASSUME last' = None PROVE EventsCurrent'
    BY <1>1 DEF EventsCurrent
<1>2. ASSUME NEW h \in Handles, NEW f \in Filters, Select(h, f) PROVE EventsCurrent'
  <2> DEFINE e == KeventToEvent(knotes[<<h, f>>].id, f, Found(h, f))
  <2>1. /\ First(h, f) /\ UNCHANGED <<wanted, unsettled>>
        /\ last' = [handle |-> h, id |-> e.id, ready |-> e.ready]
      BY <1>2 DEF Select, Reported
  <2>2. ASSUME h \notin unsettled
        PROVE  /\ wanted[h] # None /\ e.id = wanted[h].id
               /\ e.ready \cap {"readable", "writable"} \subseteq wanted[h].interests
    <3>1. /\ wanted[h] # None /\ f \in FiltersOf(wanted[h].interests)
          /\ knotes[<<h, f>>] = NewKevent(wanted[h].id, Opt(h, f))
        BY <2>1, <2>2, ReportCurrent
    <3> QED
        BY <3>1 DEF KeventToEvent, NewKevent, FiltersOf, Filters
  <2> HIDE DEF e
  <2> QED
      BY <2>1, <2>2 DEF EventsCurrent
<1>3. ASSUME NEW h \in Handles, NEW f \in Filters, WaitDrops(h, f) PROVE last' = None
    BY <1>3 DEF WaitDrops
<1>4. RegisterFails => last' = None
    BY DEF RegisterFails, Refused
<1>5. ASSUME NEW h \in Handles, NEW args \in Arguments, Register(h, args) \/ Reregister(h, args)
      PROVE  last' = None
    BY <1>4, <1>5 DEF Register, Reregister, RegisterOk, RegisterPartly, Granted, Refused
<1>6. ASSUME NEW h \in Handles, Deregister(h) PROVE last' = None
    BY <1>4, <1>6 DEF Deregister, RegisterOk, Granted
<1>7. ASSUME NEW h \in Handles, NEW c \in Conditions, Arises(h, c) \/ Goes(h, c) PROVE last' = None
    BY <1>7 DEF Arises, Arose, Goes, Went
<1>8. ASSUME UNCHANGED vars PROVE EventsCurrent'
    BY <1>8 DEF EventsCurrent, vars, sharedVars
<1> QED
    BY <1>1, <1>2, <1>3, <1>5, <1>6, <1>7, <1>8 DEF Next, Calls, Surroundings, Wait

\* Once a reregister or a deregister returned Ok, whatever calls failed before it,
\* every event has the id and is for an operation the caller asked for last.
THEOREM EventsAreCurrent == Spec => []EventsCurrent
<1>1. Init => EventsCurrent
    BY DEF Init, SharedInit, EventsCurrent
<1> QED
    BY <1>1, AgreeInit, TypeInvariant, MadeAsStep, AgreeStep, EventsCurrentStep, PTL DEF Spec
==============================================================================
