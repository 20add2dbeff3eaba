--------------------------- MODULE KqueueUserProofs ---------------------------
(***************************************************************************)
(* The Awakener and the Signals of kqueue, for any threads, Signals, sets  *)
(* and bounds: wakes are neither lost nor made up, a signal stays with     *)
(* every open Signals until it is received, and a Signals that is gone     *)
(* leaves nothing behind.                                                  *)
(***************************************************************************)
EXTENDS KqueueUser, SequenceTheorems, FiniteSetTheorems, TLAPS

-----------------------------------------------------------------------------
(* Lists without repetitions.                                              *)

\* w is s without its element at position k.
IsCut(w, s, k) ==
    /\ Len(w) = Len(s) - 1
    /\ \A i \in 1..(Len(s) - 1) : w[i] = IF i < k THEN s[i] ELSE s[i + 1]

\* Taking out one element of a list.
LEMMA CutOut ==
    ASSUME NEW S, NEW s \in Seq(S), NEW w \in Seq(S), IsInjective(s),
           NEW k \in 1..Len(s), IsCut(w, s, k)
    PROVE  IsInjective(w) /\ Range(w) = Range(s) \ {s[k]}
<1>1. Len(s) \in Nat /\ DOMAIN s = 1..Len(s) /\ DOMAIN w = 1..(Len(s) - 1)
    BY LenProperties DEF IsCut
<1>2. \A i, j \in 1..Len(s) : s[i] = s[j] => i = j
    BY <1>1 DEF IsInjective
<1>3. IsInjective(w)
    BY <1>1, <1>2 DEF IsInjective, IsCut
<1>4. ASSUME NEW i \in 1..(Len(s) - 1) PROVE w[i] \in Range(s) /\ w[i] # s[k]
    BY <1>1, <1>2 DEF Range, IsCut
<1>5. ASSUME NEW i \in 1..Len(s), i # k PROVE s[i] \in Range(w)
  <2>1. CASE i < k
      BY <1>1, <2>1 DEF Range, IsCut
  <2>2. CASE i > k
    <3>1. i - 1 \in 1..(Len(s) - 1) /\ w[i - 1] = s[i]
        BY <1>1, <2>2 DEF IsCut
    <3> QED
        BY <1>1, <3>1 DEF Range
  <2> QED
      BY <1>1, <1>5, <2>1, <2>2
<1>6. \A x : x \in Range(w) => x \in Range(s) /\ x # s[k]
    BY <1>1, <1>4 DEF Range
<1>7. \A x : x \in Range(s) /\ x # s[k] => x \in Range(w)
    BY <1>1, <1>5 DEF Range
<1> QED
    BY <1>3, <1>6, <1>7

\* Taking the first knote off a queue without repetitions leaves one without
\* repetitions, and without that knote.
LEMMA TailOnce ==
    ASSUME NEW S, NEW s \in Seq(S), IsInjective(s), s # <<>>
    PROVE  /\ Head(s) \in S /\ Head(s) \in Range(s) /\ Tail(s) \in Seq(S)
           /\ IsInjective(Tail(s)) /\ Range(Tail(s)) = Range(s) \ {Head(s)}
<1>1. /\ Len(s) \in Nat /\ 1 \in 1..Len(s) /\ DOMAIN s = 1..Len(s)
      /\ Head(s) = s[1] /\ Head(s) \in S
    BY LenProperties, EmptySeq, HeadTailProperties
<1>2. /\ Tail(s) \in Seq(S) /\ Len(Tail(s)) = Len(s) - 1
      /\ \A i \in 1..(Len(s) - 1) : Tail(s)[i] = s[i + 1]
    BY <1>1, HeadTailProperties
<1>3. IsCut(Tail(s), s, 1)
    BY <1>2 DEF IsCut
<1>4. IsInjective(Tail(s)) /\ Range(Tail(s)) = Range(s) \ {s[1]}
  <2> DEFINE r == Tail(s)
  <2> HIDE DEF r
  <2>1. r \in Seq(S) /\ IsCut(r, s, 1)
      BY <1>2, <1>3 DEF r
  <2>2. IsInjective(r) /\ Range(r) = Range(s) \ {s[1]}
      BY <1>1, <2>1, CutOut
  <2> QED
      BY <2>2 DEF r
<1> QED
    BY <1>1, <1>2, <1>4 DEF Range

\* Appending a knote that a queue does not hold adds it once.
LEMMA AppendOnce ==
    ASSUME NEW S, NEW s \in Seq(S), IsInjective(s), NEW e \in S, e \notin Range(s)
    PROVE  /\ Append(s, e) \in Seq(S) /\ IsInjective(Append(s, e))
           /\ Range(Append(s, e)) = Range(s) \cup {e}
<1>1. /\ Append(s, e) \in Seq(S) /\ Len(Append(s, e)) = Len(s) + 1 /\ Len(s) \in Nat
      /\ \A i \in 1..Len(s) : Append(s, e)[i] = s[i]
      /\ Append(s, e)[Len(s) + 1] = e
    BY AppendProperties, LenProperties
<1>2. DOMAIN s = 1..Len(s) /\ DOMAIN Append(s, e) = 1..(Len(s) + 1)
    BY <1>1, LenProperties
<1>3. Range(Append(s, e)) = Range(s) \cup {e}
    BY <1>1, <1>2 DEF Range
<1>4. IsInjective(Append(s, e))
    BY <1>1, <1>2 DEF IsInjective, Range
<1> QED
    BY <1>1, <1>3, <1>4

\* Putting the first element back at the end.
LEMMA RotateOnce ==
    ASSUME NEW S, NEW s \in Seq(S), IsInjective(s), s # <<>>
    PROVE  /\ Append(Tail(s), Head(s)) \in Seq(S) /\ IsInjective(Append(Tail(s), Head(s)))
           /\ Range(Append(Tail(s), Head(s))) = Range(s)
<1> DEFINE h == Head(s)
           r == Tail(s)
<1>1. h \in S /\ h \in Range(s) /\ r \in Seq(S) /\ IsInjective(r) /\ Range(r) = Range(s) \ {h}
    BY TailOnce, Zenon
<1> HIDE DEF h, r
<1>2. h \in S /\ r \in Seq(S) /\ IsInjective(r) /\ h \notin Range(r)
    BY <1>1
<1>3. /\ Append(r, h) \in Seq(S) /\ IsInjective(Append(r, h))
      /\ Range(Append(r, h)) = Range(r) \cup {h}
    BY <1>2, AppendOnce, Zenon
<1>4. Range(Append(r, h)) = Range(s)
    BY <1>1, <1>3
<1> QED
    BY <1>3, <1>4, Zenon DEF h, r

\* One list after another that has nothing in common with it.
LEMMA ConcatOnce ==
    ASSUME NEW S, NEW s \in Seq(S), NEW t \in Seq(S),
           IsInjective(s), IsInjective(t), Range(s) \cap Range(t) = {}
    PROVE  /\ s \o t \in Seq(S) /\ IsInjective(s \o t)
           /\ Range(s \o t) = Range(s) \cup Range(t)
<1> DEFINE c == s \o t
<1>1. /\ Len(s) \in Nat /\ Len(t) \in Nat /\ DOMAIN s = 1..Len(s) /\ DOMAIN t = 1..Len(t)
    BY LenProperties
<1>2. /\ c \in Seq(S) /\ Len(c) = Len(s) + Len(t)
      /\ \A i \in 1..(Len(s) + Len(t)) : c[i] = IF i <= Len(s) THEN s[i] ELSE t[i - Len(s)]
    BY ConcatProperties
<1> HIDE DEF c
<1>3. DOMAIN c = 1..(Len(s) + Len(t))
    BY <1>2, LenProperties
<1>4. \A i \in 1..Len(s) : i \in DOMAIN c /\ c[i] = s[i]
    BY <1>1, <1>2, <1>3
<1>5. \A i \in 1..Len(t) : Len(s) + i \in DOMAIN c /\ c[Len(s) + i] = t[i]
    BY <1>1, <1>2, <1>3
<1>6. \A n \in DOMAIN c :
         (\E i \in 1..Len(s) : n = i) \/ (\E i \in 1..Len(t) : n = Len(s) + i)
  <2>1. ASSUME NEW n \in DOMAIN c, ~(n \in 1..Len(s)) PROVE n - Len(s) \in 1..Len(t) /\ n = Len(s) + (n - Len(s))
      BY <1>1, <1>3, <2>1
  <2> QED
      BY <2>1
<1>7. Range(c) = Range(s) \cup Range(t)
  <2>1. ASSUME NEW n \in DOMAIN c PROVE c[n] \in Range(s) \cup Range(t)
    <3>1. CASE \E i \in 1..Len(s) : n = i
        BY <1>1, <1>4, <3>1 DEF Range
    <3>2. CASE \E i \in 1..Len(t) : n = Len(s) + i
        BY <1>1, <1>5, <3>2 DEF Range
    <3> QED
        BY <1>6, <3>1, <3>2
  <2>2. \A x : x \in Range(s) => x \in Range(c)
      BY <1>1, <1>4 DEF Range
  <2>3. \A x : x \in Range(t) => x \in Range(c)
      BY <1>1, <1>5 DEF Range
  <2> QED
      BY <2>1, <2>2, <2>3 DEF Range
<1>8. ASSUME NEW m \in DOMAIN c, NEW n \in DOMAIN c, c[m] = c[n] PROVE m = n
  <2>1. CASE \E i, j \in 1..Len(s) : m = i /\ n = j
      BY <1>1, <1>4, <1>8, <2>1 DEF IsInjective
  <2>2. CASE \E i, j \in 1..Len(t) : m = Len(s) + i /\ n = Len(s) + j
      BY <1>1, <1>5, <1>8, <2>2 DEF IsInjective
  <2>3. ASSUME NEW i \in 1..Len(s), NEW j \in 1..Len(t), c[i] = c[Len(s) + j] PROVE FALSE
    <3>1. s[i] = t[j]
        BY <1>4, <1>5, <2>3
    <3> QED
        BY <1>1, <3>1 DEF Range
  <2> QED
      BY <1>6, <1>8, <2>1, <2>2, <2>3
<1> QED
    BY <1>2, <1>7, <1>8 DEF IsInjective, c

-----------------------------------------------------------------------------
(* The queue of active knotes.                                             *)

Knotes == Instances \cup {"user"}

\* What TypeOK says of the queue.
QueueOK == active \in Seq(Knotes) /\ IsInjective(active)

\* The type invariant has the type of the queue.
LEMMA QueueTypeOK == TypeOK => QueueOK
BY DEF TypeOK, QueueOK, Knotes

\* Making a knote active.
LEMMA ActivateOnce ==
    ASSUME QueueOK, NEW k \in Knotes
    PROVE  /\ Activate(k) \in Seq(Knotes) /\ IsInjective(Activate(k))
           /\ Range(Activate(k)) = Range(active) \cup {k}
<1>1. CASE k \in Range(active)
    BY <1>1 DEF QueueOK, Activate, Active
<1>2. CASE k \notin Range(active)
  <2>1. active \in Seq(Knotes) /\ IsInjective(active)
      BY DEF QueueOK
  <2>2. /\ Append(active, k) \in Seq(Knotes) /\ IsInjective(Append(active, k))
        /\ Range(Append(active, k)) = Range(active) \cup {k}
      BY <1>2, <2>1, AppendOnce, Zenon
  <2> QED
      BY <1>2, <2>2 DEF Activate, Active
<1> QED
    BY <1>1, <1>2

\* Taking a knote out of the queue.
LEMMA DeactivateOnce ==
    ASSUME QueueOK, NEW k
    PROVE  /\ Deactivate(k) \in Seq(Knotes) /\ IsInjective(Deactivate(k))
           /\ Range(Deactivate(k)) = Range(active) \ {k}
<1> DEFINE s == active
           S == Knotes
<1>0. s \in Seq(S) /\ IsInjective(s)
    BY DEF QueueOK
<1>1. CASE k \in Range(s)
  <2>1. Len(s) \in Nat /\ DOMAIN s = 1..Len(s) /\ \A i \in 1..Len(s) : s[i] \in S
      BY <1>0, LenProperties, ElementOfSeq
  <2>2. PICK j \in 1..Len(s) :
           /\ s[j] = k
           /\ Deactivate(k) = [i \in 1..(Len(s) - 1) |-> IF i < j THEN s[i] ELSE s[i + 1]]
      BY <1>1, <2>1 DEF Range, Deactivate, Active
  <2> DEFINE w == [i \in 1..(Len(s) - 1) |-> IF i < j THEN s[i] ELSE s[i + 1]]
  <2>3. Len(s) - 1 \in Nat /\ w \in [1..(Len(s) - 1) -> S]
      BY <2>1, <2>2
  <2>4. \A i \in 1..(Len(s) - 1) : w[i] = IF i < j THEN s[i] ELSE s[i + 1]
      OBVIOUS
  <2> HIDE DEF w
  <2>5. w \in Seq(S)
      BY <2>3, SeqDef
  <2>6. DOMAIN w = 1..(Len(s) - 1) /\ DOMAIN w = 1..Len(w) /\ Len(w) \in Nat
      BY <2>3, <2>5, LenProperties
  <2>7. IsCut(w, s, j)
      BY <2>3, <2>4, <2>6 DEF IsCut
  <2>8. IsInjective(w) /\ Range(w) = Range(s) \ {s[j]}
      BY <1>0, <2>2, <2>5, <2>7, CutOut
  <2> QED
      BY <2>2, <2>5, <2>8 DEF w
<1>2. CASE k \notin Range(s)
    BY <1>0, <1>2 DEF Deactivate, Active
<1> QED
    BY <1>1, <1>2

\* Taking the first knote off the queue.
LEMMA PopOnce ==
    ASSUME QueueOK, active # <<>>
    PROVE  /\ Head(active) \in Knotes /\ Head(active) \in Range(active)
           /\ Tail(active) \in Seq(Knotes) /\ IsInjective(Tail(active))
           /\ Range(Tail(active)) = Range(active) \ {Head(active)}
<1>1. active \in Seq(Knotes) /\ IsInjective(active)
    BY DEF QueueOK
<1> QED
    BY <1>1, TailOnce

\* Putting it back at the end.
LEMMA RequeueOnce ==
    ASSUME QueueOK, active # <<>>
    PROVE  LET again == Append(Tail(active), Head(active))
           IN  again \in Seq(Knotes) /\ IsInjective(again) /\ Range(again) = Range(active)
<1>1. active \in Seq(Knotes) /\ IsInjective(active)
    BY DEF QueueOK
<1> QED
    BY <1>1, RotateOnce

\* A list of Signals that are not active, put at the end.
LEMMA OrdersOnce ==
    ASSUME QueueOK, NEW S \in SUBSET Instances, S \cap Range(active) = {}, NEW order \in Orders(S)
    PROVE  /\ active \o order \in Seq(Knotes) /\ IsInjective(active \o order)
           /\ Range(active \o order) = Range(active) \cup S
<1>1. active \in Seq(Knotes) /\ IsInjective(active)
    BY DEF QueueOK
<1>2. Cardinality(S) \in Nat
  <2>1. IsFiniteSet(Instances)
      BY KqueueUserAssumption
  <2>2. IsFiniteSet(S)
      BY <2>1, FS_Subset
  <2> QED
      BY <2>2, FS_CardinalityType
<1>3. order \in [1..Cardinality(S) -> S] /\ IsInjective(order) /\ Range(order) = S
    BY DEF Orders
<1>4. order \in [1..Cardinality(S) -> Knotes]
    BY <1>3 DEF Knotes
<1>5. order \in Seq(Knotes)
    BY <1>2, <1>4, SeqDef
<1>6. Range(active) \cap Range(order) = {}
    BY <1>3
<1>7. /\ active \o order \in Seq(Knotes) /\ IsInjective(active \o order)
      /\ Range(active \o order) = Range(active) \cup Range(order)
    BY <1>1, <1>3, <1>5, <1>6, ConcatOnce
<1> QED
    BY <1>3, <1>7

-----------------------------------------------------------------------------
(* The inductive invariant.  The filter of the awakener is edge triggered, *)
(* so it is active from a wake to the event that reports it and no longer. *)
(* Of the Signals, only those whose kqueue is registered are active, and   *)
(* only those with knotes of signals have active ones.                     *)

\* The knote of the user filter, and what the threads wait for.
UserKnote ==
    /\ user \in {None, {"clear"}, {"clear", "triggered"}}
    /\ Active("user") <=> user = {"clear", "triggered"}
    /\ user = None => copies = {}
    /\ owed <=> Active("user")

\* The kqueue of a Signals and its registration.
OwnKqueue(i) ==
    /\ Active(i) => stage[i] \in {"registered", "open"}
    /\ raised[i] # {} => stage[i] \in {"signals", "registered", "open"}

OwnKqueues == \A i \in Instances : OwnKqueue(i)

Inv == TypeOK /\ UserKnote /\ OwnKqueues

\* The forms of the user filter, and the steps between them.
LEMMA UserForms ==
    /\ None # {"clear"} /\ None # {"clear", "triggered"}
    /\ {"clear"} # {"clear", "triggered"}
    /\ {"clear"} \cup {"triggered"} = {"clear", "triggered"}
    /\ {"clear", "triggered"} \cup {"triggered"} = {"clear", "triggered"}
    /\ {"clear", "triggered"} \ {"triggered"} = {"clear"}
<1>1. {"clear"} \in SUBSET {"clear", "triggered"}
    OBVIOUS
<1>2. {"clear", "triggered"} \in SUBSET {"clear", "triggered"}
    OBVIOUS
<1>3. None # {"clear"} /\ None # {"clear", "triggered"}
    BY <1>1, <1>2, KqueueUserAssumption
<1>4. "clear" # "triggered"
    OBVIOUS
<1> QED
    BY <1>3, <1>4

\* The steps of the awakener.
LEMMA AwakenerStep ==
    ASSUME Inv, NEW t \in Threads, New(t) \/ TryClone(t) \/ DropCopy(t) \/ Wake(t)
    PROVE  Inv'
<1>1. TypeOK /\ UserKnote /\ OwnKqueues /\ QueueOK
    BY QueueTypeOK DEF Inv
<1>2. CASE New(t) \/ TryClone(t) \/ DropCopy(t)
  <2>1. /\ UNCHANGED <<active, wakes, owed, events, stage, set, raised, todo,
                        running, mask, alive, sent, due>>
        /\ copies' \subseteq running
        /\ (user' = {"clear"} /\ user = None) \/ (user' = user /\ (user = None => copies' = {}))
      BY <1>1, <1>2
         DEF New, TryClone, DropCopy, SetupAwakener, signalVars, newVars, threadVars, TypeOK, UserKnote
  <2>2. /\ user' \in {None, {"clear"}, {"clear", "triggered"}}
        /\ (user' = {"clear", "triggered"}) <=> (user = {"clear", "triggered"})
        /\ user' = None => copies' = {}
        /\ user # None => user' # None
      BY <1>1, <2>1, UserForms DEF UserKnote
  <2>3. user' \in (SUBSET {"clear", "triggered"}) \cup {None}
      BY <2>2
  <2>4. TypeOK'
      BY <1>1, <2>1, <2>2, <2>3 DEF TypeOK, Active
  <2>5. UserKnote'
      BY <1>1, <2>1, <2>2 DEF UserKnote, Active
  <2>6. OwnKqueues'
      BY <1>1, <2>1 DEF OwnKqueues, OwnKqueue, Active
  <2> QED
      BY <2>4, <2>5, <2>6 DEF Inv
<1>3. CASE Wake(t)
  <2>1. /\ UNCHANGED <<copies, events, stage, set, raised, todo, running, mask, alive, sent, due>>
        /\ wakes < MaxWakes /\ wakes' = wakes + 1 /\ owed' = TRUE /\ copies # {}
        /\ user' = user \cup {"triggered"} /\ active' = Activate("user")
      BY <1>3 DEF Wake, signalVars, newVars, threadVars
  <2>2. user' = {"clear", "triggered"} /\ user # None
    <3>1. user = {"clear"} \/ user = {"clear", "triggered"}
        BY <1>1, <2>1 DEF UserKnote
    <3> QED
        BY <2>1, <3>1, UserForms
  <2>3. /\ active' \in Seq(Knotes) /\ IsInjective(active')
        /\ Range(active') = Range(active) \cup {"user"}
    <3>1. QueueOK /\ "user" \in Knotes
        BY <1>1 DEF Knotes
    <3> QED
        BY <2>1, <3>1, ActivateOnce
  <2>4. TypeOK'
    <3>1. wakes' \in 0..MaxWakes
        BY <1>1, <2>1, KqueueUserAssumption DEF TypeOK
    <3>2. user' \in (SUBSET {"clear", "triggered"}) \cup {None} /\ user' # None
        BY <2>2, UserForms
    <3> QED
        BY <1>1, <2>1, <2>3, <3>1, <3>2 DEF TypeOK, Knotes, Active
  <2>5. UserKnote'
      BY <2>1, <2>2, <2>3, UserForms DEF UserKnote, Active
  <2>6. OwnKqueues'
      BY <1>1, <2>1, <2>3, KqueueUserAssumption DEF OwnKqueues, OwnKqueue, Active
  <2> QED
      BY <2>4, <2>5, <2>6 DEF Inv
<1> QED
    BY <1>2, <1>3

\* The poller gets the awakener's event: EV_CLEAR takes the filter off the queue.
LEMMA PollUserStep ==
    ASSUME Inv, PollUser
    PROVE  Inv' /\ owed
<1>1. TypeOK /\ UserKnote /\ OwnKqueues /\ QueueOK
    BY QueueTypeOK DEF Inv
<1>2. /\ UNCHANGED <<copies, wakes, stage, set, raised, todo, running, mask, alive, sent, due>>
      /\ active # <<>> /\ Head(active) = "user" /\ events' = events + 1 /\ owed' = FALSE
    BY DEF PollUser, signalVars, newVars, threadVars
<1>3. /\ "user" \in Range(active)
      /\ Tail(active) \in Seq(Knotes) /\ IsInjective(Tail(active))
      /\ Range(Tail(active)) = Range(active) \ {"user"}
    BY <1>1, <1>2, PopOnce
<1>4. user = {"clear", "triggered"} /\ owed
    BY <1>1, <1>3 DEF UserKnote, Active
<1>5. user' = {"clear"} /\ active' = Tail(active)
    BY <1>4, UserForms DEF PollUser
<1>6. TypeOK'
  <2>1. events' \in Nat
      BY <1>1, <1>2 DEF TypeOK
  <2>2. user' \in (SUBSET {"clear", "triggered"}) \cup {None} /\ user' # None
      BY <1>5, UserForms
  <2> QED
      BY <1>1, <1>2, <1>3, <1>5, <2>1, <2>2, KqueueUserAssumption DEF TypeOK, Knotes, Active
<1>7. UserKnote'
    BY <1>2, <1>3, <1>5, UserForms DEF UserKnote, Active
<1>8. OwnKqueues'
    BY <1>1, <1>2, <1>3, <1>5 DEF OwnKqueues, OwnKqueue, Active
<1> QED
    BY <1>4, <1>6, <1>7, <1>8 DEF Inv

\* A step that leaves the filter, and whether it is active, alone.
LEMMA UserKeeps ==
    ASSUME UserKnote, UNCHANGED wakeVars, Active("user")' <=> Active("user")
    PROVE  UserKnote'
BY DEF UserKnote, wakeVars

\* The steps of Signals::new that leave the queue alone.
LEMMA NewSignalsStep ==
    ASSUME Inv, NEW i \in Instances,
           (\E signals \in Sets : Create(i, signals)) \/ RegisterSignals(i) \/ Block(i)
    PROVE  Inv'
<1>1. TypeOK /\ UserKnote /\ OwnKqueues
    BY DEF Inv
<1>2. UNCHANGED <<active, wakeVars, raised, todo, running, alive, sent, due>>
    BY DEF Create, RegisterSignals, Block, threadVars
<1>3. UserKnote'
    BY <1>1, <1>2, UserKeeps DEF Active
<1>4. UNCHANGED <<active, user, copies, wakes, owed, events, raised, todo, running, alive, sent, due>>
    BY <1>2 DEF wakeVars
<1>5. ASSUME NEW signals \in Sets, Create(i, signals) PROVE TypeOK' /\ OwnKqueues'
  <2>1. /\ stage[i] = "none" /\ stage' = [stage EXCEPT ![i] = "created"]
        /\ set' = [set EXCEPT ![i] = signals] /\ mask' = mask /\ signals \subseteq Signal
      BY <1>5, KqueueUserAssumption DEF Create, threadVars
  <2>2. raised[i] = {} /\ ~Active(i)
      BY <1>1, <2>1 DEF OwnKqueues, OwnKqueue
  <2>3. TypeOK'
      BY <1>1, <1>4, <2>1 DEF TypeOK, Active
  <2> QED
      BY <1>1, <1>4, <2>1, <2>2, <2>3 DEF TypeOK, OwnKqueues, OwnKqueue, Active
<1>6. CASE RegisterSignals(i)
  <2>1. /\ stage[i] = "created" /\ stage' = [stage EXCEPT ![i] = "signals"]
        /\ UNCHANGED <<set, mask>>
      BY <1>6 DEF RegisterSignals, threadVars
  <2>2. TypeOK'
      BY <1>1, <1>4, <2>1 DEF TypeOK, Active
  <2> QED
      BY <1>1, <1>3, <1>4, <2>1, <2>2 DEF TypeOK, OwnKqueues, OwnKqueue, Active, Inv
<1>7. CASE Block(i)
  <2>1. /\ stage[i] = "registered" /\ stage' = [stage EXCEPT ![i] = "open"]
        /\ set' = set /\ mask' = [mask EXCEPT ![Main] = @ \cup set[i]]
      BY <1>7 DEF Block
  <2>2. TypeOK'
      BY <1>1, <1>4, <2>1 DEF TypeOK, Active
  <2> QED
      BY <1>1, <1>3, <1>4, <2>1, <2>2 DEF TypeOK, OwnKqueues, OwnKqueue, Active, Inv
<1> QED
    BY <1>3, <1>5, <1>6, <1>7 DEF Inv

\* A kqueue with active knotes becomes active when it is registered.
LEMMA RegisterStep ==
    ASSUME Inv, NEW i \in Instances, Register(i)
    PROVE  Inv'
<1>1. TypeOK /\ UserKnote /\ OwnKqueues /\ QueueOK /\ i # "user"
    BY QueueTypeOK, KqueueUserAssumption DEF Inv
<1>2. /\ UNCHANGED <<wakeVars, user, copies, wakes, owed, events>>
      /\ UNCHANGED <<set, raised, todo, running, mask, alive, sent, due>>
      /\ stage[i] = "signals" /\ stage' = [stage EXCEPT ![i] = "registered"]
      /\ active' = IF raised[i] # {} THEN Activate(i) ELSE active
    BY DEF Register, wakeVars, threadVars
<1>3. /\ active' \in Seq(Knotes) /\ IsInjective(active')
      /\ Range(active') = IF raised[i] # {} THEN Range(active) \cup {i} ELSE Range(active)
  <2>1. i \in Knotes
      BY DEF Knotes
  <2>2. /\ Activate(i) \in Seq(Knotes) /\ IsInjective(Activate(i))
        /\ Range(Activate(i)) = Range(active) \cup {i}
      BY <1>1, <2>1, ActivateOnce
  <2> QED
      BY <1>1, <1>2, <2>2 DEF QueueOK
<1>4. UserKnote'
    BY <1>1, <1>2, <1>3, UserKeeps DEF Active
<1>5. TypeOK'
    BY <1>1, <1>2, <1>3 DEF TypeOK, Knotes, Active
<1>6. OwnKqueues'
    BY <1>1, <1>2, <1>3 DEF TypeOK, OwnKqueues, OwnKqueue, Active
<1> QED
    BY <1>4, <1>5, <1>6 DEF Inv

\* Closing the kqueue of a Signals takes it out of the queue.
LEMMA CloseStep ==
    ASSUME Inv, NEW i \in Instances, NewFails(i) \/ Drop(i)
    PROVE  Inv'
<1>1. TypeOK /\ UserKnote /\ OwnKqueues /\ QueueOK /\ i # "user"
    BY QueueTypeOK, KqueueUserAssumption DEF Inv
<1>2. /\ UNCHANGED <<wakeVars, user, copies, wakes, owed, events>>
      /\ UNCHANGED <<set, todo, running, mask, alive, sent>>
      /\ \E end \in {"failed", "dropped"} : stage' = [stage EXCEPT ![i] = end]
      /\ raised' = [raised EXCEPT ![i] = {}] /\ due' = [due EXCEPT ![i] = {}]
      /\ active' = Deactivate(i)
    BY DEF NewFails, Drop, CloseKqueue, wakeVars, threadVars
<1>3. /\ active' \in Seq(Knotes) /\ IsInjective(active')
      /\ Range(active') = Range(active) \ {i}
    BY <1>1, <1>2, DeactivateOnce
<1>4. UserKnote'
    BY <1>1, <1>2, <1>3, UserKeeps DEF Active
<1>5. TypeOK'
    BY <1>1, <1>2, <1>3 DEF TypeOK, Knotes, Active
<1>6. OwnKqueues'
    BY <1>1, <1>2, <1>3 DEF TypeOK, OwnKqueues, OwnKqueue, Active
<1> QED
    BY <1>4, <1>5, <1>6 DEF Inv

\* A signal activates its knotes in the kqueues that have them, and these kqueues
\* in that of the OsQueue if they are registered there.
LEMMA SendStep ==
    ASSUME Inv, NEW s \in Signal, Send(s)
    PROVE  Inv'
<1>1. TypeOK /\ UserKnote /\ OwnKqueues /\ QueueOK
    BY QueueTypeOK DEF Inv
<1> DEFINE hit == {i \in Instances : s \in set[i] /\ stage[i] \in {"signals", "registered", "open"}}
           woken == {i \in hit : stage[i] # "signals" /\ ~Active(i)}
<1>2. /\ UNCHANGED <<wakeVars, user, copies, wakes, owed, events>>
      /\ UNCHANGED <<stage, set, todo, running, mask>>
      /\ sent < MaxSent /\ sent' = sent + 1
      /\ raised' = [i \in Instances |-> IF i \in hit THEN raised[i] \cup {s} ELSE raised[i]]
      /\ due' = [i \in Instances |-> IF s \in set[i] /\ stage[i] = "open"
                                     THEN due[i] \cup {s} ELSE due[i]]
      /\ alive' \in BOOLEAN
    BY <1>1 DEF Send, wakeVars, newVars, threadVars, TypeOK
<1>3. /\ active' \in Seq(Knotes) /\ IsInjective(active')
      /\ Range(active') = Range(active) \cup woken
  <2>1. PICK order \in Orders(woken) : active' = active \o order
      BY DEF Send
  <2>2. woken \in SUBSET Instances /\ woken \cap Range(active) = {}
      BY DEF Active
  <2> HIDE DEF woken
  <2> QED
      BY <1>1, <2>1, <2>2, OrdersOnce
<1>4. UserKnote'
  <2>1. "user" \notin woken
      BY KqueueUserAssumption
  <2> HIDE DEF woken
  <2> QED
      BY <1>1, <1>2, <1>3, <2>1, UserKeeps DEF Active
<1>5. TypeOK'
  <2>1. sent' \in 0..MaxSent
      BY <1>1, <1>2, KqueueUserAssumption DEF TypeOK
  <2>2. raised' \in [Instances -> SUBSET Signal] /\ due' \in [Instances -> SUBSET Signal]
      BY <1>1, <1>2 DEF TypeOK
  <2>3. "user" \notin woken
      BY KqueueUserAssumption
  <2>4. ASSUME NEW i \in Instances, stage'[i] \in {"registered", "open"}, raised'[i] # {}
        PROVE  i \in Range(active')
      BY <1>1, <1>2, <1>3, <2>4 DEF TypeOK, Active
  <2> HIDE DEF hit, woken
  <2> QED
      BY <1>1, <1>2, <1>3, <2>1, <2>2, <2>3, <2>4 DEF TypeOK, Knotes, Active
<1>6. OwnKqueues'
    BY <1>1, <1>2, <1>3 DEF TypeOK, OwnKqueues, OwnKqueue, Active
<1> QED
    BY <1>4, <1>5, <1>6 DEF Inv

\* A poll returns the event of a Signals and puts it back, or drops it when there
\* is nothing to receive.
LEMMA PollSignalsStep ==
    ASSUME Inv, NEW i \in Instances, PollSignals(i) \/ PollDrops(i)
    PROVE  Inv'
<1>1. TypeOK /\ UserKnote /\ OwnKqueues /\ QueueOK /\ i # "user"
    BY QueueTypeOK, KqueueUserAssumption DEF Inv
<1>2. /\ UNCHANGED <<wakeVars, user, copies, wakes, owed, events>>
      /\ UNCHANGED <<stage, set, raised, running, mask, alive, sent, due>>
      /\ todo' \subseteq todo \cup {i} /\ active # <<>> /\ Head(active) = i
      /\ \/ active' = Append(Tail(active), i)
         \/ raised[i] = {} /\ active' = Tail(active)
    BY DEF PollSignals, PollDrops, RegisteredAs, wakeVars, signalVars, newVars, threadVars
<1>3. /\ active' \in Seq(Knotes) /\ IsInjective(active')
      /\ \/ Range(active') = Range(active)
         \/ raised[i] = {} /\ Range(active') = Range(active) \ {i}
  <2>1. /\ Tail(active) \in Seq(Knotes) /\ IsInjective(Tail(active))
        /\ Range(Tail(active)) = Range(active) \ {i}
      BY <1>1, <1>2, PopOnce
  <2>2. /\ Append(Tail(active), i) \in Seq(Knotes) /\ IsInjective(Append(Tail(active), i))
        /\ Range(Append(Tail(active), i)) = Range(active)
      BY <1>1, <1>2, RequeueOnce
  <2> QED
      BY <1>2, <2>1, <2>2
<1>4. UserKnote'
    BY <1>1, <1>2, <1>3, UserKeeps DEF Active
<1>5. TypeOK'
    BY <1>1, <1>2, <1>3 DEF TypeOK, Knotes, Active
<1>6. OwnKqueues'
    BY <1>1, <1>2, <1>3 DEF TypeOK, OwnKqueues, OwnKqueue, Active
<1> QED
    BY <1>4, <1>5, <1>6 DEF Inv

\* A receive may take the last signal; the kqueue stays on the queue until a poll
\* gets to it.
LEMMA ReceiveStep ==
    ASSUME Inv, NEW i \in Instances, Receive(i) \/ ReceiveNothing(i)
    PROVE  Inv'
<1>1. TypeOK /\ UserKnote /\ OwnKqueues
    BY DEF Inv
<1>2. /\ UNCHANGED <<active, wakeVars, user, copies, wakes, owed, events>>
      /\ UNCHANGED <<stage, set, running, mask, alive, sent>> /\ todo' \subseteq todo
    BY DEF Receive, ReceiveNothing, wakeVars, newVars, threadVars
<1>3. /\ raised' \in [Instances -> SUBSET Signal] /\ due' \in [Instances -> SUBSET Signal]
      /\ \A k \in Instances : raised'[k] \subseteq raised[k]
    BY <1>1 DEF Receive, ReceiveNothing, TypeOK
<1>4. UserKnote'
    BY <1>1, <1>2, UserKeeps DEF Active
<1>5. TypeOK'
  <2>1. \A k \in Instances : raised'[k] # {} => raised[k] # {}
      BY <1>3
  <2> QED
      BY <1>1, <1>2, <1>3, <2>1 DEF TypeOK, Active
<1>6. OwnKqueues'
    BY <1>1, <1>2, <1>3 DEF TypeOK, OwnKqueues, OwnKqueue, Active
<1> QED
    BY <1>4, <1>5, <1>6 DEF Inv

\* A new thread changes nothing but the masks.
LEMMA SpawnStep ==
    ASSUME Inv, NEW t \in Threads, NEW u \in Threads, Spawn(t, u)
    PROVE  Inv'
<1>1. TypeOK /\ UserKnote /\ OwnKqueues
    BY DEF Inv
<1>2. /\ UNCHANGED <<active, user, copies, wakes, owed, events, stage, set, raised, todo, alive,
                      sent, due>>
      /\ running' = running \cup {u} /\ mask' = [mask EXCEPT ![u] = mask[t]]
    BY DEF Spawn, wakeVars, newVars
<1>3. TypeOK'
    BY <1>1, <1>2 DEF TypeOK, Active
<1> QED
    BY <1>1, <1>2, <1>3 DEF Inv, UserKnote, OwnKqueues, OwnKqueue, Active

\* There is no awakener, no Signals and no active knote at first.
LEMMA InvInit == Init => Inv
<1> SUFFICES ASSUME Init PROVE Inv
    OBVIOUS
<1>1. active \in Seq(Instances \cup {"user"}) /\ IsInjective(active) /\ Range(active) = {}
    BY EmptySeq, LenProperties DEF Init, IsInjective, Range
<1>2. TypeOK
  <2>1. wakes \in 0..MaxWakes /\ sent \in 0..MaxSent /\ events \in Nat /\ owed \in BOOLEAN
    <3>1. MaxWakes \in Nat /\ MaxSent \in Nat
        BY KqueueUserAssumption, Zenon
    <3>2. wakes = 0 /\ sent = 0 /\ events = 0 /\ owed \in BOOLEAN
        BY Zenon DEF Init
    <3>3. wakes \in 0..MaxWakes /\ sent \in 0..MaxSent /\ events \in Nat
        BY <3>1, <3>2
    <3> QED
        BY <3>2, <3>3
  <2>2. ~Active("user") /\ copies = {} /\ \A i \in Instances : raised[i] = {}
      BY <1>1 DEF Init, Active
  <2>3. /\ running \subseteq Threads /\ copies \subseteq running
        /\ mask \in [Threads -> SUBSET Signal] /\ alive \in BOOLEAN
    <3>1. mask \in [Threads -> SUBSET Signal] /\ alive \in BOOLEAN
        BY DEF Init
    <3> QED
        BY <2>2, <3>1, KqueueUserAssumption DEF Init
  <2> QED
      BY <1>1, <2>1, <2>2, <2>3 DEF Init, TypeOK
<1>3. UserKnote
    BY <1>1, UserForms DEF Init, UserKnote, Active
<1>4. OwnKqueues
    BY <1>1 DEF Init, OwnKqueues, OwnKqueue, Active
<1> QED
    BY <1>2, <1>3, <1>4 DEF Inv

\* Every step of the awakener, of the Signals and of the poller keeps the
\* inductive invariant.
LEMMA InvStep == Inv /\ [Next]_vars => Inv'
<1> SUFFICES ASSUME Inv, [Next]_vars PROVE Inv'
    OBVIOUS
<1>1. CASE UNCHANGED vars
  <2>1. UNCHANGED <<active, user, copies, wakes, owed, events, stage, set, raised, todo,
                    running, mask, alive, sent, due>>
      BY <1>1 DEF vars, wakeVars, signalVars, newVars, threadVars
  <2> QED
      BY <2>1 DEF Inv, TypeOK, UserKnote, OwnKqueues, OwnKqueue, Active
<1>2. CASE Next
    BY <1>2, AwakenerStep, PollUserStep, NewSignalsStep, RegisterStep, CloseStep, SendStep,
       PollSignalsStep, ReceiveStep, SpawnStep
       DEF Next, NewStep, PollStep
<1> QED
    BY <1>1, <1>2

\* The inductive invariant holds throughout, for any threads, Signals and
\* bounds: the types, a user knote that is queued when it is triggered
\* (setup_awakener and wake), and the kqueue of each Signals (Signals::new and
\* Drop for Selector).
THEOREM Invariant == Spec => []Inv
BY InvInit, InvStep, PTL DEF Spec

\* A Signals that was dropped, or whose new failed at any step, has no signal and
\* is not active any more; the types, and that what has something to report is
\* active, are part of it.
THEOREM NothingIsLeft == Spec => []NothingLeft
<1>1. Inv => NothingLeft
    BY DEF Inv, OwnKqueues, OwnKqueue, NothingLeft
<1> QED
    BY <1>1, Invariant, PTL

\* A signal is taken from an instance by its own receive, which returns it, or
\* with the kqueue.
LEMMA DueStep == Inv /\ NoSignalLost /\ [Next]_vars => NoSignalLost'
<1> SUFFICES ASSUME Inv, NoSignalLost, [Next]_vars PROVE NoSignalLost'
    OBVIOUS
<1> USE DEF NoSignalLost
<1>1. raised \in [Instances -> SUBSET Signal] /\ due \in [Instances -> SUBSET Signal]
    BY DEF Inv, TypeOK
<1>2. ASSUME NEW s \in Signal, Send(s) PROVE NoSignalLost'
    BY <1>1, <1>2 DEF Send
<1>3. ASSUME NEW i \in Instances, Receive(i) PROVE NoSignalLost'
    BY <1>1, <1>3 DEF Receive
<1>4. ASSUME NEW i \in Instances, NewFails(i) \/ Drop(i) PROVE NoSignalLost'
    BY <1>1, <1>4 DEF NewFails, Drop, CloseKqueue
<1>5. ASSUME UNCHANGED <<raised, due>> PROVE NoSignalLost'
    BY <1>5
<1>6. ASSUME NEW t \in Threads, New(t) \/ TryClone(t) \/ DropCopy(t) \/ Wake(t)
      PROVE  UNCHANGED <<raised, due>>
    BY <1>6 DEF New, TryClone, DropCopy, Wake, signalVars
<1>7. ASSUME NEW i \in Instances,
             \/ \E signals \in Sets : Create(i, signals)
             \/ RegisterSignals(i) \/ Register(i) \/ Block(i) \/ ReceiveNothing(i)
             \/ PollSignals(i) \/ PollDrops(i)
      PROVE  UNCHANGED <<raised, due>>
    BY <1>7 DEF Create, RegisterSignals, Register, Block, ReceiveNothing, PollSignals, PollDrops,
                signalVars
<1>8. ASSUME PollUser PROVE UNCHANGED <<raised, due>>
    BY <1>8 DEF PollUser, signalVars
<1>9. ASSUME UNCHANGED vars PROVE UNCHANGED <<raised, due>>
    BY <1>9 DEF vars, signalVars
<1>10. ASSUME NEW t \in Threads, NEW u \in Threads, Spawn(t, u) PROVE UNCHANGED <<raised, due>>
    BY <1>10 DEF Spawn
<1> QED
    BY <1>2, <1>3, <1>4, <1>5, <1>6, <1>7, <1>8, <1>9, <1>10 DEF Next, NewStep, PollStep

\* Every open Signals keeps each signal it was sent until its own receive returns
\* it, whatever the others receive.
THEOREM NoSignalIsLost == Spec => []NoSignalLost
<1>1. Init => NoSignalLost
    BY DEF Init, NoSignalLost
<1> QED
    BY <1>1, DueStep, Invariant, PTL DEF Spec

-----------------------------------------------------------------------------
(* The refinement of Wakeup.                                               *)

\* Every step of the awakener is the step of Wakeup of the same name, and what
\* Signals do is none.
LEMMA WakeupStep == Inv /\ [Next]_vars => [W!Next]_(W!wakeupVars)
<1> SUFFICES ASSUME Inv, [Next]_vars PROVE [W!Next]_(W!wakeupVars)
    OBVIOUS
<1> USE DEF W!Next, W!wakeupVars
<1>1. ASSUME NEW t \in Threads, New(t) PROVE W!Copy
  <2>1. copies = {}
      BY <1>1 DEF New, Inv, UserKnote
  <2> QED
      BY <1>1, <2>1 DEF New, W!Copy
<1>2. ASSUME NEW t \in Threads, TryClone(t) PROVE W!Copy
    BY <1>2 DEF TryClone, W!Copy
<1>3. ASSUME NEW t \in Threads, DropCopy(t) PROVE W!Drop
    BY <1>3 DEF DropCopy, W!Drop
<1>4. ASSUME NEW t \in Threads, Wake(t) PROVE W!Wake
    BY <1>4 DEF Wake, W!Wake
<1>5. ASSUME PollUser PROVE W!Deliver
    BY <1>5, PollUserStep DEF PollUser, W!Deliver
<1>6. ASSUME UNCHANGED wakeVars PROVE UNCHANGED W!wakeupVars
    BY <1>6 DEF wakeVars
<1>7. ASSUME NEW i \in Instances,
             \/ \E signals \in Sets : Create(i, signals)
             \/ NewStep(i) \/ Drop(i) \/ Receive(i) \/ ReceiveNothing(i)
      PROVE  UNCHANGED wakeVars
    BY <1>7 DEF Create, NewStep, RegisterSignals, Register, Block, NewFails, Drop, CloseKqueue,
                Receive, ReceiveNothing
<1>8. ASSUME NEW i \in Instances, PollSignals(i) \/ PollDrops(i) PROVE UNCHANGED wakeVars
    BY <1>8 DEF PollSignals, PollDrops
<1>9. ASSUME NEW s \in Signal, Send(s) PROVE UNCHANGED wakeVars
    BY <1>9 DEF Send
<1>10. ASSUME UNCHANGED vars PROVE UNCHANGED wakeVars
    BY <1>10 DEF vars
<1>11. ASSUME NEW t \in Threads, NEW u \in Threads, Spawn(t, u) PROVE UNCHANGED wakeVars
    BY <1>11 DEF Spawn
<1> QED
    BY <1>1, <1>2, <1>3, <1>4, <1>5, <1>6, <1>7, <1>8, <1>9, <1>10, <1>11 DEF Next, PollStep

\* The kqueue awakener implements Wakeup: a wake is reported by one event, no
\* event comes without a wake, and no wake is dropped.
THEOREM KqueueImplementsWakeup == Spec => ImplementsWakeup
<1>1. Init => W!Init
    BY DEF Init, W!Init
<1> QED
    BY <1>1, WakeupStep, Invariant, PTL DEF Spec, ImplementsWakeup

==============================================================================
