---------------------------- MODULE SpawnGateProofs ----------------------------
(* The gate counts its held starts, its reservations and its budgets right,   *)
(* and lets through only what fits, for any sessions, parents and limits.     *)
EXTENDS SpawnGate, SequenceTheorems, FiniteSetTheorems, TLAPS

InLine == {x \in Starts : step[x] \in Waiting \cup {"starting"}}

Typed ==
  /\ queue \in Seq(Starts) /\ step \in [Starts -> Steps]
  /\ wanted \subseteq Starts /\ held \in BOOLEAN
  /\ reserved \subseteq Starts

\* The queue holds the starts under way once each, and only its head has gone on.
OneByOne ==
  /\ IsInjective(queue) /\ ToSet(queue) = InLine
  /\ \A x \in Starts : step[x] \in {"probing", "sleeping", "starting"} => AtHead(x)

\* The count is that of the flags, and only who waits has one.
Flags ==
  /\ flagged \subseteq InQueue
  /\ heldStartCount = Cardinality(flagged)

UnderWay(p) == {x \in Spawns : ParentOf[x] = p /\ step[x] \in Waiting \cup {"starting"}}
Children(p) == {x \in Spawns : /\ ParentOf[x] = p /\ x \in wanted
                               /\ step[x] \in Waiting \cup {"starting", "up"}}

Granted(p) == {x \in Spawns : ParentOf[x] = p /\ step[x] \in Waiting \cup {"starting", "up", "over"}}

\* A parent's budget counts its spawns under way, its living children and all it
\* was ever granted; one it has not asked for yet is wanted.
Budgets ==
  /\ inFlight \in [Parents -> Nat] /\ liveChildren \in [Parents -> Nat]
  /\ lifetime \in [Parents -> Nat]
  /\ \A p \in Parents :
       /\ inFlight[p] = Cardinality(UnderWay(p)) /\ inFlight[p] <= MaxInFlight
       /\ liveChildren[p] = Cardinality(Children(p)) /\ liveChildren[p] <= MaxLiveChildren
       /\ lifetime[p] = Cardinality(Granted(p)) /\ lifetime[p] <= MaxLifetimeSpawns
  /\ \A x \in Starts : step[x] \in {"idle", "asking"} => x \in wanted

\* A session that was let through is seen in a reading or has its reservation,
\* unless the reservation ran out first.
Accounted ==
  /\ settled \subseteq Admitted /\ overlooked \subseteq Admitted
  /\ Admitted \subseteq settled \cup reserved \cup overlooked

GateInv == Typed /\ OneByOne /\ Flags /\ Budgets /\ Accounted

----------------------------------------------------------------------------
\* Every set of starts is finite.
LEMMA FiniteStarts ==
  ASSUME NEW S, S \subseteq Starts
  PROVE  IsFiniteSet(S) /\ Cardinality(S) \in Nat
BY GateAssumption, FS_Subset, FS_CardinalityType

\* A start that joins the queue is its last.
LEMMA AppendLine ==
  ASSUME NEW q \in Seq(Starts), IsInjective(q), NEW x \in Starts, x \notin ToSet(q)
  PROVE  /\ Append(q, x) \in Seq(Starts) /\ IsInjective(Append(q, x))
         /\ ToSet(Append(q, x)) = ToSet(q) \cup {x}
         /\ q # <<>> => Append(q, x) # <<>> /\ Head(Append(q, x)) = Head(q)
<1>1. /\ Append(q, x) \in Seq(Starts) /\ Len(Append(q, x)) = Len(q) + 1
      /\ \A i \in 1..Len(q) : Append(q, x)[i] = q[i]
      /\ Append(q, x)[Len(q) + 1] = x /\ Append(q, x) # <<>>
  BY AppendProperties
<1>2. /\ Len(q) \in Nat /\ DOMAIN q = 1..Len(q)
      /\ DOMAIN Append(q, x) = 1..(Len(q) + 1)
  BY <1>1, LenProperties
<1>3. ToSet(Append(q, x)) = ToSet(q) \cup {x}
  BY <1>1, <1>2 DEF ToSet
<1>4. IsInjective(Append(q, x))
  BY <1>1, <1>2 DEF ToSet, IsInjective
<1>5. q # <<>> => Head(Append(q, x)) = Head(q)
  <2>1. q # <<>> => Len(q) >= 1 /\ Head(q) = q[1]
    BY <1>2, EmptySeq, HeadTailProperties
  <2>2. Head(Append(q, x)) = Append(q, x)[1]
    BY <1>1, HeadTailProperties
  <2> QED
    BY <1>1, <1>2, <2>1, <2>2
<1> QED
  BY <1>1, <1>3, <1>4, <1>5

\* The head that leaves is in the queue no more.
LEMMA TailLine ==
  ASSUME NEW q \in Seq(Starts), IsInjective(q), q # <<>>
  PROVE  /\ Tail(q) \in Seq(Starts) /\ IsInjective(Tail(q))
         /\ Head(q) \in ToSet(q) /\ ToSet(Tail(q)) = ToSet(q) \ {Head(q)}
<1>1. /\ Tail(q) \in Seq(Starts) /\ Head(q) = q[1]
      /\ Len(Tail(q)) = Len(q) - 1
      /\ \A i \in 1..Len(Tail(q)) : Tail(q)[i] = q[i + 1]
  BY HeadTailProperties
<1>2. /\ Len(q) \in Nat /\ DOMAIN q = 1..Len(q) /\ DOMAIN Tail(q) = 1..Len(Tail(q))
      /\ Len(q) >= 1
  BY <1>1, LenProperties, EmptySeq
<1>3. IsInjective(Tail(q))
  BY <1>1, <1>2 DEF IsInjective
<1>4. Head(q) \in ToSet(q)
  BY <1>1, <1>2 DEF ToSet
<1>5. ASSUME NEW i \in 1..Len(q), i # 1 PROVE q[i] \in ToSet(Tail(q))
  <2>1. i - 1 \in 1..Len(Tail(q)) /\ Tail(q)[i - 1] = q[i]
    BY <1>1, <1>2, <1>5
  <2> QED
    BY <1>2, <2>1 DEF ToSet
<1>6. ToSet(q) \ {Head(q)} \subseteq ToSet(Tail(q))
  BY <1>1, <1>2, <1>5 DEF ToSet
<1>7. ToSet(Tail(q)) \subseteq ToSet(q) \ {Head(q)}
  BY <1>1, <1>2 DEF ToSet, IsInjective
<1> QED
  BY <1>1, <1>3, <1>4, <1>6, <1>7

\* Flags that are set are counted.
LEMMA FlagCounts ==
  ASSUME Flags, NEW S, S \subseteq Starts, Flag(S)
  PROVE  /\ flagged' \subseteq flagged \cup S
         /\ heldStartCount' = Cardinality(flagged')
<1> DEFINE new == {x \in S \ flagged : StillWanted(x)}
<1>1. flagged' = flagged \cup new /\ heldStartCount' = heldStartCount + Cardinality(new)
  BY DEF Flag
<1>2. /\ IsFiniteSet(flagged) /\ IsFiniteSet(new) /\ flagged \cap new = {}
      /\ Cardinality(flagged) \in Nat /\ Cardinality(new) \in Nat
  BY FiniteStarts DEF Flags, InQueue
<1> HIDE DEF new
<1>3. Cardinality(flagged \cup new) = Cardinality(flagged) + Cardinality(new)
  <2>1. Cardinality(flagged \cap new) = 0
    BY <1>2, FS_EmptySet
  <2>2. Cardinality(flagged \cup new)
          = Cardinality(flagged) + Cardinality(new) - Cardinality(flagged \cap new)
    BY <1>2, FS_Union
  <2> QED
    BY <1>2, <2>1, <2>2
<1>4. new \subseteq S
  BY DEF new
<1> QED
  BY <1>1, <1>3, <1>4 DEF Flags

\* A start that leaves takes its flag along.
LEMMA LeaveCounts ==
  ASSUME Flags, NEW x, LeaveQueue(x)
  PROVE  flagged' = flagged \ {x} /\ heldStartCount' = Cardinality(flagged')
<1>1. IsFiniteSet(flagged) /\ Cardinality(flagged) \in Nat
  BY FiniteStarts DEF Flags, InQueue
<1> QED
  BY <1>1, FS_RemoveElement DEF LeaveQueue, Flags

\* One child more, or one less, is counted as such.
LEMMA OneMore ==
  ASSUME NEW S, S \subseteq Starts, NEW x \in Starts
  PROVE  /\ x \notin S => Cardinality(S \cup {x}) = Cardinality(S) + 1
         /\ x \in S => /\ Cardinality(S \ {x}) = Cardinality(S) - 1
                       /\ Cardinality(S \ {x}) \in Nat /\ Cardinality(S) \in Nat
<1>1. IsFiniteSet(S) /\ IsFiniteSet(S \ {x})
  BY FiniteStarts
<1> QED
  BY <1>1, FS_AddElement, FS_RemoveElement, FS_CardinalityType

\* A start's place in the budgets, which its step and its being wanted decide.
LEMMA SameBudgets ==
  ASSUME Typed, Budgets, UNCHANGED <<inFlight, liveChildren, lifetime, wanted>>,
         NEW x \in Starts, NEW s \in Steps, step' = [step EXCEPT ![x] = s],
         s \notin {"idle", "asking"} \/ x \in wanted,
         \/ x \in Resumes
         \/ {s, step[x]} \subseteq Waiting \cup {"starting"}
         \/ {s, step[x]} \subseteq {"idle", "asking", "refused"}
  PROVE  Budgets'
<1>1. Spawns \subseteq Starts /\ Resumes \cap Spawns = {}
  BY GateAssumption DEF Starts
<1>2. ASSUME NEW y \in Spawns
      PROVE  /\ step'[y] \in Waiting \cup {"starting"}
                  <=> step[y] \in Waiting \cup {"starting"}
             /\ step'[y] \in Waiting \cup {"starting", "up"}
                  <=> step[y] \in Waiting \cup {"starting", "up"}
             /\ step'[y] \in Waiting \cup {"starting", "up", "over"}
                  <=> step[y] \in Waiting \cup {"starting", "up", "over"}
  BY <1>1 DEF Typed, Waiting
<1>3. \A p : /\ UnderWay(p)' = UnderWay(p) /\ Children(p)' = Children(p)
             /\ Granted(p)' = Granted(p)
  BY <1>2 DEF UnderWay, Children, Granted
<1> QED
  BY <1>3 DEF Budgets, Typed

\* A spawn's end at the head of the queue, or the end of its start, gives its
\* place under way back; a child that is up, or that nobody wants, lives on as
\* it did.
LEMMA EndBudgets ==
  ASSUME Typed, Budgets, NEW x \in Starts, step[x] \in Waiting \cup {"starting"},
         EndOf(x), UNCHANGED <<liveChildren, lifetime, wanted>>,
         NEW s \in {"over", "up"}, step' = [step EXCEPT ![x] = s],
         s = "over" => x \notin wanted
  PROVE  Budgets'
<1>1. /\ Spawns \subseteq Starts /\ Resumes \cap Spawns = {}
      /\ \A y \in Starts : step'[y] = IF y = x THEN s ELSE step[y]
  BY GateAssumption DEF Starts, Typed
<1>2. \A p : Children(p)' = Children(p) /\ Granted(p)' = Granted(p)
  BY <1>1 DEF Children, Granted, Waiting
<1>3. CASE x \in Spawns
  <2> DEFINE q == ParentOf[x]
  <2>1. q \in Parents
    BY <1>3, GateAssumption
  <2>2. x \in UnderWay(q) /\ UnderWay(q)' = UnderWay(q) \ {x}
    BY <1>1, <1>3 DEF UnderWay, Waiting
  <2>3. \A p : p # q => UnderWay(p)' = UnderWay(p)
    BY <1>1, <1>3 DEF UnderWay
  <2>4. inFlight' = [inFlight EXCEPT ![q] = @ - 1]
    BY <1>3 DEF EndOf
  <2>5. /\ Cardinality(UnderWay(q) \ {x}) = Cardinality(UnderWay(q)) - 1
        /\ Cardinality(UnderWay(q) \ {x}) \in Nat
    BY <1>1, <2>2, OneMore DEF UnderWay
  <2>6. MaxInFlight \in Nat
    BY GateAssumption
  <2> HIDE DEF q
  <2>7. /\ inFlight' \in [Parents -> Nat]
        /\ \A p \in Parents : /\ inFlight'[p] = Cardinality(UnderWay(p)')
                              /\ inFlight'[p] <= MaxInFlight
    BY <2>1, <2>2, <2>3, <2>4, <2>5, <2>6 DEF Budgets
  <2> QED
    BY <1>1, <1>2, <2>7 DEF Budgets
<1>4. CASE x \notin Spawns
  <2>1. \A p : UnderWay(p)' = UnderWay(p)
    BY <1>1, <1>4 DEF UnderWay
  <2>2. UNCHANGED inFlight
    BY <1>4 DEF EndOf
  <2> QED
    BY <1>1, <1>2, <2>1, <2>2 DEF Budgets
<1> QED
  BY <1>3, <1>4

\* A session that is no longer wanted gives its slot back, once.
LEMMA ReleaseBudgets ==
  ASSUME Typed, Budgets, NEW x \in Starts, ReleaseChildSlot(x),
         UNCHANGED <<inFlight, lifetime>>,
         wanted' = wanted \ {x},
         \/ step[x] \in Waiting \cup {"starting"} /\ UNCHANGED step
         \/ step[x] = "up" /\ step' = [step EXCEPT ![x] = "over"]
  PROVE  Budgets'
<1>1. /\ Spawns \subseteq Starts
      /\ \A y \in Starts : y # x => step'[y] = step[y]
      /\ step'[x] \notin {"idle", "asking"}
      /\ step'[x] \in Waiting \cup {"starting"} <=> step[x] \in Waiting \cup {"starting"}
      /\ {step[x], step'[x]} \subseteq Waiting \cup {"starting", "up", "over"}
  BY DEF Starts, Typed, Waiting
<1>2. \A p : UnderWay(p)' = UnderWay(p) /\ Granted(p)' = Granted(p)
  BY <1>1 DEF UnderWay, Granted
<1>3. CASE x \in Spawns /\ x \in wanted
  <2> DEFINE q == ParentOf[x]
  <2>1. q \in Parents
    BY <1>3, GateAssumption
  <2>2. x \in Children(q) /\ Children(q)' = Children(q) \ {x}
    BY <1>1, <1>3 DEF Children
  <2>3. \A p : p # q => Children(p)' = Children(p)
    BY <1>1, <1>3 DEF Children
  <2>4. liveChildren' = [liveChildren EXCEPT ![q] = @ - 1]
    BY <1>3 DEF ReleaseChildSlot
  <2>5. /\ Cardinality(Children(q) \ {x}) = Cardinality(Children(q)) - 1
        /\ Cardinality(Children(q) \ {x}) \in Nat
    BY <1>1, <2>2, OneMore DEF Children
  <2>6. MaxLiveChildren \in Nat
    BY GateAssumption
  <2> HIDE DEF q
  <2>7. /\ liveChildren' \in [Parents -> Nat]
        /\ \A p \in Parents : /\ liveChildren'[p] = Cardinality(Children(p)')
                              /\ liveChildren'[p] <= MaxLiveChildren
    <3>1. liveChildren'[q] = Cardinality(Children(q) \ {x})
      BY <2>1, <2>4, <2>5 DEF Budgets
    <3>2. Cardinality(Children(q)) <= MaxLiveChildren
      BY <2>1 DEF Budgets
    <3>3. \A p \in Parents : p # q => liveChildren'[p] = liveChildren[p]
      BY <2>4 DEF Budgets
    <3>4. liveChildren' \in [Parents -> Nat]
      BY <2>1, <2>4, <2>5, <3>1 DEF Budgets
    <3>5. /\ liveChildren'[q] = Cardinality(Children(q)')
          /\ liveChildren'[q] <= MaxLiveChildren
      <4>1. Cardinality(Children(q)) \in Nat
        BY <2>1 DEF Budgets
      <4> QED
        BY <2>2, <2>5, <2>6, <3>1, <3>2, <4>1
    <3>6. ASSUME NEW p \in Parents, p # q
          PROVE  /\ liveChildren'[p] = Cardinality(Children(p)')
                 /\ liveChildren'[p] <= MaxLiveChildren
      BY <2>3, <3>3, <3>6 DEF Budgets
    <3> QED
      BY <3>4, <3>5, <3>6
  <2> QED
    BY <1>1, <1>2, <2>7 DEF Budgets
<1>4. CASE ~(x \in Spawns /\ x \in wanted)
  <2>1. \A p : Children(p)' = Children(p)
    BY <1>1, <1>4 DEF Children
  <2>2. UNCHANGED liveChildren
    BY <1>4 DEF ReleaseChildSlot
  <2> QED
    BY <1>1, <1>2, <2>1, <2>2 DEF Budgets
<1> QED
  BY <1>3, <1>4

\* A spawn that is let in has a place under way and a living child counted.
LEMMA LetInBudgets ==
  ASSUME Typed, Budgets, NEW x \in Spawns, step[x] = "asking", Allowed(ParentOf[x]),
         UNCHANGED wanted, step' = [step EXCEPT ![x] = "queued"],
         inFlight' = [inFlight EXCEPT ![ParentOf[x]] = @ + 1],
         liveChildren' = [liveChildren EXCEPT ![ParentOf[x]] = @ + 1],
         lifetime' = [lifetime EXCEPT ![ParentOf[x]] = @ + 1]
  PROVE  Budgets'
<1> DEFINE q == ParentOf[x]
<1>1. /\ q \in Parents /\ Spawns \subseteq Starts /\ x \in Starts /\ x \in wanted
      /\ MaxInFlight \in Nat /\ MaxLiveChildren \in Nat /\ MaxLifetimeSpawns \in Nat
  BY GateAssumption DEF Starts, Budgets
<1>2. \A y \in Starts : step'[y] = IF y = x THEN "queued" ELSE step[y]
  BY <1>1 DEF Typed
<1>3. /\ x \notin UnderWay(q) /\ UnderWay(q)' = UnderWay(q) \cup {x}
      /\ x \notin Children(q) /\ Children(q)' = Children(q) \cup {x}
      /\ x \notin Granted(q) /\ Granted(q)' = Granted(q) \cup {x}
  BY <1>1, <1>2 DEF UnderWay, Children, Granted, Waiting
<1>4. \A p : p # q => /\ UnderWay(p)' = UnderWay(p) /\ Children(p)' = Children(p)
                      /\ Granted(p)' = Granted(p)
  BY <1>1, <1>2 DEF UnderWay, Children, Granted
<1>5. /\ Cardinality(UnderWay(q) \cup {x}) = Cardinality(UnderWay(q)) + 1
      /\ Cardinality(Children(q) \cup {x}) = Cardinality(Children(q)) + 1
      /\ Cardinality(Granted(q) \cup {x}) = Cardinality(Granted(q)) + 1
  BY <1>1, <1>3, OneMore DEF UnderWay, Children, Granted
<1>6. /\ inFlight[q] < MaxInFlight /\ liveChildren[q] < MaxLiveChildren
      /\ lifetime[q] < MaxLifetimeSpawns
  BY DEF Allowed
<1>7. /\ inFlight' = [inFlight EXCEPT ![q] = @ + 1]
      /\ liveChildren' = [liveChildren EXCEPT ![q] = @ + 1]
      /\ lifetime' = [lifetime EXCEPT ![q] = @ + 1]
  OBVIOUS
<1> HIDE DEF q
<1>8. /\ inFlight' \in [Parents -> Nat] /\ liveChildren' \in [Parents -> Nat]
      /\ lifetime' \in [Parents -> Nat] /\ lifetime'[q] = lifetime[q] + 1
      /\ inFlight'[q] = inFlight[q] + 1 /\ liveChildren'[q] = liveChildren[q] + 1
      /\ \A p \in Parents : p # q => /\ inFlight'[p] = inFlight[p]
                                     /\ liveChildren'[p] = liveChildren[p]
                                     /\ lifetime'[p] = lifetime[p]
  BY <1>1, <1>7 DEF Budgets
<1>9. /\ inFlight'[q] = Cardinality(UnderWay(q)') /\ inFlight'[q] <= MaxInFlight
      /\ liveChildren'[q] = Cardinality(Children(q)') /\ liveChildren'[q] <= MaxLiveChildren
      /\ lifetime'[q] = Cardinality(Granted(q)') /\ lifetime'[q] <= MaxLifetimeSpawns
  <2>1. /\ inFlight[q] = Cardinality(UnderWay(q)) /\ liveChildren[q] = Cardinality(Children(q))
        /\ lifetime[q] = Cardinality(Granted(q))
    BY <1>1 DEF Budgets
  <2>2. inFlight[q] \in Nat /\ liveChildren[q] \in Nat /\ lifetime[q] \in Nat
    BY <1>1 DEF Budgets
  <2> QED
    BY <1>1, <1>3, <1>5, <1>6, <1>8, <2>1, <2>2
<1>10. ASSUME NEW p \in Parents, p # q
       PROVE  /\ inFlight'[p] = Cardinality(UnderWay(p)') /\ inFlight'[p] <= MaxInFlight
              /\ liveChildren'[p] = Cardinality(Children(p)')
              /\ liveChildren'[p] <= MaxLiveChildren
              /\ lifetime'[p] = Cardinality(Granted(p)')
              /\ lifetime'[p] <= MaxLifetimeSpawns
  BY <1>4, <1>8, <1>10 DEF Budgets
<1>11. \A y \in Starts : step'[y] \in {"idle", "asking"} => y \in wanted'
  BY <1>2 DEF Budgets
<1> QED
  BY <1>8, <1>9, <1>10, <1>11 DEF Budgets

----------------------------------------------------------------------------
\* A start that enters the queue waits at its end.
LEMMA EnterInv ==
  ASSUME GateInv, NEW x \in Starts, step[x] \in {"idle", "asking"}, Enter(x),
         UNCHANGED <<wanted, held, reserved, settled, overlooked>>, Budgets'
  PROVE  GateInv'
<1> USE DEF GateInv
<1>1. /\ step' = [step EXCEPT ![x] = "queued"] /\ queue' = Append(queue, x)
      /\ \A y \in Starts : step'[y] = IF y = x THEN "queued" ELSE step[y]
      /\ step' \in [Starts -> Steps]
  BY DEF Enter, Typed, Steps
<1>2. /\ InLine' = InLine \cup {x} /\ x \notin InLine
      /\ InQueue' = InQueue \cup {x} /\ Admitted' = Admitted
  BY <1>1 DEF InLine, InQueue, Admitted, Waiting
<1>3. /\ queue' \in Seq(Starts) /\ IsInjective(queue')
      /\ ToSet(queue') = ToSet(queue) \cup {x}
      /\ queue # <<>> => queue' # <<>> /\ Head(queue') = Head(queue)
  BY <1>1, <1>2, AppendLine DEF OneByOne, Typed
<1>4. Typed'
  BY <1>1, <1>3 DEF Typed
<1>5. OneByOne'
  BY <1>1, <1>2, <1>3 DEF OneByOne, AtHead
<1>6. Flags'
  <2>1. CASE held
    <3>1. Flag({x})
      BY <2>1 DEF Enter
    <3>2. flagged' \subseteq flagged \cup {x} /\ heldStartCount' = Cardinality(flagged')
      BY <3>1, FlagCounts
    <3> QED
      BY <1>2, <3>2 DEF Flags
  <2>2. CASE ~held
    BY <1>2, <2>2 DEF Enter, Flags
  <2> QED
    BY <2>1, <2>2
<1>7. Accounted'
  BY <1>2 DEF Accounted
<1> QED
  BY <1>4, <1>5, <1>6, <1>7

\* The head is started, with its reservation, or goes, and takes its flag along.
LEMMA CallFnInv ==
  ASSUME GateInv, NEW x \in Starts, AtHead(x), step[x] \in Waiting, CallFn(x),
         UNCHANGED <<wanted, settled, overlooked>>, held' \in BOOLEAN,
         reserved' \subseteq Starts, reserved \subseteq reserved',
         x \in wanted => x \in reserved'
  PROVE  GateInv'
<1> USE DEF GateInv
<1>1. flagged' = flagged \ {x} /\ heldStartCount' = Cardinality(flagged')
  BY LeaveCounts DEF CallFn
<1>2. UNCHANGED <<liveChildren, lifetime>>
  BY DEF CallFn
<1>3. CASE x \in wanted
  <2>1. /\ step' = [step EXCEPT ![x] = "starting"] /\ UNCHANGED <<queue, inFlight>>
        /\ \A y \in Starts : step'[y] = IF y = x THEN "starting" ELSE step[y]
        /\ step' \in [Starts -> Steps]
    BY <1>3 DEF CallFn, Typed, Steps
  <2>2. /\ InLine' = InLine /\ InQueue' = InQueue \ {x}
        /\ Admitted' = Admitted \cup {x}
    BY <2>1 DEF InLine, InQueue, Admitted, Waiting
  <2>3. Typed'
    BY <1>2, <2>1 DEF Typed
  <2>4. OneByOne'
    BY <2>1, <2>2 DEF OneByOne, AtHead
  <2>5. Budgets'
    <3>1. /\ "starting" \in Steps /\ "starting" \notin {"idle", "asking"}
          /\ {"starting", step[x]} \subseteq Waiting \cup {"starting"}
          /\ UNCHANGED <<inFlight, liveChildren, lifetime, wanted>>
      BY <1>2, <2>1 DEF Steps
    <3> QED
      BY <2>1, <3>1, SameBudgets
  <2>6. Flags' /\ Accounted'
    BY <1>1, <1>3, <2>2 DEF Flags, Accounted
  <2> QED
    BY <2>3, <2>4, <2>5, <2>6
<1>4. CASE x \notin wanted
  <2>1. /\ step' = [step EXCEPT ![x] = "over"] /\ queue' = Tail(queue) /\ EndOf(x)
        /\ \A y \in Starts : step'[y] = IF y = x THEN "over" ELSE step[y]
        /\ step' \in [Starts -> Steps]
    BY <1>4 DEF CallFn, Typed, Steps
  <2>2. /\ InLine' = InLine \ {x} /\ InQueue' = InQueue \ {x} /\ Admitted' = Admitted
    BY <2>1 DEF InLine, InQueue, Admitted, Waiting
  <2>3. /\ queue' \in Seq(Starts) /\ IsInjective(queue')
        /\ ToSet(queue') = ToSet(queue) \ {x}
    BY <2>1, TailLine DEF AtHead, OneByOne, Typed
  <2>4. Typed'
    BY <1>2, <2>1, <2>3 DEF Typed
  <2>5. OneByOne'
    BY <2>1, <2>2, <2>3 DEF OneByOne, AtHead
  <2>6. Budgets'
    BY <1>2, <1>4, <2>1, EndBudgets
  <2>7. Flags' /\ Accounted'
    BY <1>1, <2>2 DEF Flags, Accounted
  <2> QED
    BY <2>4, <2>5, <2>6, <2>7
<1> QED
  BY <1>3, <1>4

\* The head goes from one wait to the next.
LEMMA HeadWaitsInv ==
  ASSUME GateInv, NEW x \in Starts, AtHead(x), step[x] \in Waiting,
         NEW s \in Waiting, step' = [step EXCEPT ![x] = s],
         UNCHANGED <<queue, wanted, reserved, settled, inFlight, liveChildren, lifetime,
                     overlooked>>,
         held' \in BOOLEAN, flagged' \subseteq InQueue,
         heldStartCount' = Cardinality(flagged')
  PROVE  GateInv'
<1> USE DEF GateInv
<1>1. /\ s \in Steps /\ s \notin {"idle", "asking", "starting", "up"}
      /\ \A y \in Starts : step'[y] = IF y = x THEN s ELSE step[y]
      /\ step' \in [Starts -> Steps]
  BY DEF Typed, Steps, Waiting
<1>2. InLine' = InLine /\ InQueue' = InQueue /\ Admitted' = Admitted
  BY <1>1 DEF InLine, InQueue, Admitted, Waiting
<1>3. Typed'
  BY <1>1 DEF Typed
<1>4. OneByOne'
  BY <1>1, <1>2 DEF OneByOne, AtHead
<1>5. Budgets'
  <2>1. {s, step[x]} \subseteq Waiting \cup {"starting"}
    OBVIOUS
  <2> QED
    BY <1>1, <2>1, SameBudgets
<1>6. Flags' /\ Accounted'
  BY <1>2 DEF Flags, Accounted
<1> QED
  BY <1>3, <1>4, <1>5, <1>6

----------------------------------------------------------------------------
\* The callers' steps: a resume and a spawn that is let in join the queue.
LEMMA CallersInv ==
  ASSUME GateInv, NEW x \in Starts, RunAutoResume(x) \/ Ask(x) \/ Answer(x)
  PROVE  GateInv'
<1> USE DEF GateInv
<1>1. ASSUME NEW s \in {"asking", "refused"}, step[x] \in {"idle", "asking"},
             step' = [step EXCEPT ![x] = s], x \in Spawns,
             UNCHANGED <<queue, wanted, held, flagged, heldStartCount, reserved,
                         settled, inFlight, liveChildren, lifetime, overlooked>>
      PROVE  GateInv'
  <2>1. /\ s \in Steps /\ step' \in [Starts -> Steps]
        /\ \A y \in Starts : step'[y] = IF y = x THEN s ELSE step[y]
    BY <1>1 DEF Typed, Steps
  <2>2. InLine' = InLine /\ InQueue' = InQueue /\ Admitted' = Admitted
    BY <1>1, <2>1 DEF InLine, InQueue, Admitted, Waiting
  <2>3. Budgets'
    <3>1. x \in wanted
      BY <1>1 DEF Budgets
    <3>2. {s, step[x]} \subseteq {"idle", "asking", "refused"}
      BY <1>1
    <3> QED
      BY <1>1, <2>1, <3>1, <3>2, SameBudgets
  <2>4. Typed' /\ Flags' /\ Accounted'
    BY <1>1, <2>1, <2>2 DEF Typed, Flags, Accounted
  <2>5. OneByOne'
    BY <1>1, <2>1, <2>2 DEF OneByOne, AtHead
  <2> QED
    BY <2>3, <2>4, <2>5
<1>2. CASE RunAutoResume(x)
  <2>1. /\ step[x] = "idle" /\ x \in Resumes /\ Enter(x)
        /\ step' = [step EXCEPT ![x] = "queued"]
        /\ UNCHANGED <<wanted, held, reserved, settled, inFlight, liveChildren, lifetime,
                       overlooked>>
    BY <1>2 DEF RunAutoResume, Enter
  <2>2. Budgets'
    BY <2>1, SameBudgets DEF Steps
  <2> QED
    BY <2>1, <2>2, EnterInv DEF Typed
<1>3. CASE Ask(x)
  BY <1>1, <1>3 DEF Ask
<1>4. CASE Answer(x)
  <2>1. /\ x \in Spawns /\ step[x] = "asking"
        /\ UNCHANGED <<wanted, held, reserved, settled, overlooked>>
    BY <1>4 DEF Answer
  <2>2. CASE step' = [step EXCEPT ![x] = "refused"]
             /\ UNCHANGED <<queue, flagged, heldStartCount, inFlight, liveChildren, lifetime>>
    BY <1>1, <2>1, <2>2
  <2>3. CASE /\ Allowed(ParentOf[x]) /\ Enter(x)
             /\ inFlight' = [inFlight EXCEPT ![ParentOf[x]] = @ + 1]
             /\ lifetime' = [lifetime EXCEPT ![ParentOf[x]] = @ + 1]
             /\ liveChildren' = [liveChildren EXCEPT ![ParentOf[x]] = @ + 1]
    <3>1. step' = [step EXCEPT ![x] = "queued"]
      BY <2>3 DEF Enter
    <3> QED
      BY <2>1, <2>3, <3>1, LetInBudgets, EnterInv
  <2> QED
    BY <1>4, <2>2, <2>3 DEF Answer, MaySpawn
<1> QED
  BY <1>2, <1>3, <1>4

\* The steps of the start at the head of the queue.
LEMMA HeadInv ==
  ASSUME GateInv, NEW x \in Starts, Turn(x) \/ Decide(x) \/ Wake(x)
  PROVE  GateInv'
<1> USE DEF GateInv
<1>1. /\ flagged \subseteq InQueue /\ heldStartCount = Cardinality(flagged)
      /\ held \in BOOLEAN /\ reserved \subseteq Starts /\ AtHead(x)
      /\ "probing" \in Waiting /\ "sleeping" \in Waiting /\ step[x] \in Waiting
  BY DEF Flags, Typed, Waiting, Turn, Decide, Wake
<1>2. ~StillWanted(x) => x \notin wanted
  BY DEF StillWanted
<1>3. CASE Turn(x)
  <2>1. CASE StillWanted(x)
    BY <1>1, <1>3, <2>1, HeadWaitsInv DEF Turn
  <2>2. CASE ~StillWanted(x)
    BY <1>1, <1>2, <1>3, <2>2, CallFnInv DEF Turn
  <2> QED
    BY <2>1, <2>2
<1>4. CASE Decide(x)
  <2>0. UNCHANGED <<wanted, settled, overlooked>>
    BY <1>4 DEF Decide
  <2>1. CASE reserved' = reserved \cup {x} /\ held' = FALSE /\ CallFn(x)
    <3>1. held' \in BOOLEAN /\ reserved' \subseteq Starts
          /\ reserved \subseteq reserved' /\ x \in reserved'
      BY <1>1, <2>1
    <3> QED
      BY <1>1, <2>0, <2>1, <3>1, CallFnInv
  <2>2. CASE ~StillWanted(x) /\ CallFn(x) /\ UNCHANGED <<held, reserved>>
    BY <1>1, <1>2, <2>0, <2>2, CallFnInv
  <2>3. CASE /\ step' = [step EXCEPT ![x] = "sleeping"] /\ held' = TRUE
             /\ IF held THEN UNCHANGED <<flagged, heldStartCount>> ELSE Flag(InQueue)
             /\ UNCHANGED <<queue, reserved, inFlight, liveChildren, lifetime>>
    <3>1. flagged' \subseteq InQueue /\ heldStartCount' = Cardinality(flagged')
      <4>1. CASE held
        BY <1>1, <2>3, <4>1
      <4>2. CASE ~held
        BY <1>1, <2>3, <4>2, FlagCounts DEF InQueue
      <4> QED
        BY <4>1, <4>2
    <3>2. held' \in BOOLEAN
      BY <2>3
    <3> QED
      BY <1>1, <2>0, <2>3, <3>1, <3>2, HeadWaitsInv
  <2> QED
    BY <1>4, <2>1, <2>2, <2>3 DEF Decide
<1>5. CASE Wake(x)
  <2>1. CASE StillWanted(x)
    BY <1>1, <1>5, <2>1, HeadWaitsInv DEF Wake
  <2>2. CASE ~StillWanted(x)
    <3>1. held' = FALSE /\ held' \in BOOLEAN /\ CallFn(x)
          /\ UNCHANGED <<wanted, reserved, settled, overlooked>>
      BY <1>5, <2>2 DEF Wake
    <3> QED
      BY <1>1, <1>2, <2>2, <3>1, CallFnInv
  <2> QED
    BY <2>1, <2>2
<1> QED
  BY <1>3, <1>4, <1>5

\* A start that ends leaves the queue to the next.
LEMMA StartEndsInv ==
  ASSUME GateInv, NEW x \in Starts, StartEnds(x)
  PROVE  GateInv'
<1> USE DEF GateInv
<1>1. /\ step[x] = "starting" /\ queue' = Tail(queue) /\ EndOf(x)
      /\ step' = [step EXCEPT ![x] = "up"] /\ AtHead(x)
      /\ UNCHANGED <<wanted, held, flagged, heldStartCount, reserved, settled,
                     liveChildren, lifetime, overlooked>>
  BY DEF StartEnds, OneByOne
<1>2. /\ step' \in [Starts -> Steps]
      /\ \A y \in Starts : step'[y] = IF y = x THEN "up" ELSE step[y]
  BY <1>1 DEF Typed, Steps
<1>3. InLine' = InLine \ {x} /\ InQueue' = InQueue /\ Admitted' = Admitted
  BY <1>1, <1>2 DEF InLine, InQueue, Admitted, Waiting
<1>4. /\ queue' \in Seq(Starts) /\ IsInjective(queue')
      /\ ToSet(queue') = ToSet(queue) \ {x}
  BY <1>1, TailLine DEF AtHead, OneByOne, Typed
<1>5. Typed' /\ Flags' /\ Accounted'
  BY <1>1, <1>2, <1>3, <1>4 DEF Typed, Flags, Accounted
<1>6. OneByOne'
  BY <1>1, <1>2, <1>3, <1>4 DEF OneByOne, AtHead
<1>7. Budgets'
  BY <1>1, EndBudgets
<1> QED
  BY <1>5, <1>6, <1>7

\* What becomes of the sessions, and of their reservations.
LEMMA SessionsInv ==
  ASSUME GateInv, NEW x \in Starts, Unwant(x) \/ Settle(x) \/ Expire(x) \/ Exit(x)
  PROVE  GateInv'
<1> USE DEF GateInv
<1>1. CASE Unwant(x)
  <2>1. /\ ReleaseChildSlot(x) /\ wanted' = wanted \ {x}
        /\ step[x] \in Waiting \cup {"starting"}
        /\ UNCHANGED <<queue, step, held, flagged, heldStartCount, reserved,
                       settled, inFlight, lifetime, overlooked>>
    BY <1>1 DEF Unwant
  <2>2. InLine' = InLine /\ InQueue' = InQueue /\ Admitted' = Admitted
    BY <2>1 DEF InLine, InQueue, Admitted
  <2>3. Typed' /\ OneByOne' /\ Flags' /\ Accounted'
    BY <2>1, <2>2 DEF Typed, OneByOne, AtHead, Flags, Accounted
  <2>4. Budgets'
    BY <2>1, ReleaseBudgets
  <2> QED
    BY <2>3, <2>4
<1>2. CASE Settle(x) \/ Expire(x)
  <2>1. /\ UNCHANGED <<queue, step, wanted, held, flagged, heldStartCount,
                       inFlight, liveChildren, lifetime>>
        /\ reserved' \subseteq reserved /\ settled' \subseteq Admitted
        /\ overlooked' \subseteq Admitted
        /\ Admitted \subseteq settled' \cup reserved' \cup overlooked'
    BY <1>2 DEF Settle, Expire, Unseen, Accounted
  <2>2. InLine' = InLine /\ InQueue' = InQueue /\ Admitted' = Admitted
    BY <2>1 DEF InLine, InQueue, Admitted
  <2>3. \A p : /\ UnderWay(p)' = UnderWay(p) /\ Children(p)' = Children(p)
               /\ Granted(p)' = Granted(p)
    BY <2>1 DEF UnderWay, Children, Granted
  <2> QED
    BY <2>1, <2>2, <2>3 DEF Typed, OneByOne, AtHead, Flags, Budgets, Accounted
<1>3. CASE Exit(x)
  <2>1. /\ step[x] = "up" /\ step' = [step EXCEPT ![x] = "over"]
        /\ settled' = settled \ {x} /\ overlooked' = overlooked \ {x}
        /\ ReleaseChildSlot(x) /\ wanted' = wanted \ {x}
        /\ UNCHANGED <<queue, held, flagged, heldStartCount, reserved, inFlight, lifetime>>
    BY <1>3 DEF Exit
  <2>2. /\ step' \in [Starts -> Steps]
        /\ \A y \in Starts : step'[y] = IF y = x THEN "over" ELSE step[y]
    BY <2>1 DEF Typed, Steps
  <2>3. InLine' = InLine /\ InQueue' = InQueue /\ Admitted' = Admitted \ {x}
    BY <2>1, <2>2 DEF InLine, InQueue, Admitted, Waiting
  <2>4. Typed' /\ Flags' /\ Accounted'
    BY <2>1, <2>2, <2>3 DEF Typed, Flags, Accounted
  <2>5. OneByOne'
    BY <2>1, <2>2, <2>3 DEF OneByOne, AtHead
  <2>6. Budgets'
    BY <2>1, ReleaseBudgets
  <2> QED
    BY <2>4, <2>5, <2>6
<1> QED
  BY <1>1, <1>2, <1>3

----------------------------------------------------------------------------
\* Initially nothing was asked for.
LEMMA InitInv == Init => GateInv
<1> SUFFICES ASSUME Init PROVE GateInv
  OBVIOUS
<1> USE DEF Init
<1>1. Typed
  BY EmptySeq DEF Typed, Steps
<1>2. /\ InLine = {} /\ Admitted = {}
      /\ \A p : UnderWay(p) = {} /\ Children(p) = {} /\ Granted(p) = {}
  BY DEF InLine, Admitted, UnderWay, Children, Granted, Waiting, Starts
<1>3. OneByOne
  BY <1>2 DEF OneByOne, IsInjective, ToSet
<1>4. /\ Cardinality({}) = 0 /\ MaxInFlight \in Nat /\ MaxLiveChildren \in Nat
      /\ MaxLifetimeSpawns \in Nat
  BY FS_EmptySet, GateAssumption
<1>5. Flags
  BY <1>4 DEF Flags
<1>6. Budgets
  <2>1. ASSUME NEW p \in Parents
        PROVE  /\ inFlight[p] = Cardinality(UnderWay(p)) /\ inFlight[p] <= MaxInFlight
               /\ liveChildren[p] = Cardinality(Children(p))
               /\ liveChildren[p] <= MaxLiveChildren
               /\ lifetime[p] = Cardinality(Granted(p))
               /\ lifetime[p] <= MaxLifetimeSpawns
    <3>1. UnderWay(p) = {} /\ Children(p) = {} /\ Granted(p) = {}
      BY <1>2
    <3>2. inFlight[p] = 0 /\ liveChildren[p] = 0 /\ lifetime[p] = 0
      OBVIOUS
    <3> QED
      BY <1>4, <3>1, <3>2
  <2>2. /\ inFlight \in [Parents -> Nat] /\ liveChildren \in [Parents -> Nat]
        /\ lifetime \in [Parents -> Nat]
    OBVIOUS
  <2> QED
    BY <2>1, <2>2 DEF Budgets
<1>7. Accounted
  BY <1>2 DEF Accounted
<1> QED
  BY <1>1, <1>3, <1>5, <1>6, <1>7 DEF GateInv

\* Every step keeps the invariant.
LEMMA StepInv == GateInv /\ [Next]_gateVars => GateInv'
<1> SUFFICES ASSUME GateInv, [Next]_gateVars PROVE GateInv'
  OBVIOUS
<1>1. CASE Next
  BY <1>1, CallersInv, HeadInv, StartEndsInv, SessionsInv DEF Next, HeadMoves
<1>2. CASE UNCHANGED gateVars
  <2>1. \A p : /\ UnderWay(p)' = UnderWay(p) /\ Children(p)' = Children(p)
               /\ Granted(p)' = Granted(p)
    BY <1>2 DEF gateVars, UnderWay, Children, Granted
  <2> QED
    BY <1>2, <2>1
    DEF gateVars, GateInv, Typed, OneByOne, AtHead, InLine, Flags, InQueue, Budgets,
        Accounted, Admitted
<1> QED
  BY <1>1, <1>2

\* What the invariant is for: the property the model checker runs.
LEMMA InvCounts == GateInv => CountsHold
<1> SUFFICES ASSUME GateInv PROVE CountsHold
  OBVIOUS
<1> USE DEF GateInv
<1>1. Cardinality(flagged) \in Nat /\ flagged \subseteq Starts
  BY FiniteStarts DEF Flags, InQueue
<1>2. TypeOK
  BY <1>1 DEF TypeOK, Typed, OneByOne, Flags, Budgets, Accounted
<1>3. HeldStartsWait
  BY DEF HeldStartsWait, Flags
<1>4. BudgetHolds
  <2>1. ASSUME NEW p \in Parents
        PROVE  /\ Cardinality(UnderWay(p)) <= MaxInFlight
               /\ Cardinality(Children(p)) <= MaxLiveChildren
               /\ Cardinality(Granted(p)) <= MaxLifetimeSpawns
    BY DEF Budgets
  <2>2. ASSUME NEW p
        PROVE  Children(p) = {x \in wanted \cap Spawns : ParentOf[x] = p /\
                                step[x] \in Waiting \cup {"starting", "up"}}
    BY DEF Children
  <2> QED
    BY <2>1, <2>2 DEF BudgetHolds, UnderWay, Granted
<1> QED
  BY <1>2, <1>3, <1>4 DEF CountsHold

\* With readings that do not fail, a start is let through only when those seen
\* and those reserved leave room for it; every admitted session that is not
\* overlooked is one of them.
LEMMA StepFits ==
  ASSUME ~MayFailToRead, GateInv, [Next]_gateVars
  PROVE  \A x \in Starts : step[x] = "probing" /\ step'[x] = "starting"
           => Cardinality(Admitted \ overlooked) < Memory
<1> SUFFICES ASSUME NEW x \in Starts, step[x] = "probing", step'[x] = "starting"
             PROVE  Cardinality(Admitted \ overlooked) < Memory
  OBVIOUS
<1> USE DEF GateInv
<1>1. step \in [Starts -> Steps] /\ Memory \in Nat
  BY GateAssumption DEF Typed
<1>2. Enough
  <2>1. PICK y \in Starts :
          \/ RunAutoResume(y) \/ Ask(y) \/ Answer(y)
          \/ Turn(y) \/ Decide(y) \/ Wake(y) \/ StartEnds(y)
          \/ Unwant(y) \/ Settle(y) \/ Expire(y) \/ Exit(y)
    BY <1>1 DEF Next, HeadMoves, gateVars
  <2>2. CASE Decide(y)
    <3>1. y = x
      BY <1>1, <2>2 DEF Decide, CallFn
    <3>2. ~StillWanted(x) => ~CallFn(x)
      BY <1>1 DEF StillWanted, CallFn
    <3> QED
      BY <1>1, <2>2, <3>1, <3>2 DEF Decide
  <2>3. CASE Turn(y) \/ Wake(y)
    BY <1>1, <2>3 DEF Turn, Wake, CallFn
  <2>4. CASE RunAutoResume(y) \/ Ask(y) \/ Answer(y) \/ StartEnds(y)
    BY <1>1, <2>4 DEF RunAutoResume, Ask, Answer, StartEnds, Enter
  <2>5. CASE Unwant(y) \/ Settle(y) \/ Expire(y) \/ Exit(y)
    BY <1>1, <2>5 DEF Unwant, Settle, Expire, Exit
  <2> QED
    BY <2>1, <2>2, <2>3, <2>4, <2>5
<1>3. /\ IsFiniteSet(settled) /\ IsFiniteSet(reserved)
      /\ Cardinality(settled) \in Nat /\ Cardinality(reserved) \in Nat
      /\ Cardinality(Admitted \ overlooked) \in Nat
  <2>1. settled \subseteq Starts /\ reserved \subseteq Starts /\ Admitted \subseteq Starts
    BY DEF Accounted, Typed, Admitted
  <2> QED
    BY <2>1, FiniteStarts
<1>4. Cardinality(settled \cup reserved) <= Cardinality(settled) + Cardinality(reserved)
  <2>1. /\ IsFiniteSet(settled \cap reserved)
        /\ Cardinality(settled \cup reserved)
             = Cardinality(settled) + Cardinality(reserved) - Cardinality(settled \cap reserved)
    BY <1>3, FS_Union, FS_Intersection
  <2>2. Cardinality(settled \cap reserved) \in Nat
    BY <2>1, FS_CardinalityType
  <2> QED
    BY <1>3, <2>1, <2>2
<1>5. /\ Cardinality(Admitted \ overlooked) <= Cardinality(settled \cup reserved)
      /\ Cardinality(settled \cup reserved) \in Nat
  <2>1. IsFiniteSet(settled \cup reserved)
    BY <1>3, FS_Union
  <2> QED
    BY <2>1, FS_Subset, FS_CardinalityType DEF Accounted
<1>6. Memory - Cardinality(settled) - Cardinality(reserved) >= 1
  BY <1>1, <1>2, <1>3 DEF Enough, Headroom
<1> QED
  BY <1>1, <1>3, <1>4, <1>5, <1>6

\* Held starts, spawns under way and living children are counted right, and no
\* parent exceeds its budget.
THEOREM GateCounts == Spec => []CountsHold
<1>1. Spec => []GateInv
  BY InitInv, StepInv, PTL DEF Spec
<1> QED
  BY <1>1, InvCounts, PTL

\* When readings do not fail, the gate lets through only what there is room for
\* beside all that a reading sees or that were let through at most 30 seconds ago.
THEOREM GateFits ==
  ASSUME ~MayFailToRead
  PROVE  Spec => AdmitsWhatFits
<1>1. Spec => []GateInv
  BY InitInv, StepInv, PTL DEF Spec
<1>2. GateInv /\ [Next]_gateVars =>
        [\A x \in Starts : step[x] = "probing" /\ step'[x] = "starting"
           => Cardinality(Admitted \ overlooked) < Memory]_gateVars
  BY StepFits
<1> QED
  BY <1>1, <1>2, PTL DEF Spec, AdmitsWhatFits
=============================================================================
