----------------------------- MODULE TurnProofs -----------------------------
(* Theorems about the end of a turn.  The status source keeps the contract   *)
(* TurnReport states, and a hook wins any conflict, for all windows and      *)
(* however late the timers fire; the background gate watches what it holds,  *)
(* and completes a turn in time, for any agents and shells.                  *)
EXTENDS StatusSource, BackgroundGate, FiniteSetTheorems, TLAPS

-----------------------------------------------------------------------------
(* The status source. *)

\* A ready on hold is the agent's last word, and has stood for a whole window
\* when its timer fires.
Held ==
  /\ since <= now
  /\ pending # Nothing =>
       /\ heard = "ready"
       /\ since + ConflictWindow <= pending.due

\* What was emitted is remembered by _last, and is what was heard once nothing
\* is on hold.
Spoken ==
  /\ pending = Nothing /\ ~destroyed => told = heard
  /\ last # Nothing /\ last.signal \in Words => told = last.signal

\* The confidence of a hook's ready is on hold or has been emitted.
Vouched ==
  /\ hookEnded /\ ~destroyed =>
       \/ hookEndTold
       \/ pending # Nothing /\ pending.confidence = "high"
  /\ (last # Nothing /\ last.signal = "ready" /\ last.confidence = "high")
       => hookEndTold

SourceInv == TypeOK /\ Held /\ Spoken /\ Vouched

\* Initially nothing was heard.
LEMMA InitInv == Init => SourceInv
<1> SUFFICES ASSUME Init PROVE SourceInv
  OBVIOUS
<1> USE DEF Init
<1>1. 0 \in 0..Horizon
  BY WindowsAssumption
<1>2. TypeOK
  BY <1>1 DEF TypeOK
<1>3. Held /\ Spoken /\ Vouched
  BY <1>1 DEF Held, Spoken, Vouched
<1> QED
  BY <1>2, <1>3 DEF SourceInv

\* Any signal but ready: what cancels the hold is what becomes the last word.
LEMMA HearNowInv ==
  ASSUME SourceInv, ~destroyed, UNCHANGED <<now, destroyed>>,
         NEW signal \in Immediate, NEW confidence \in Confidences,
         NEW ts \in Nat, HearNow(signal, confidence, ts)
  PROVE  SourceInv'
<1> USE DEF SourceInv
<1>1. /\ signal # "ready"
      /\ Cancels(signal) <=> signal \in Words
  BY DEF Immediate, Activity, Words, Cancels
<1>2. last' \in Statuses \cup {Nothing}
  BY DEF HearNow, Resolve, TypeOK, Statuses
<1>3. TypeOK'
  BY <1>1, <1>2 DEF HearNow, Resolve, TypeOK
<1>4. Held'
  BY <1>1 DEF HearNow, Held, Resolve, TypeOK
<1>5. Spoken'
  BY <1>1, NothingAssumption DEF HearNow, Resolve, Repeats, Spoken, TypeOK
<1>6. Vouched'
  BY <1>1 DEF HearNow, Resolve, Repeats, Vouched, TypeOK
<1> QED
  BY <1>3, <1>4, <1>5, <1>6

\* A ready: held from now on, or joined to the one on hold.
LEMMA HearReadyInv ==
  ASSUME SourceInv, ~destroyed, UNCHANGED <<now, destroyed>>,
         NEW confidence \in Confidences, HearReady(confidence)
  PROVE  SourceInv'
<1> USE DEF SourceInv
<1>1. /\ pending' \in Readies /\ pending' # Nothing
      /\ pending = Nothing => pending'.due = now + ConflictWindow
      /\ pending # Nothing => pending'.due = pending.due
      /\ confidence = "high" => pending'.confidence = "high"
      /\ pending # Nothing /\ pending.confidence = "high"
           => pending'.confidence = "high"
  <2>1. now \in Nat /\ now + ConflictWindow \in Nat
    BY WindowsAssumption DEF TypeOK
  <2>2. CASE pending = Nothing
    BY <2>1, <2>2, NothingAssumption DEF HearReady, Readies
  <2>3. CASE pending # Nothing
    <3>1. pending \in Readies
      BY <2>3 DEF TypeOK
    <3>2. /\ pending' \in Readies
          /\ pending'.due = pending.due
          /\ confidence = "high" => pending'.confidence = "high"
          /\ pending.confidence = "high" => pending'.confidence = "high"
      BY <2>1, <2>3, <3>1 DEF HearReady, Joined, Readies
    <3> QED
      BY <2>3, <3>2, NothingAssumption
  <2> QED
    BY <2>2, <2>3
<1>2. TypeOK'
  <2>1. {hookEnded', hookEndTold'} \subseteq BOOLEAN
    BY DEF HearReady, TypeOK
  <2>2. since' \in 0..Horizon
    BY DEF HearReady, TypeOK
  <2> QED
    BY <1>1, <2>1, <2>2 DEF HearReady, TypeOK, Words
<1>3. Held'
  BY <1>1, WindowsAssumption DEF HearReady, Held, Spoken, TypeOK
<1>4. Spoken'
  BY <1>1 DEF HearReady, Spoken
<1>5. Vouched'
  BY <1>1 DEF HearReady, Vouched
<1> QED
  BY <1>2, <1>3, <1>4, <1>5

\* Every input of the session keeps the invariant.
LEMMA IngestInv == SourceInv /\ Ingest => SourceInv'
<1> SUFFICES ASSUME SourceInv, Ingest PROVE SourceInv'
  OBVIOUS
<1>1. ~destroyed /\ UNCHANGED <<now, destroyed>> /\ now \in Nat
  BY WindowsAssumption DEF Ingest, Listens, SourceInv, TypeOK
<1>2. PICK input \in Inputs :
        \/ input[1] = "ready" /\ HearReady(input[2])
        \/ \E ts \in Stamps(input[1]) : HearNow(input[1], input[2], ts)
  BY DEF Ingest
<1>3. input[2] \in Confidences
  BY DEF Inputs, Confidences, Immediate
<1>4. CASE HearReady(input[2])
  BY <1>1, <1>3, <1>4, HearReadyInv
<1>5. CASE \E ts \in Stamps(input[1]) : HearNow(input[1], input[2], ts)
  <2>1. PICK ts \in Stamps(input[1]) : HearNow(input[1], input[2], ts)
    BY <1>5
  <2>2. ts \in Nat /\ input[1] \in Immediate
    BY <1>1, <2>1 DEF Stamps, HearNow
  <2> QED
    BY <1>1, <1>3, <2>1, <2>2, HearNowInv
<1> QED
  BY <1>2, <1>4, <1>5

\* The timer: what it drops as a repeat has been told, and as surely.
LEMMA FiresInv == SourceInv /\ PendingReadyFires => SourceInv'
<1> SUFFICES ASSUME SourceInv, PendingReadyFires PROVE SourceInv'
  OBVIOUS
<1> USE DEF SourceInv
<1>1. /\ pending \in Readies /\ pending.confidence \in Confidences
      /\ pending.ts \in Nat /\ pending' = Nothing /\ heard = "ready"
      /\ Resolve("ready", pending.confidence, pending.ts)
  BY DEF PendingReadyFires, TypeOK, Held, Readies
<1>2. last' \in Statuses \cup {Nothing} /\ told' = "ready"
  BY <1>1 DEF Resolve, Repeats, Spoken, TypeOK, Statuses, Words
<1>3. TypeOK'
  BY <1>1, <1>2 DEF PendingReadyFires, TypeOK, Words
<1>4. Held' /\ Spoken'
  BY <1>1, <1>2 DEF PendingReadyFires, Held, Spoken, Resolve, Repeats
<1>5. Vouched'
  <2>1. pending.confidence = "high" => hookEndTold'
    BY <1>1 DEF PendingReadyFires, Repeats, Vouched, Confidences, TypeOK, Statuses
  <2>2. hookEndTold => hookEndTold'
    BY DEF PendingReadyFires
  <2>3. last' = last \/ last'.confidence = pending.confidence
    BY <1>1 DEF Resolve
  <2> QED
    BY <1>1, <2>1, <2>2, <2>3 DEF PendingReadyFires, Vouched
<1> QED
  BY <1>3, <1>4, <1>5

\* The invariant is inductive.
LEMMA NextInv == SourceInv /\ [Next]_vars => SourceInv'
<1> SUFFICES ASSUME SourceInv, [Next]_vars PROVE SourceInv'
  OBVIOUS
<1> USE DEF SourceInv
<1>1. CASE Ingest
  BY <1>1, IngestInv
<1>2. CASE PendingReadyFires
  BY <1>2, FiresInv
<1>3. CASE Reset
  BY <1>3 DEF Reset, TypeOK, Held, Spoken, Vouched
<1>4. CASE Destroy
  BY <1>4 DEF Destroy, history, TypeOK, Held, Spoken, Vouched
<1>5. CASE Tick
  BY <1>5, WindowsAssumption DEF Tick, history, TypeOK, Held, Spoken, Vouched
<1>6. CASE UNCHANGED vars
  BY <1>6 DEF vars, history, TypeOK, Held, Spoken, Vouched
<1> QED
  BY <1>1, <1>2, <1>3, <1>4, <1>5, <1>6 DEF Next

LEMMA Invariance == Spec => []SourceInv
  BY InitInv, NextInv, PTL DEF Spec

\* The types, and that a source that was destroyed holds no timer.
THEOREM SourceTypeCorrect == Spec => []TypeOK
<1>1. SourceInv => TypeOK
  BY DEF SourceInv
<1> QED
  BY <1>1, Invariance, PTL

\* A hook wins any conflict: once nothing is on hold its confidence was told.
THEOREM HookPrevails == Spec => []HookWins
<1>1. SourceInv => HookWins
  BY DEF SourceInv, HookWins, Vouched
<1> QED
  BY <1>1, Invariance, PTL

\* The status source implements the contract the session relies on: a finished
\* turn is told only after a window in which the agent said nothing else.
THEOREM KeepsContract == Spec => ReportsTurns
<1> USE DEF Turn!Say, Turn!EndTurn, Turn!Report, Turn!Forget, Turn!Time
<1>1. Init => Turn!Init
  BY DEF Init, Turn!Init
<1>2. SourceInv /\ [Next]_vars => [Turn!Next]_(Turn!vars)
  <2> SUFFICES ASSUME SourceInv, [Next]_vars,
                      ~UNCHANGED <<now, heard, since, told>>
               PROVE  Turn!Next
    BY DEF Turn!vars
  <2> USE DEF Turn!Next
  <2>1. CASE Ingest
    <3>1. PICK input \in Inputs :
            \/ input[1] = "ready" /\ HearReady(input[2])
            \/ \E ts \in Stamps(input[1]) : HearNow(input[1], input[2], ts)
      BY <2>1 DEF Ingest
    <3>2. CASE HearReady(input[2])
      BY <2>1, <3>2 DEF Ingest, HearReady
    <3>3. CASE \E ts \in Stamps(input[1]) : HearNow(input[1], input[2], ts)
      BY <2>1, <3>3 DEF Ingest, HearNow, Resolve, Repeats, SourceInv, Spoken,
                        Words, Immediate, Activity
    <3> QED
      BY <3>1, <3>2, <3>3
  <2>2. CASE PendingReadyFires
    <3>1. /\ heard = "ready" /\ since + ConflictWindow <= pending.due
          /\ now >= pending.due /\ {now, since, pending.due} \subseteq Int
      BY <2>2, WindowsAssumption
      DEF PendingReadyFires, SourceInv, Held, TypeOK, Readies
    <3>2. told' = "ready" /\ UNCHANGED <<now, heard, since>>
      BY <2>2 DEF PendingReadyFires, Resolve, Repeats, SourceInv, Spoken, Words
    <3> QED
      BY <3>1, <3>2, WindowsAssumption
  <2>3. CASE Reset
    BY <2>3 DEF Reset
  <2>4. CASE Destroy
    BY <2>4 DEF Destroy, history
  <2>5. CASE Tick
    BY <2>5, WindowsAssumption DEF Tick, history, SourceInv, TypeOK
  <2>6. CASE UNCHANGED vars
    BY <2>6 DEF vars, history
  <2> QED
    BY <2>1, <2>2, <2>3, <2>4, <2>5, <2>6 DEF Next
<1> QED
  BY <1>1, <1>2, Invariance, PTL DEF Spec, ReportsTurns, Turn!Spec

-----------------------------------------------------------------------------
(* Numbers, and what is none. *)

\* A set of numbers has a least one: 0..k shrinks with k, and a chain of finite
\* sets that shrink ends.
LEMMA LeastNumber ==
  ASSUME NEW T, T \subseteq Nat, T # {}
  PROVE  \E m \in T : \A k \in T : m <= k
<1> DEFINE below == {0..m : m \in T}
           R == StrictSubsetOrdering(Nat)
<1>1. IsWellFoundedOn(R, FiniteSubsetsOf(Nat))
  BY FS_StrictSubsetOrderingWellFounded
<1>2. below \subseteq FiniteSubsetsOf(Nat) /\ below # {}
  <2>1. ASSUME NEW m \in T PROVE 0..m \in FiniteSubsetsOf(Nat)
    <3>1. IsFiniteSet(0..m)
      BY FS_Interval
    <3> QED
      BY <3>1 DEF FiniteSubsetsOf
  <2> QED
    BY <2>1
<1> HIDE DEF R
<1>3. PICK x \in below : \A y \in below : ~ (<<y, x>> \in R)
  BY <1>1, <1>2, WFMin
<1>4. PICK m \in T : x = 0..m
  BY <1>3
<1>5. ASSUME NEW k \in T PROVE m <= k
  <2> SUFFICES ASSUME k < m PROVE FALSE
    OBVIOUS
  <2>1. 0..k \in SUBSET Nat /\ 0..m \in SUBSET Nat
    OBVIOUS
  <2>2. 0..k \subseteq 0..m /\ m \in 0..m /\ m \notin 0..k
    OBVIOUS
  <2>3. <<0..k, 0..m>> \in R
    BY <2>1, <2>2, Zenon DEF R, StrictSubsetOrdering
  <2> QED
    BY <1>3, <1>4, <2>3
<1> QED
  BY <1>5

LEMMA GateConstants ==
  /\ AgentTtl \in Nat /\ AgentTtl > 0 /\ ShellTtl \in Nat /\ ShellTtl > 0
  /\ Delivery \in Nat /\ Delivery > 0 /\ Settle \in Nat /\ Settle > 0
  /\ Delivery <= ShellTtl /\ MaxSignals \in Nat
  BY GateTimes

LEMMA NoneIs ==
  /\ \A n \in Nat : n # None
  /\ None \notin Live /\ None # "hook" /\ None # "title"
  BY NoneIsApart

-----------------------------------------------------------------------------
(* The task registry. *)

LEMMA RegistryFields ==
  ASSUME NEW r \in RegistryType
  PROVE  /\ r.counted \in [Agents -> Left(AgentTtl)] /\ r.observed \in SUBSET Agents
         /\ r.orphans \in [Agents -> Left(AgentTtl)] /\ r.list \in SUBSET Ids
         /\ r.listLeft \in Left(AgentTtl) /\ r.seen \in [Shells -> Left(ShellTtl)]
         /\ r.idle \in SUBSET Agents /\ r.launched \in [Shells -> Left(ShellTtl)]
         /\ r.undelivered \in [Shells -> Left(Delivery)]
  BY DEF RegistryType

LEMMA Lefts ==
  /\ AgentTtl \in Left(AgentTtl) /\ ShellTtl \in Left(ShellTtl)
  /\ Delivery \in Left(Delivery)
  /\ \A n : None \in Left(n)
  /\ \A n \in Nat : \A x \in Left(n) : x = None \/ (x \in 1..n /\ x # None)
  BY GateConstants, NoneIs DEF Left

LEMMA EmptyTyped == EmptyRegistry \in RegistryType
<1>1. /\ [a \in Agents |-> None] \in [Agents -> Left(AgentTtl)]
      /\ [s \in Shells |-> None] \in [Shells -> Left(ShellTtl)]
      /\ [s \in Shells |-> None] \in [Shells -> Left(Delivery)]
      /\ None \in Left(AgentTtl)
  BY Lefts
<1> QED
  BY <1>1 DEF EmptyRegistry, RegistryType

LEMMA StartTyped ==
  ASSUME NEW r \in RegistryType, NEW a \in Agents
  PROVE  LET q == NoteAgentStart(r, a)
         IN /\ q \in RegistryType
            /\ q.seen = r.seen /\ q.launched = r.launched
            /\ q.undelivered = r.undelivered /\ q.list = r.list
<1> DEFINE c == [r.counted EXCEPT ![a] = AgentTtl]
           q == NoteAgentStart(r, a)
<1>1. c \in [Agents -> Left(AgentTtl)]
  BY RegistryFields, Lefts
<1>2. q = [r EXCEPT !.counted = c, !.idle = r.idle \ {a},
                    !.observed = r.observed \cup {a}]
  BY DEF NoteAgentStart, RegistryType
<1> HIDE DEF c, q
<1>3. r.idle \ {a} \in SUBSET Agents /\ r.observed \cup {a} \in SUBSET Agents
  BY RegistryFields
<1>4. q \in RegistryType
  BY <1>1, <1>2, <1>3 DEF RegistryType
<1>5. /\ q.seen = r.seen /\ q.launched = r.launched
      /\ q.undelivered = r.undelivered /\ q.list = r.list
  BY <1>2 DEF RegistryType
<1> QED
  BY <1>4, <1>5 DEF q

\* A stop that changes the stops nobody started is the first of its agent.
LEMMA StopTyped ==
  ASSUME NEW r \in RegistryType, NEW a \in Agents
  PROVE  LET q == NoteAgentStop(r, a)
         IN /\ q \in RegistryType
            /\ q.seen = r.seen /\ q.launched = r.launched
            /\ q.undelivered = r.undelivered /\ q.list = r.list
            /\ StopOutcome(r, a) # "orphan" => q.orphans = r.orphans
<1> DEFINE c == [r.counted EXCEPT ![a] = None]
           o == [r.orphans EXCEPT ![a] = IF StopOutcome(r, a) = "orphan"
                                         THEN AgentTtl ELSE r.orphans[a]]
           q == NoteAgentStop(r, a)
<1>1. c \in [Agents -> Left(AgentTtl)] /\ o \in [Agents -> Left(AgentTtl)]
  BY RegistryFields, Lefts
<1>2. q = [r EXCEPT !.counted = c, !.observed = r.observed \cup {a}, !.orphans = o]
  BY DEF NoteAgentStop, RegistryType
<1>3. StopOutcome(r, a) # "orphan" => o = r.orphans
  BY RegistryFields
<1> HIDE DEF c, o, q
<1>4. r.observed \cup {a} \in SUBSET Agents
  BY RegistryFields
<1>5. q \in RegistryType
  BY <1>1, <1>2, <1>4 DEF RegistryType
<1>6. /\ q.seen = r.seen /\ q.launched = r.launched /\ q.orphans = o
      /\ q.undelivered = r.undelivered /\ q.list = r.list
  BY <1>2 DEF RegistryType
<1> QED
  BY <1>3, <1>5, <1>6 DEF q

\* Claude's list sets the shells it shows as seen, and those that settled as owed
\* a follow-up.
LEMMA ReconcileTyped ==
  ASSUME NEW r \in RegistryType, NEW l \in SUBSET Ids
  PROVE  LET q == ReconcileDeclared(r, l)
         IN /\ q \in RegistryType /\ q.orphans = r.orphans /\ q.list = l
            /\ \A s \in Shells :
                 /\ q.seen[s] = IF s \notin l THEN None
                                ELSE IF r.seen[s] = None THEN ShellTtl ELSE r.seen[s]
                 /\ q.launched[s] = IF s \in Settled(r, l) THEN None ELSE r.launched[s]
                 /\ q.undelivered[s] = IF s \in Settled(r, l) THEN Delivery
                                       ELSE r.undelivered[s]
<1> DEFINE settled == Settled(r, l)
           seen == [s \in Shells |-> IF s \notin l THEN None
                      ELSE IF r.seen[s] = None THEN ShellTtl ELSE r.seen[s]]
           launched == [s \in Shells |-> IF s \in settled THEN None ELSE r.launched[s]]
           owed == [s \in Shells |-> IF s \in settled THEN Delivery
                                     ELSE r.undelivered[s]]
           none == [a \in Agents |-> None]
           new == [r EXCEPT !.list = l, !.listLeft = AgentTtl, !.idle = r.idle \cap l,
                     !.seen = seen, !.launched = launched, !.undelivered = owed]
           q == ReconcileDeclared(r, l)
<1>1. /\ seen \in [Shells -> Left(ShellTtl)] /\ launched \in [Shells -> Left(ShellTtl)]
      /\ owed \in [Shells -> Left(Delivery)] /\ none \in [Agents -> Left(AgentTtl)]
      /\ r.idle \cap l \in SUBSET Agents /\ AgentTtl \in Left(AgentTtl)
  BY RegistryFields, Lefts
<1>2. q = IF DeclaredActive(new) = {} THEN [new EXCEPT !.counted = none] ELSE new
  BY DEF ReconcileDeclared, RegistryType
<1>3. \A s \in Shells :
        /\ seen[s] = IF s \notin l THEN None
                     ELSE IF r.seen[s] = None THEN ShellTtl ELSE r.seen[s]
        /\ launched[s] = IF s \in settled THEN None ELSE r.launched[s]
        /\ owed[s] = IF s \in settled THEN Delivery ELSE r.undelivered[s]
  OBVIOUS
<1> HIDE DEF settled, seen, launched, owed, none
<1>4. /\ new \in RegistryType /\ new.orphans = r.orphans /\ new.list = l
      /\ new.seen = seen /\ new.launched = launched /\ new.undelivered = owed
  BY <1>1 DEF RegistryType
<1> HIDE DEF new, q
<1>5. /\ q \in RegistryType /\ q.orphans = r.orphans /\ q.list = l
      /\ q.seen = seen /\ q.launched = launched /\ q.undelivered = owed
  BY <1>1, <1>2, <1>4 DEF RegistryType
<1> QED
  BY <1>3, <1>5 DEF q, settled

LEMMA TasksTyped ==
  ASSUME NEW r \in RegistryType, NEW a \in Agents
  PROVE  LET open == [r EXCEPT !.idle = @ \ {a}]
             over == [r EXCEPT !.idle = @ \cup {a}, !.counted[a] = None]
         IN /\ open \in RegistryType /\ over \in RegistryType
            /\ \A q \in {open, over} :
                 /\ q.seen = r.seen /\ q.launched = r.launched
                 /\ q.undelivered = r.undelivered /\ q.list = r.list
                 /\ q.orphans = r.orphans
<1> DEFINE c == [r.counted EXCEPT ![a] = None]
           open == [r EXCEPT !.idle = r.idle \ {a}]
           over == [r EXCEPT !.idle = r.idle \cup {a}, !.counted = c]
<1>1. /\ c \in [Agents -> Left(AgentTtl)]
      /\ r.idle \ {a} \in SUBSET Agents /\ r.idle \cup {a} \in SUBSET Agents
  BY RegistryFields, Lefts
<1>2. over = [r EXCEPT !.idle = r.idle \cup {a}, !.counted[a] = None]
  BY DEF RegistryType
<1> HIDE DEF c
<1>3. open \in RegistryType
  BY <1>1 DEF RegistryType
<1>4. over \in RegistryType
  BY <1>1 DEF RegistryType
<1>5. \A q \in {open, over} :
        /\ q.seen = r.seen /\ q.launched = r.launched
        /\ q.undelivered = r.undelivered /\ q.list = r.list
        /\ q.orphans = r.orphans
  BY DEF RegistryType
<1> HIDE DEF over
<1> QED
  BY <1>2, <1>3, <1>4, <1>5

LEMMA LaunchTyped ==
  ASSUME NEW r \in RegistryType, NEW s \in Shells
  PROVE  LET q == [r EXCEPT !.launched[s] = ShellTtl, !.undelivered[s] = None]
         IN /\ q \in RegistryType /\ q.orphans = r.orphans
            /\ q.seen = r.seen /\ q.list = r.list
            /\ q.launched[s] = ShellTtl /\ q.undelivered[s] = None
            /\ \A t \in Shells : t # s =>
                 /\ q.launched[t] = r.launched[t]
                 /\ q.undelivered[t] = r.undelivered[t]
<1> DEFINE launched == [r.launched EXCEPT ![s] = ShellTtl]
           owed == [r.undelivered EXCEPT ![s] = None]
           q == [r EXCEPT !.launched = launched, !.undelivered = owed]
<1>1. /\ launched \in [Shells -> Left(ShellTtl)] /\ owed \in [Shells -> Left(Delivery)]
      /\ launched[s] = ShellTtl /\ owed[s] = None
      /\ \A t \in Shells : t # s =>
           launched[t] = r.launched[t] /\ owed[t] = r.undelivered[t]
  BY RegistryFields, Lefts
<1>2. q = [r EXCEPT !.launched[s] = ShellTtl, !.undelivered[s] = None]
  BY DEF RegistryType
<1> HIDE DEF launched, owed
<1>3. q \in RegistryType
  BY <1>1 DEF RegistryType
<1>4. /\ q.orphans = r.orphans /\ q.seen = r.seen /\ q.list = r.list
      /\ q.launched = launched /\ q.undelivered = owed
  BY DEF RegistryType
<1> HIDE DEF q
<1> QED
  BY <1>1, <1>2, <1>3, <1>4

AfterPrompt(r, d) ==
  [r EXCEPT !.observed = {}, !.orphans = EmptyRegistry.orphans,
            !.list = {}, !.listLeft = None,
            !.launched = [s \in Shells |-> IF s \in d THEN None ELSE @[s]],
            !.undelivered = [s \in Shells |-> IF s \in d THEN None ELSE @[s]]]

LEMMA PromptTyped ==
  ASSUME NEW r \in RegistryType, NEW d \in SUBSET Shells
  PROVE  LET q == AfterPrompt(r, d)
         IN /\ q \in RegistryType /\ q.seen = r.seen
            /\ \A a \in Agents : q.orphans[a] = None
            /\ \A s \in Shells : s \notin d =>
                 /\ q.launched[s] = r.launched[s]
                 /\ q.undelivered[s] = r.undelivered[s]
<1> DEFINE launched == [s \in Shells |-> IF s \in d THEN None ELSE r.launched[s]]
           owed == [s \in Shells |-> IF s \in d THEN None ELSE r.undelivered[s]]
           o == [a \in Agents |-> None]
           q == [r EXCEPT !.observed = {}, !.orphans = o, !.list = {},
                   !.listLeft = None, !.launched = launched, !.undelivered = owed]
<1>1. /\ launched \in [Shells -> Left(ShellTtl)] /\ owed \in [Shells -> Left(Delivery)]
      /\ o \in [Agents -> Left(AgentTtl)] /\ None \in Left(AgentTtl)
      /\ \A a \in Agents : o[a] = None
      /\ \A s \in Shells : s \notin d =>
           launched[s] = r.launched[s] /\ owed[s] = r.undelivered[s]
  BY RegistryFields, Lefts
<1>2. q = AfterPrompt(r, d)
  BY DEF AfterPrompt, RegistryType, EmptyRegistry
<1> HIDE DEF launched, owed, o
<1>3. q \in RegistryType
  BY <1>1 DEF RegistryType
<1>4. /\ q.seen = r.seen /\ q.orphans = o
      /\ q.launched = launched /\ q.undelivered = owed
  BY DEF RegistryType
<1> HIDE DEF q
<1> QED
  BY <1>1, <1>2, <1>3, <1>4

-----------------------------------------------------------------------------
(* What is counted. *)

LEMMA CountsNothing ==
  ASSUME NEW r \in RegistryType
  PROVE  /\ ActiveCount(r) \in Nat
         /\ ActiveCount(r) = 0 <=> /\ Present(r.counted) = {}
                                   /\ DeclaredActive(r) = {}
                                   /\ Present(r.undelivered) = {}
<1> DEFINE C == Present(r.counted)
           D == DeclaredActive(r)
           U == Present(r.undelivered)
<1>1. IsFiniteSet(C) /\ IsFiniteSet(D) /\ IsFiniteSet(U)
  <2>1. C \subseteq Agents /\ U \subseteq Shells
    BY RegistryFields DEF Present
  <2>2. D \subseteq Agents \cup Shells
    BY RegistryFields DEF DeclaredActive, Ids
  <2>3. IsFiniteSet(Agents \cup Shells)
    BY GateIds, FS_Union
  <2> QED
    BY <2>1, <2>2, <2>3, GateIds, FS_Subset
<1>2. Cardinality(C) \in Nat /\ Cardinality(D) \in Nat /\ Cardinality(U) \in Nat
  BY <1>1, FS_CardinalityType
<1>3. /\ Cardinality(C) = 0 <=> C = {}
      /\ Cardinality(D) = 0 <=> D = {}
      /\ Cardinality(U) = 0 <=> U = {}
  BY <1>1, FS_EmptySet
<1> HIDE DEF C, D, U
<1>4. ActiveCount(r) = IF Cardinality(C) > Cardinality(D) + Cardinality(U)
                         THEN Cardinality(C) ELSE Cardinality(D) + Cardinality(U)
  BY DEF ActiveCount, C, D, U
<1>5. /\ ActiveCount(r) \in Nat
      /\ ActiveCount(r) = 0 <=> C = {} /\ D = {} /\ U = {}
  BY <1>2, <1>3, <1>4
<1> QED
  BY <1>5 DEF C, D, U

LEMMA OlderIs ==
  ASSUME NEW k \in Nat, NEW n \in Left(k)
  PROVE  /\ Older(n) \in Left(k)
         /\ Older(n) # None => n # None /\ Older(n) = n - 1
         /\ Older(n) = None /\ n # None => n = 1
         /\ n # None => n \in Nat
  BY NoneIs DEF Older, Left

\* Time adds nothing to what is counted.
LEMMA AgedTyped ==
  ASSUME NEW r \in RegistryType
  PROVE  LET q == AgedRegistry(r)
         IN /\ q \in RegistryType /\ q.list = r.list
            /\ \A a \in Agents : r.orphans[a] = None => q.orphans[a] = None
            /\ \A s \in Shells : /\ q.seen[s] = Older(r.seen[s])
                                 /\ q.launched[s] = Older(r.launched[s])
                                 /\ q.undelivered[s] = Older(r.undelivered[s])
            /\ ActiveCount(r) = 0 => ActiveCount(q) = 0
<1> DEFINE q == AgedRegistry(r)
<1>1. /\ Aged(r.counted) = [a \in Agents |-> Older(r.counted[a])]
      /\ Aged(r.orphans) = [a \in Agents |-> Older(r.orphans[a])]
      /\ Aged(r.seen) = [s \in Shells |-> Older(r.seen[s])]
      /\ Aged(r.launched) = [s \in Shells |-> Older(r.launched[s])]
      /\ Aged(r.undelivered) = [s \in Shells |-> Older(r.undelivered[s])]
  BY RegistryFields DEF Aged
<1>2. /\ \A a \in Agents : /\ Older(r.counted[a]) \in Left(AgentTtl)
                           /\ Older(r.orphans[a]) \in Left(AgentTtl)
      /\ \A s \in Shells : /\ Older(r.seen[s]) \in Left(ShellTtl)
                           /\ Older(r.launched[s]) \in Left(ShellTtl)
                           /\ Older(r.undelivered[s]) \in Left(Delivery)
      /\ Older(r.listLeft) \in Left(AgentTtl)
  BY RegistryFields, OlderIs, GateConstants
<1>3. /\ Aged(r.counted) \in [Agents -> Left(AgentTtl)]
      /\ Aged(r.orphans) \in [Agents -> Left(AgentTtl)]
      /\ Aged(r.seen) \in [Shells -> Left(ShellTtl)]
      /\ Aged(r.launched) \in [Shells -> Left(ShellTtl)]
      /\ Aged(r.undelivered) \in [Shells -> Left(Delivery)]
  BY <1>1, <1>2
<1>4. q \in RegistryType
  BY <1>2, <1>3 DEF AgedRegistry, RegistryType
<1>5. /\ q.list = r.list /\ q.idle = r.idle /\ q.listLeft = Older(r.listLeft)
      /\ q.counted = Aged(r.counted) /\ q.orphans = Aged(r.orphans)
      /\ q.seen = Aged(r.seen) /\ q.launched = Aged(r.launched)
      /\ q.undelivered = Aged(r.undelivered)
  BY DEF AgedRegistry, RegistryType
<1> HIDE DEF q
<1>6. Older(None) = None
  BY DEF Older
<1>7. \A a \in Agents : r.orphans[a] = None => q.orphans[a] = None
  BY <1>1, <1>5, <1>6
<1>8. \A s \in Shells : /\ q.seen[s] = Older(r.seen[s])
                        /\ q.launched[s] = Older(r.launched[s])
                        /\ q.undelivered[s] = Older(r.undelivered[s])
  BY <1>1, <1>5
<1>9. ASSUME ActiveCount(r) = 0 PROVE ActiveCount(q) = 0
  <2>1. /\ Present(r.counted) = {} /\ DeclaredActive(r) = {}
        /\ Present(r.undelivered) = {}
    BY <1>9, CountsNothing
  <2>2. Present(q.counted) = {}
    BY <1>1, <1>5, <1>6, <2>1, RegistryFields DEF Present
  <2>3. Present(q.undelivered) = {}
    BY <1>1, <1>5, <1>6, <2>1, RegistryFields DEF Present
  <2>4. DeclaredActive(q) \subseteq DeclaredActive(r)
    BY <1>5, <1>6, <1>8 DEF DeclaredActive
  <2> QED
    BY <1>4, <2>1, <2>2, <2>3, <2>4, CountsNothing
<1> QED
  BY <1>4, <1>5, <1>7, <1>8, <1>9 DEF q

\* The time of the next look at the gate.
LEMMA RecheckIsTime ==
  ASSUME NEW r \in RegistryType
  PROVE  RecheckIn(r) \in Nat
<1> DEFINE T == Lives(r) \cup {AgentTtl, ShellTtl}
<1>1. Lives(r) \subseteq Nat
  <2> SUFFICES ASSUME NEW n \in Lives(r) PROVE n \in Nat
    OBVIOUS
  <2>1. /\ n # None
        /\ \/ n \in {r.counted[a] : a \in Agents} \/ n \in {r.undelivered[s] : s \in Shells}
           \/ n \in {r.seen[s] : s \in (r.list \ r.idle) \cap Shells}
           \/ n = r.listLeft
    BY DEF Lives
  <2> QED
    BY <2>1, RegistryFields DEF Left
<1>2. T \subseteq Nat /\ T # {}
  BY <1>1, GateConstants
<1> HIDE DEF T
<1>3. \E m \in T : \A k \in T : m <= k
  BY <1>2, LeastNumber
<1>4. Min(T) \in T
  BY <1>3 DEF Min
<1> QED
  BY <1>2, <1>4 DEF RecheckIn, T

-----------------------------------------------------------------------------
(* The gate. *)

LEMMA GateFields ==
  ASSUME NEW g \in GateType
  PROVE  /\ g.held \in {None} \cup Live /\ g.conf \in {None, "hook", "title"}
         /\ g.age \in 0..Settle /\ g.quiet \in {None} \cup 0..Settle
         /\ g.timer \in {None} \cup Nat /\ g.moved \in BOOLEAN
         /\ g.age \in Nat /\ (g.quiet # None => g.quiet \in Nat)
  BY GateConstants DEF GateType

LEMMA NoGateTyped ==
  NoGate \in GateType /\ NoGate.held = None /\ NoGate.timer = None
  BY GateConstants DEF NoGate, GateType

\* A look at the gate drops a ready, keeps it with a timer, or releases it: the
\* last only when nothing is counted and both its age and the quiet are long.
Looked(g, cur, r, e) ==
  /\ e.gate \in GateType
  /\ e.gate.held # None =>
       /\ e.gate.held = g.held /\ e.gate.timer # None
       /\ e.gate.moved = FALSE /\ g.moved = FALSE /\ e.gate.age = g.age
       /\ e.gate.quiet # None =>
            ActiveCount(r) = 0 /\ e.gate.quiet \in {0, g.quiet}
  /\ \/ e.st = cur
     \/ /\ e.st = "COMPLETE" /\ g.held # None /\ g.held = cur /\ ActiveCount(r) = 0
        /\ g.quiet # None /\ g.quiet >= Settle /\ g.age >= Settle

LEMMA LookedAt ==
  ASSUME NEW g \in GateType, NEW cur, NEW r \in RegistryType
  PROVE  Looked(g, cur, r, Evaluated(g, cur, r))
<1> DEFINE e == Evaluated(g, cur, r)
           active == ActiveCount(r)
           fresher == IF active = 0 /\ g.quiet = None THEN [g EXCEPT !.quiet = 0] ELSE g
           least == SmallerOf(fresher.quiet, fresher.age)
<1> SUFFICES /\ e.gate \in GateType
             /\ e.gate.held # None =>
                  /\ e.gate.held = g.held /\ e.gate.timer # None
                  /\ e.gate.moved = FALSE /\ g.moved = FALSE /\ e.gate.age = g.age
                  /\ e.gate.quiet # None =>
                       ActiveCount(r) = 0 /\ e.gate.quiet \in {0, g.quiet}
             /\ \/ e.st = cur
                \/ /\ e.st = "COMPLETE" /\ g.held # None /\ g.held = cur
                   /\ active = 0 /\ g.quiet # None /\ g.quiet >= Settle /\ g.age >= Settle
  BY DEF Looked
<1>1. active \in Nat
  BY CountsNothing
<1>2. /\ fresher \in GateType /\ fresher.held = g.held /\ fresher.moved = g.moved
      /\ fresher.age = g.age /\ fresher.timer = g.timer /\ fresher.conf = g.conf
      /\ active = 0 => fresher.quiet # None /\ fresher.quiet \in {0, g.quiet}
  <2>1. 0 \in 0..Settle /\ 0 # None
    BY GateConstants, NoneIs
  <2>2. CASE active = 0 /\ g.quiet = None
    BY <2>1, <2>2 DEF GateType
  <2>3. CASE ~(active = 0 /\ g.quiet = None)
    BY <2>3
  <2> QED
    BY <2>2, <2>3
<1>3. CASE g.held = None
  <2>1. e = [gate |-> g, st |-> cur]
    BY <1>3 DEF Evaluated
  <2> QED
    BY <1>3, <2>1
<1>4. CASE g.held # None
  <2> HIDE DEF active, fresher, least
  <2> DEFINE d == Decision(fresher, cur, active)
  <2>1. e = CASE d = "cancel" -> [gate |-> NoGate, st |-> cur]
              [] d = "gated" ->
                   [gate |-> [g EXCEPT !.quiet = None, !.timer = RecheckIn(r)],
                    st |-> cur]
              [] d = "wait" ->
                   [gate |-> [fresher EXCEPT !.timer = Settle - least], st |-> cur]
              [] d = "release" -> [gate |-> NoGate, st |-> "COMPLETE"]
    BY <1>4 DEF Evaluated, active, fresher, least
  <2>2. \/ d = "cancel" /\ (cur # g.held \/ g.moved)
        \/ d = "gated" /\ cur = g.held /\ ~g.moved /\ active > 0
        \/ d = "wait" /\ cur = g.held /\ ~g.moved /\ active = 0 /\ least < Settle
        \/ d = "release" /\ cur = g.held /\ ~g.moved /\ active = 0 /\ ~(least < Settle)
    BY <1>1, <1>2 DEF Decision, least
  <2> HIDE DEF d
  <2>3. CASE d = "cancel" /\ (cur # g.held \/ g.moved)
    <3>1. e = [gate |-> NoGate, st |-> cur]
      BY <2>1, <2>3
    <3> QED
      BY <3>1, NoGateTyped
  <2>4. CASE d = "gated" /\ cur = g.held /\ ~g.moved /\ active > 0
    <3> DEFINE h == [g EXCEPT !.quiet = None, !.timer = RecheckIn(r)]
    <3>1. e = [gate |-> h, st |-> cur]
      BY <2>1, <2>4
    <3>2. RecheckIn(r) \in Nat /\ RecheckIn(r) # None
      BY RecheckIsTime, NoneIs
    <3>3. /\ h \in GateType /\ h.held = g.held /\ h.timer # None /\ h.age = g.age
          /\ h.moved = g.moved /\ h.quiet = None
      BY <3>2 DEF GateType
    <3>4. g.moved = FALSE
      BY <2>4, GateFields
    <3> HIDE DEF h
    <3> QED
      BY <3>1, <3>3, <3>4
  <2>5. CASE d = "wait" /\ cur = g.held /\ ~g.moved /\ active = 0 /\ least < Settle
    <3> DEFINE h == [fresher EXCEPT !.timer = Settle - least]
    <3>1. e = [gate |-> h, st |-> cur]
      BY <2>1, <2>5
    <3>2. fresher.quiet \in Nat /\ fresher.age \in Nat
      BY <1>2, <2>5, GateFields
    <3>3. Settle - least \in Nat /\ Settle - least # None
      BY <2>5, <3>2, GateConstants, NoneIs DEF least, SmallerOf
    <3>4. /\ h \in GateType /\ h.held = g.held /\ h.timer # None /\ h.age = g.age
          /\ h.moved = g.moved /\ h.quiet = fresher.quiet
      BY <1>2, <3>3 DEF GateType
    <3>5. g.moved = FALSE
      BY <2>5, GateFields
    <3> HIDE DEF h
    <3> QED
      BY <1>2, <2>5, <3>1, <3>4, <3>5 DEF active
  <2>6. CASE d = "release" /\ cur = g.held /\ ~g.moved /\ active = 0 /\ ~(least < Settle)
    <3>1. e = [gate |-> NoGate, st |-> "COMPLETE"]
      BY <2>1, <2>6
    <3>2. fresher.quiet \in Nat /\ fresher.age \in Nat /\ fresher.quiet \in {0, g.quiet}
      BY <1>2, <2>6, GateFields
    <3>3. fresher.quiet >= Settle /\ fresher.age >= Settle
      BY <2>6, <3>2, GateConstants DEF least, SmallerOf
    <3>4. g.quiet = fresher.quiet /\ g.quiet # None
      BY <3>2, <3>3, GateConstants, NoneIs
    <3> QED
      BY <1>2, <1>4, <2>6, <3>1, <3>3, <3>4, NoGateTyped
  <2> QED
    BY <2>2, <2>3, <2>4, <2>5, <2>6
<1> QED
  BY <1>3, <1>4

-----------------------------------------------------------------------------
(* The invariant. *)

\* A ready on hold is of the turn that goes on; the quiet time counts from the
\* last work that was seen.
HeldAsMeant ==
  gate.held # None =>
    /\ ~fresh /\ ~gate.moved
    /\ gate.quiet # None =>
         ActiveCount(reg) = 0 /\ SmallerOf(gate.quiet, gate.age) <= calm

\* While the follow-up of a shell may come, the shell is on Claude's list, is
\* owed the follow-up, or no list has accounted for it yet.
OwedShell(s) ==
  sinceLaunch[s] # None /\ sinceLaunch[s] < Delivery =>
    /\ reg.seen[s] # None => reg.seen[s] + sinceLaunch[s] >= ShellTtl
    /\ \/ /\ reg.undelivered[s] # None
          /\ reg.undelivered[s] + sinceLaunch[s] >= Delivery
       \/ /\ reg.launched[s] # None /\ reg.launched[s] + sinceLaunch[s] >= ShellTtl
          /\ s \in accounted => s \in reg.list /\ reg.seen[s] # None

GateInv == HeldIsWatched /\ HeldAsMeant /\ \A s \in Shells : OwedShell(s)

\* A step does right when it keeps the invariant and releases in time.
Right ==
  GateInv' /\ ReleaseIsCurrent /\ QuietBeforeRelease /\ NotBeforeFollowUp

LEMMA Begun == GateInit => GateInv
<1> SUFFICES ASSUME GateInit PROVE GateInv
  OBVIOUS
<1>1. reg \in RegistryType /\ gate \in GateType /\ gate.held = None
  BY EmptyTyped, NoGateTyped DEF GateInit
<1>2. sinceLaunch = [s \in Shells |-> None]
  BY DEF GateInit, EmptyRegistry
<1>3. 0 \in 0..MaxSignals /\ Settle \in 0..Settle
  BY GateConstants
<1>4. GateTypeOK
  <2>1. /\ st \in Live \cup {"DONE"} /\ onHold \in {None, "hook", "title"}
        /\ signals \in 0..MaxSignals /\ fresh \in BOOLEAN /\ calm \in 0..Settle
    BY <1>3 DEF GateInit, Live
  <2>2. sinceLaunch \in [Shells -> {None} \cup 0..Delivery] /\ accounted \subseteq Shells
    BY <1>2 DEF GateInit
  <2> QED
    BY <1>1, <2>1, <2>2 DEF GateTypeOK
<1> QED
  BY <1>1, <1>2, <1>4 DEF GateInv, HeldIsWatched, HeldIsTimed, HeldAsMeant, OwedShell

\* What the types say.
LEMMA GateTypes ==
  ASSUME GateInv
  PROVE  /\ st \in Live \cup {"DONE"} /\ reg \in RegistryType /\ gate \in GateType
         /\ onHold \in {None, "hook", "title"} /\ signals \in 0..MaxSignals
         /\ signals \in Nat
         /\ fresh \in BOOLEAN /\ calm \in 0..Settle /\ calm \in Nat
         /\ sinceLaunch \in [Shells -> {None} \cup 0..Delivery]
         /\ accounted \subseteq Shells
         /\ gate.held # None => gate.timer # None
  BY GateConstants DEF GateInv, HeldIsWatched, GateTypeOK, HeldIsTimed

LEMMA Heard1 ==
  ASSUME GateInv, Hears
  PROVE  signals' \in 0..MaxSignals /\ st \in Live
  BY GateTypes, GateConstants DEF Hears

\* The time of calm is within bounds, and it goes on when nothing is counted and
\* no agent that nobody knew stops.
LEMMA CalmIs ==
  ASSUME GateInv, NEW isTick \in BOOLEAN, CalmFollows(isTick)
  PROVE  /\ calm' \in 0..Settle /\ calm' \in Nat
         /\ (/\ ActiveCount(reg) = 0 /\ ActiveCount(reg') = 0
             /\ \A a \in Agents : ~(reg.orphans[a] = None /\ reg'.orphans[a] # None))
              => calm' = IF isTick THEN SmallerOf(calm + 1, Settle) ELSE calm
<1>1. /\ 0 \in 0..Settle /\ calm \in 0..Settle /\ calm \in Nat
      /\ SmallerOf(calm + 1, Settle) \in 0..Settle
  BY GateTypes, GateConstants DEF SmallerOf
<1>2. calm' \in 0..Settle
  BY <1>1 DEF CalmFollows
<1>3. calm' \in Nat
  BY <1>2, GateConstants
<1>4. ASSUME ActiveCount(reg) = 0, ActiveCount(reg') = 0,
             \A a \in Agents : ~(reg.orphans[a] = None /\ reg'.orphans[a] # None)
      PROVE  calm' = IF isTick THEN SmallerOf(calm + 1, Settle) ELSE calm
  <2>1. ~(ActiveCount(reg) > 0) /\ ~(ActiveCount(reg') > 0)
    BY <1>4
  <2> QED
    BY <1>4, <2>1 DEF CalmFollows
<1> QED
  BY <1>2, <1>3, <1>4

\* What a look at the gate leaves.
LEMMA LookKeeps ==
  ASSUME GateInv, NEW r \in RegistryType, NEW g \in GateType,
         WithAgentCount(r, g), CalmFollows(FALSE), fresh' = fresh,
         g.held # None =>
           /\ g.held = gate.held /\ g.moved = gate.moved /\ g.age = gate.age
           /\ g.quiet # None =>
                /\ g.quiet = gate.quiet
                /\ \A a \in Agents : ~(reg.orphans[a] = None /\ r.orphans[a] # None)
  PROVE  /\ reg' = r /\ gate' \in GateType /\ st' \in Live \cup {"DONE"}
         /\ HeldIsTimed' /\ HeldAsMeant'
         /\ ReleaseIsCurrent /\ QuietBeforeRelease
         /\ Completed => ActiveCount(reg') = 0
<1> DEFINE e == Evaluated(g, st, r)
<1>0. Looked(g, st, r, e)
  BY LookedAt
<1> HIDE DEF e
<1>1. /\ e.gate \in GateType
      /\ e.gate.held # None =>
           /\ e.gate.held = g.held /\ e.gate.timer # None
           /\ e.gate.moved = FALSE /\ e.gate.age = g.age
           /\ e.gate.quiet # None =>
                ActiveCount(r) = 0 /\ e.gate.quiet \in {0, g.quiet}
      /\ \/ e.st = st
         \/ /\ e.st = "COMPLETE" /\ g.held # None /\ g.held = st
            /\ ActiveCount(r) = 0 /\ g.quiet # None /\ g.quiet >= Settle /\ g.age >= Settle
  BY <1>0 DEF Looked
<1>2. reg' = r /\ gate' = e.gate /\ st' = e.st
  BY DEF WithAgentCount, e
<1>3. st' \in Live \cup {"DONE"}
  BY <1>1, <1>2, GateTypes DEF Live
<1>4. HeldIsTimed'
  BY <1>1, <1>2 DEF HeldIsTimed
<1>5. HeldAsMeant'
  <2> SUFFICES ASSUME e.gate.held # None
               PROVE  /\ ~fresh
                      /\ e.gate.quiet # None =>
                           SmallerOf(e.gate.quiet, e.gate.age) <= calm'
    BY <1>1, <1>2 DEF HeldAsMeant
  <2>1. gate.held # None /\ g.held # None /\ e.gate.age = gate.age
    BY <1>1
  <2>2. ~fresh
    BY <2>1 DEF GateInv, HeldAsMeant
  <2>3. ASSUME e.gate.quiet # None
        PROVE  SmallerOf(e.gate.quiet, e.gate.age) <= calm'
    <3>1. e.gate.age \in Nat /\ e.gate.quiet \in Nat
      BY <1>1, <2>3, GateFields
    <3>2. CASE e.gate.quiet = 0
      <4>1. SmallerOf(e.gate.quiet, e.gate.age) = 0
        BY <3>1, <3>2 DEF SmallerOf
      <4>2. calm' \in Nat
        BY CalmIs
      <4> QED
        BY <4>1, <4>2
    <3>3. CASE e.gate.quiet = g.quiet /\ g.quiet # None
      <4>1. e.gate.quiet = gate.quiet /\ gate.quiet # None
        BY <2>1, <3>3
      <4>2. /\ ActiveCount(reg) = 0
            /\ SmallerOf(gate.quiet, gate.age) <= calm
        BY <2>1, <4>1 DEF GateInv, HeldAsMeant
      <4>3. ActiveCount(reg') = 0
        BY <1>1, <1>2, <2>3
      <4>4. \A a \in Agents : ~(reg.orphans[a] = None /\ reg'.orphans[a] # None)
        BY <1>2, <2>1, <3>3
      <4>5. calm' = calm
        BY <4>2, <4>3, <4>4, CalmIs
      <4> QED
        BY <2>1, <4>1, <4>2, <4>5
    <3> QED
      BY <1>1, <2>3, <3>2, <3>3
  <2> QED
    BY <2>2, <2>3
<1>6. ASSUME Released PROVE ~fresh /\ calm = Settle
  <2>1. gate.held # None /\ ~fresh /\ st' # st
    BY <1>6 DEF Released, GateInv, HeldAsMeant
  <2>2. /\ g.held # None /\ g.quiet # None /\ g.quiet >= Settle /\ g.age >= Settle
    BY <1>1, <1>2, <2>1
  <2>3. gate.quiet = g.quiet /\ gate.age = g.age
    BY <2>2
  <2>4. SmallerOf(gate.quiet, gate.age) <= calm
    BY <2>1, <2>2, <2>3 DEF GateInv, HeldAsMeant
  <2>5. g.quiet \in Nat /\ g.age \in Nat
    BY <2>2, GateFields
  <2>6. calm \in Nat /\ calm <= Settle /\ Settle \in Nat
    BY GateTypes, GateConstants
  <2>7. calm = Settle
    BY <2>2, <2>3, <2>4, <2>5, <2>6 DEF SmallerOf
  <2> QED
    BY <2>1, <2>7
<1>7. Completed => ActiveCount(reg') = 0
  BY <1>1, <1>2 DEF Completed
<1> QED
  BY <1>1, <1>2, <1>3, <1>4, <1>5, <1>6, <1>7 DEF ReleaseIsCurrent, QuietBeforeRelease

\* A step that shows no turn as complete completes none too early.
LEMMA NoneCompleted ==
  ASSUME st' = st \/ st' # "COMPLETE"
  PROVE  NotBeforeFollowUp
  BY DEF NotBeforeFollowUp, Completed

\* Nor does one after which nothing is counted: a shell that is accounted for is
\* listed or owed its follow-up as long as that may come.
LEMMA NothingOwed ==
  ASSUME reg' \in RegistryType, sinceLaunch' \in [Shells -> {None} \cup 0..Delivery],
         accounted' \subseteq Shells, \A s \in Shells : OwedShell(s)',
         Completed => ActiveCount(reg') = 0
  PROVE  NotBeforeFollowUp
<1> SUFFICES ASSUME Completed, NEW s \in accounted'
             PROVE  sinceLaunch'[s] \in {None, Delivery}
  BY DEF NotBeforeFollowUp
<1>1. s \in Shells /\ OwedShell(s)'
  OBVIOUS
<1>2. DeclaredActive(reg') = {} /\ Present(reg'.undelivered) = {}
  BY CountsNothing
<1>3. reg'.undelivered[s] = None
  BY <1>1, <1>2, RegistryFields DEF Present
<1>4. ~(s \in reg'.list /\ reg'.seen[s] # None)
  BY <1>1, <1>2, RegistryFields, GateIds DEF DeclaredActive
<1>5. sinceLaunch'[s] = None \/ ~(sinceLaunch'[s] < Delivery)
  BY <1>1, <1>3, <1>4 DEF OwedShell
<1>6. sinceLaunch'[s] \in {None} \cup 0..Delivery
  BY <1>1
<1> QED
  BY <1>5, <1>6, GateConstants

\* The shells are owed what they were when the registry keeps what it knows of
\* them, and no list comes.
LEMMA ShellsStay ==
  ASSUME GateInv, sinceLaunch' = sinceLaunch, accounted' = accounted,
         reg'.seen = reg.seen, reg'.launched = reg.launched,
         reg'.undelivered = reg.undelivered, reg'.list = reg.list
  PROVE  \A s \in Shells : OwedShell(s)'
<1> SUFFICES ASSUME NEW s \in Shells PROVE OwedShell(s)'
  OBVIOUS
<1>1. OwedShell(s)
  BY DEF GateInv
<1> QED
  BY <1>1 DEF OwedShell

-----------------------------------------------------------------------------
(* Every step does right. *)

\* New work drops the ready that is held.
LEMMA NewWorkRight ==
  ASSUME GateInv, NEW a \in Agents, Heard(SubagentStarts(a) \/ TaskCreated(a))
  PROVE  Right
<1>1. /\ Hears /\ signals' = signals + 1 /\ gate' = NoGate /\ fresh' = TRUE
      /\ UNCHANGED <<st, onHold, sinceLaunch, accounted>> /\ CalmFollows(FALSE)
  BY DEF Heard, SubagentStarts, TaskCreated, Hears
<1>2. /\ reg' \in RegistryType
      /\ reg'.seen = reg.seen /\ reg'.launched = reg.launched
      /\ reg'.undelivered = reg.undelivered /\ reg'.list = reg.list
  <2>1. reg \in RegistryType
    BY GateTypes
  <2>2. CASE SubagentStarts(a)
    BY <2>1, <2>2, StartTyped DEF SubagentStarts
  <2>3. CASE TaskCreated(a)
    BY <2>1, <2>3, TasksTyped DEF TaskCreated
  <2> QED
    BY <2>2, <2>3 DEF Heard
<1>3. GateTypeOK'
  <2>1. calm' \in 0..Settle /\ signals' \in 0..MaxSignals
    BY <1>1, CalmIs, Heard1
  <2> QED
    BY <1>1, <1>2, <2>1, GateTypes, NoGateTyped DEF GateTypeOK
<1>4. HeldIsTimed' /\ HeldAsMeant'
  BY <1>1, NoGateTyped DEF HeldIsTimed, HeldAsMeant
<1>5. \A s \in Shells : OwedShell(s)'
  BY <1>1, <1>2, ShellsStay
<1>6. ReleaseIsCurrent /\ QuietBeforeRelease
  BY <1>1 DEF ReleaseIsCurrent, QuietBeforeRelease, Released
<1>7. NotBeforeFollowUp
  BY <1>1, NoneCompleted
<1> QED
  BY <1>3, <1>4, <1>5, <1>6, <1>7 DEF Right, GateInv, HeldIsWatched

LEMMA TaskCompletedRight ==
  ASSUME GateInv, NEW a \in Agents, Heard(TaskCompleted(a))
  PROVE  Right
<1> DEFINE r == [reg EXCEPT !.idle = @ \cup {a}, !.counted[a] = None]
<1>1. /\ Hears /\ signals' = signals + 1 /\ WithAgentCount(r, gate)
      /\ UNCHANGED <<onHold, fresh, sinceLaunch, accounted>> /\ CalmFollows(FALSE)
  BY DEF Heard, TaskCompleted, Hears
<1>2. /\ r \in RegistryType /\ r.orphans = reg.orphans
      /\ r.seen = reg.seen /\ r.launched = reg.launched
      /\ r.undelivered = reg.undelivered /\ r.list = reg.list
  BY GateTypes, TasksTyped
<1> HIDE DEF r
<1>3. /\ reg' = r /\ gate' \in GateType /\ st' \in Live \cup {"DONE"}
      /\ HeldIsTimed' /\ HeldAsMeant'
      /\ ReleaseIsCurrent /\ QuietBeforeRelease
      /\ Completed => ActiveCount(reg') = 0
  BY <1>1, <1>2, GateTypes, LookKeeps
<1>4. GateTypeOK'
  <2>1. calm' \in 0..Settle /\ signals' \in 0..MaxSignals
    BY <1>1, CalmIs, Heard1
  <2> QED
    BY <1>1, <1>2, <1>3, <2>1, GateTypes DEF GateTypeOK
<1>5. \A s \in Shells : OwedShell(s)'
  BY <1>1, <1>2, <1>3, ShellsStay
<1>6. NotBeforeFollowUp
  BY <1>1, <1>2, <1>3, <1>5, GateTypes, NothingOwed
<1> QED
  BY <1>3, <1>4, <1>5, <1>6 DEF Right, GateInv, HeldIsWatched

\* A stop starts the quiet time over, unless it was heard before: then no new
\* agent stopped.
LEMMA StopSeenIs ==
  ASSUME GateInv, NEW a \in Agents
  PROVE  /\ StopSeen(a) \in GateType
         /\ StopSeen(a).held # None =>
              /\ StopSeen(a).held = gate.held /\ StopSeen(a).moved = gate.moved
              /\ StopSeen(a).age = gate.age
              /\ StopSeen(a).quiet # None =>
                   StopSeen(a).quiet = gate.quiet /\ StopOutcome(reg, a) = "duplicate"
<1>1. gate \in GateType
  BY GateTypes
<1>2. CASE gate.held = None \/ StopOutcome(reg, a) = "duplicate"
  <2>1. StopSeen(a) = gate
    BY <1>2 DEF StopSeen
  <2> QED
    BY <1>1, <1>2, <2>1
<1>3. CASE ~(gate.held = None \/ StopOutcome(reg, a) = "duplicate")
  <2> DEFINE g == [gate EXCEPT !.quiet = None]
  <2>1. StopSeen(a) = g
    BY <1>3 DEF StopSeen
  <2>2. /\ g \in GateType /\ g.quiet = None /\ g.held = gate.held
        /\ g.moved = gate.moved /\ g.age = gate.age
    BY <1>1 DEF GateType
  <2> HIDE DEF g
  <2> QED
    BY <2>1, <2>2
<1> QED
  BY <1>2, <1>3

LEMMA StopsRight ==
  ASSUME GateInv, NEW a \in Agents, Heard(SubagentStops(a))
  PROVE  Right
<1>1. /\ Hears /\ signals' = signals + 1
      /\ UNCHANGED <<onHold, fresh, sinceLaunch, accounted>> /\ CalmFollows(FALSE)
  BY DEF Heard, SubagentStops, Hears
<1>2. calm' \in 0..Settle /\ signals' \in 0..MaxSignals
  BY <1>1, CalmIs, Heard1
<1>3. CASE WithAgentCount(NoteAgentStop(reg, a), StopSeen(a))
  <2> DEFINE r == NoteAgentStop(reg, a)
  <2>1. /\ r \in RegistryType
        /\ r.seen = reg.seen /\ r.launched = reg.launched
        /\ r.undelivered = reg.undelivered /\ r.list = reg.list
        /\ StopOutcome(reg, a) # "orphan" => r.orphans = reg.orphans
    BY GateTypes, StopTyped
  <2> HIDE DEF r
  <2>2. /\ reg' = r /\ gate' \in GateType /\ st' \in Live \cup {"DONE"}
        /\ HeldIsTimed' /\ HeldAsMeant'
        /\ ReleaseIsCurrent /\ QuietBeforeRelease
        /\ Completed => ActiveCount(reg') = 0
    BY <1>1, <1>3, <2>1, StopSeenIs, LookKeeps DEF r
  <2>3. GateTypeOK'
    BY <1>1, <1>2, <2>1, <2>2, GateTypes DEF GateTypeOK
  <2>4. \A s \in Shells : OwedShell(s)'
    BY <1>1, <2>1, <2>2, ShellsStay
  <2>5. NotBeforeFollowUp
    BY <1>1, <2>1, <2>2, <2>4, GateTypes, NothingOwed
  <2> QED
    BY <2>2, <2>3, <2>4, <2>5 DEF Right, GateInv, HeldIsWatched
<1>4. CASE UNCHANGED <<reg, gate, st>>
  <2>1. GateTypeOK' /\ HeldIsTimed'
    BY <1>1, <1>2, <1>4, GateTypes DEF GateTypeOK, HeldIsTimed
  <2>2. HeldAsMeant'
    <3> SUFFICES ASSUME gate.held # None
                 PROVE  /\ ~fresh /\ ~gate.moved
                        /\ gate.quiet # None =>
                             /\ ActiveCount(reg) = 0
                             /\ SmallerOf(gate.quiet, gate.age) <= calm'
      BY <1>1, <1>4 DEF HeldAsMeant
    <3>1. ActiveCount(reg) = 0 => calm' = calm
      BY <1>1, <1>4, CalmIs
    <3> QED
      BY <3>1 DEF GateInv, HeldAsMeant
  <2>3. \A s \in Shells : OwedShell(s)'
    BY <1>1, <1>4, ShellsStay
  <2>4. ReleaseIsCurrent /\ QuietBeforeRelease /\ NotBeforeFollowUp
    BY <1>4, NoneCompleted DEF ReleaseIsCurrent, QuietBeforeRelease, Released
  <2> QED
    BY <2>1, <2>2, <2>3, <2>4 DEF Right, GateInv, HeldIsWatched
<1> QED
  BY <1>3, <1>4 DEF Heard, SubagentStops

\* A launched shell that Claude's list does not show is owed a follow-up, and one
\* that it shows is seen.
LEMMA ShellsReconciled ==
  ASSUME GateInv, NEW r \in RegistryType, NEW l \in SUBSET Ids,
         r.seen = reg.seen, r.launched = reg.launched,
         r.undelivered = reg.undelivered, r.list = reg.list,
         reg' = ReconcileDeclared(r, l), sinceLaunch' = sinceLaunch
  PROVE  \A s \in Shells : OwedShell(s)'
<1> SUFFICES ASSUME NEW s \in Shells, sinceLaunch[s] # None,
                    sinceLaunch[s] < Delivery
             PROVE  /\ reg'.seen[s] # None =>
                         reg'.seen[s] + sinceLaunch[s] >= ShellTtl
                    /\ \/ /\ reg'.undelivered[s] # None
                          /\ reg'.undelivered[s] + sinceLaunch[s] >= Delivery
                       \/ /\ reg'.launched[s] # None
                          /\ reg'.launched[s] + sinceLaunch[s] >= ShellTtl
                          /\ s \in reg'.list /\ reg'.seen[s] # None
  BY DEF OwedShell
<1>1. OwedShell(s) /\ sinceLaunch[s] \in Nat
  BY GateTypes, GateConstants DEF GateInv
<1>2. /\ reg'.list = l
      /\ reg'.seen[s] = IF s \notin l THEN None
                        ELSE IF reg.seen[s] = None THEN ShellTtl ELSE reg.seen[s]
      /\ reg'.launched[s] = IF s \in Settled(r, l) THEN None ELSE reg.launched[s]
      /\ reg'.undelivered[s] = IF s \in Settled(r, l) THEN Delivery
                               ELSE reg.undelivered[s]
  BY ReconcileTyped
<1>3. s \in Settled(r, l) <=> reg.launched[s] # None /\ s \notin l
  BY RegistryFields DEF Settled, Present
<1>4. ShellTtl \in Nat /\ ShellTtl # None /\ Delivery \in Nat /\ Delivery # None
  BY GateConstants, NoneIs
<1>5. reg'.seen[s] # None => reg'.seen[s] + sinceLaunch[s] >= ShellTtl
  BY <1>1, <1>2, <1>4 DEF OwedShell
<1>6. CASE s \in Settled(r, l)
  BY <1>1, <1>2, <1>4, <1>5, <1>6
<1>7. CASE s \notin Settled(r, l) /\ reg.launched[s] # None /\ s \in l
  BY <1>1, <1>2, <1>4, <1>5, <1>7 DEF OwedShell
<1>8. CASE s \notin Settled(r, l) /\ reg.launched[s] = None
  BY <1>1, <1>2, <1>5, <1>8 DEF OwedShell
<1> QED
  BY <1>3, <1>6, <1>7, <1>8

LEMMA ListingRight ==
  ASSUME GateInv, NEW a \in Agents, NEW l \in SUBSET Ids,
         SubagentStopsListing(a, l), Listed(l)
  PROVE  Right
<1> DEFINE q == NoteAgentStop(reg, a)
           r == ReconcileDeclared(q, l)
<1>1. /\ Hears /\ signals' = signals + 1 /\ WithAgentCount(r, StopSeen(a))
      /\ UNCHANGED <<onHold, fresh, sinceLaunch>> /\ CalmFollows(FALSE)
      /\ accounted' = Shells
  BY DEF Listed, SubagentStopsListing, Hears
<1>2. /\ q \in RegistryType
      /\ q.seen = reg.seen /\ q.launched = reg.launched
      /\ q.undelivered = reg.undelivered /\ q.list = reg.list
      /\ StopOutcome(reg, a) # "orphan" => q.orphans = reg.orphans
  BY GateTypes, StopTyped
<1> HIDE DEF q
<1>3. r \in RegistryType /\ r.orphans = q.orphans
  BY <1>2, ReconcileTyped
<1>4. reg' = r
  BY <1>1 DEF WithAgentCount
<1>5. \A s \in Shells : OwedShell(s)'
  BY <1>1, <1>2, <1>4, ShellsReconciled
<1> HIDE DEF r
<1>6. /\ gate' \in GateType /\ st' \in Live \cup {"DONE"}
      /\ HeldIsTimed' /\ HeldAsMeant'
      /\ ReleaseIsCurrent /\ QuietBeforeRelease
      /\ Completed => ActiveCount(reg') = 0
  BY <1>1, <1>2, <1>3, StopSeenIs, LookKeeps
<1>7. GateTypeOK'
  <2>1. calm' \in 0..Settle /\ signals' \in 0..MaxSignals
    BY <1>1, CalmIs, Heard1
  <2> QED
    BY <1>1, <1>3, <1>4, <1>6, <2>1, GateTypes DEF GateTypeOK
<1>8. NotBeforeFollowUp
  BY <1>1, <1>3, <1>4, <1>5, <1>6, GateTypes, NothingOwed
<1> QED
  BY <1>5, <1>6, <1>7, <1>8 DEF Right, GateInv, HeldIsWatched

LEMMA StopHookRight ==
  ASSUME GateInv, NEW l \in SUBSET Ids, StopHook(l), Listed(l)
  PROVE  Right
<1> DEFINE r == ReconcileDeclared(reg, l)
<1>1. /\ Hears /\ signals' = signals + 1 /\ WithAgentCount(r, gate)
      /\ onHold' = "hook" /\ UNCHANGED <<fresh, sinceLaunch>> /\ CalmFollows(FALSE)
      /\ accounted' = Shells
  BY DEF Listed, StopHook, Hears
<1>2. r \in RegistryType /\ r.orphans = reg.orphans
  BY GateTypes, ReconcileTyped
<1>3. reg' = r
  BY <1>1 DEF WithAgentCount
<1>4. \A s \in Shells : OwedShell(s)'
  BY <1>1, <1>3, GateTypes, ShellsReconciled
<1> HIDE DEF r
<1>5. /\ gate' \in GateType /\ st' \in Live \cup {"DONE"}
      /\ HeldIsTimed' /\ HeldAsMeant'
      /\ ReleaseIsCurrent /\ QuietBeforeRelease
      /\ Completed => ActiveCount(reg') = 0
  BY <1>1, <1>2, GateTypes, LookKeeps
<1>6. GateTypeOK'
  <2>1. calm' \in 0..Settle /\ signals' \in 0..MaxSignals
    BY <1>1, CalmIs, Heard1
  <2> QED
    BY <1>1, <1>2, <1>3, <1>5, <2>1, GateTypes DEF GateTypeOK
<1>7. NotBeforeFollowUp
  BY <1>1, <1>2, <1>3, <1>4, <1>5, GateTypes, NothingOwed
<1> QED
  BY <1>4, <1>5, <1>6, <1>7 DEF Right, GateInv, HeldIsWatched

\* A step that leaves the registry and the gate alone leaves the quiet time.
LEMMA GateStays ==
  ASSUME GateInv, UNCHANGED <<reg, gate, fresh>>, CalmFollows(FALSE)
  PROVE  HeldIsTimed' /\ HeldAsMeant' /\ ReleaseIsCurrent /\ QuietBeforeRelease
<1>1. HeldIsTimed'
  BY GateTypes DEF HeldIsTimed
<1>2. HeldAsMeant'
  <2>1. ActiveCount(reg) = 0 => calm' = calm
    BY CalmIs
  <2> QED
    BY <2>1 DEF GateInv, HeldAsMeant
<1>3. ~Released
  BY NoGateTyped DEF Released
<1> QED
  BY <1>1, <1>2, <1>3 DEF ReleaseIsCurrent, QuietBeforeRelease

LEMMA OthersRight ==
  ASSUME GateInv, Heard(BareStopHook \/ TitleReady \/ OperatorMoves \/ Restarts)
  PROVE  Right
<1>1. /\ UNCHANGED <<reg, gate, fresh, sinceLaunch, accounted>> /\ CalmFollows(FALSE)
      /\ onHold' \in {onHold, "title", "hook"}
  BY DEF Heard, BareStopHook, TitleReady, OperatorMoves, Restarts
<1>2. /\ signals' \in 0..MaxSignals /\ st' \in Live \cup {"DONE"}
      /\ st' = st \/ st' # "COMPLETE"
  <2>1. CASE BareStopHook \/ TitleReady
    BY <2>1, Heard1, GateTypes DEF BareStopHook, TitleReady
  <2>2. CASE OperatorMoves
    BY <2>2, Heard1 DEF OperatorMoves, Live
  <2>3. CASE Restarts
    BY <2>3, GateTypes DEF Restarts, Live
  <2> QED
    BY <2>1, <2>2, <2>3 DEF Heard
<1>3. calm' \in 0..Settle
  BY <1>1, CalmIs
<1>4. GateTypeOK'
  BY <1>1, <1>2, <1>3, GateTypes DEF GateTypeOK
<1>5. \A s \in Shells : OwedShell(s)'
  BY <1>1, ShellsStay
<1>6. NotBeforeFollowUp
  BY <1>2, NoneCompleted
<1> QED
  BY <1>1, <1>4, <1>5, <1>6, GateStays DEF Right, GateInv, HeldIsWatched

\* Activity drops the ready that is held.
LEMMA ActivityRight ==
  ASSUME GateInv, Heard(Working \/ AwaitingInput)
  PROVE  Right
<1>1. PICK to \in {"RUNNING", "WAITING"} : Active(to)
  BY DEF Heard, Working, AwaitingInput
<1>2. /\ Hears /\ signals' = signals + 1 /\ reg' = reg /\ st' = to
      /\ onHold' = None /\ fresh' = TRUE
      /\ UNCHANGED <<sinceLaunch, accounted>> /\ CalmFollows(FALSE)
  BY <1>1 DEF Heard, Working, AwaitingInput, Active, Hears
<1> DEFINE g == IF gate.held = None THEN gate ELSE [gate EXCEPT !.moved = TRUE]
<1>3. gate' = Evaluated(g, st, reg).gate
  BY <1>1 DEF Active
<1>4. g \in GateType /\ (g.held # None => g.moved = TRUE)
  BY GateTypes DEF GateType
<1> HIDE DEF g
<1>5. gate' \in GateType /\ gate'.held = None
  <2> DEFINE e == Evaluated(g, st, reg)
  <2>0. Looked(g, st, reg, e)
    BY <1>4, GateTypes, LookedAt
  <2> HIDE DEF e
  <2>1. gate'.held # None => gate'.held = g.held /\ g.moved = FALSE
    BY <1>3, <2>0 DEF Looked, e
  <2>2. gate' \in GateType
    BY <1>3, <2>0 DEF Looked, e
  <2> QED
    BY <1>4, <2>1, <2>2
<1>6. GateTypeOK'
  <2>1. calm' \in 0..Settle /\ signals' \in 0..MaxSignals
    BY <1>2, CalmIs, Heard1
  <2> QED
    BY <1>2, <1>5, <2>1, GateTypes DEF GateTypeOK, Live
<1>7. HeldIsTimed' /\ HeldAsMeant'
  BY <1>5 DEF HeldIsTimed, HeldAsMeant
<1>8. \A s \in Shells : OwedShell(s)'
  BY <1>2, ShellsStay
<1>9. ReleaseIsCurrent /\ QuietBeforeRelease
  BY <1>2 DEF ReleaseIsCurrent, QuietBeforeRelease, Released
<1>10. NotBeforeFollowUp
  BY <1>2, NoneCompleted
<1> QED
  BY <1>6, <1>7, <1>8, <1>9, <1>10 DEF Right, GateInv, HeldIsWatched

\* A Stop completes a turn at once when nothing is counted: no shell is listed
\* or owed a follow-up.
LEMMA ReadyRight ==
  ASSUME GateInv, Heard(ReadyResolves)
  PROVE  Right
<1> DEFINE held == [held |-> st, conf |-> onHold, age |-> 0, quiet |-> None,
                    timer |-> None, moved |-> FALSE]
           free == ActiveCount(reg) = 0 /\ ~OrphanGate
<1>1. /\ onHold # None /\ st \in Live /\ onHold' = None
      /\ UNCHANGED <<reg, signals, sinceLaunch, accounted>> /\ CalmFollows(FALSE)
      /\ \/ free /\ st' = "COMPLETE" /\ UNCHANGED <<gate, fresh>>
         \/ gate' = Evaluated(held, st, reg).gate /\ fresh' = FALSE /\ UNCHANGED st
         \/ UNCHANGED <<st, gate, fresh>>
  BY DEF Heard, ReadyResolves
<1>2. calm' \in 0..Settle /\ calm' \in Nat
  BY <1>1, CalmIs
<1>3. \A s \in Shells : OwedShell(s)'
  BY <1>1, ShellsStay
<1>4. CASE UNCHANGED <<gate, fresh>> /\ (st' = st \/ (free /\ st' = "COMPLETE"))
  <2>1. GateTypeOK'
    BY <1>1, <1>2, <1>4, GateTypes DEF GateTypeOK, Live
  <2>2. HeldIsTimed' /\ HeldAsMeant' /\ ReleaseIsCurrent /\ QuietBeforeRelease
    BY <1>1, <1>4, GateStays
  <2>3. NotBeforeFollowUp
    <3>1. Completed => ActiveCount(reg') = 0
      BY <1>1, <1>4 DEF Completed
    <3> QED
      BY <1>1, <1>3, <3>1, GateTypes, NothingOwed
  <2> QED
    BY <1>3, <2>1, <2>2, <2>3 DEF Right, GateInv, HeldIsWatched
<1>5. CASE gate' = Evaluated(held, st, reg).gate /\ fresh' = FALSE /\ st' = st
  <2>1. held \in GateType /\ held.quiet = None /\ held.age = 0
    BY <1>1, GateTypes, GateConstants DEF GateType
  <2> HIDE DEF held
  <2> DEFINE e == Evaluated(held, st, reg)
  <2>0. Looked(held, st, reg, e)
    BY <2>1, GateTypes, LookedAt
  <2>9. gate' = e.gate
    BY <1>5
  <2> HIDE DEF e
  <2>2. /\ gate' \in GateType
        /\ gate'.held # None =>
             /\ gate'.timer # None /\ gate'.moved = FALSE /\ gate'.age = 0
             /\ gate'.quiet # None => ActiveCount(reg) = 0 /\ gate'.quiet \in {0, None}
    BY <2>0, <2>1, <2>9 DEF Looked
  <2>3. HeldAsMeant'
    <3>1. SmallerOf(0, 0) = 0
      BY DEF SmallerOf
    <3> QED
      BY <1>1, <1>2, <1>5, <2>2, <3>1 DEF HeldAsMeant
  <2>4. HeldIsTimed'
    BY <2>2 DEF HeldIsTimed
  <2>5. GateTypeOK'
    BY <1>1, <1>2, <1>5, <2>2, GateTypes DEF GateTypeOK
  <2>6. ReleaseIsCurrent /\ QuietBeforeRelease /\ NotBeforeFollowUp
    BY <1>5, NoneCompleted DEF ReleaseIsCurrent, QuietBeforeRelease, Released
  <2> QED
    BY <1>3, <2>3, <2>4, <2>5, <2>6 DEF Right, GateInv, HeldIsWatched
<1>6. \/ UNCHANGED <<gate, fresh>> /\ (st' = st \/ (free /\ st' = "COMPLETE"))
      \/ gate' = Evaluated(held, st, reg).gate /\ fresh' = FALSE /\ st' = st
  <2> HIDE DEF held, free
  <2> QED
    BY <1>1
<1> QED
  BY <1>4, <1>5, <1>6

LEMMA TimerRight ==
  ASSUME GateInv, Heard(GateTimerFires)
  PROVE  Right
<1> DEFINE g == [gate EXCEPT !.timer = None]
<1>1. /\ WithAgentCount(reg, g)
      /\ UNCHANGED <<onHold, signals, fresh, sinceLaunch, accounted>> /\ CalmFollows(FALSE)
  BY DEF Heard, GateTimerFires
<1>2. /\ g \in GateType /\ g.held = gate.held /\ g.moved = gate.moved
      /\ g.age = gate.age /\ g.quiet = gate.quiet
  BY GateTypes DEF GateType
<1> HIDE DEF g
<1>3. /\ reg' = reg /\ gate' \in GateType /\ st' \in Live \cup {"DONE"}
      /\ HeldIsTimed' /\ HeldAsMeant'
      /\ ReleaseIsCurrent /\ QuietBeforeRelease
      /\ Completed => ActiveCount(reg') = 0
  BY <1>1, <1>2, GateTypes, LookKeeps
<1>4. GateTypeOK'
  <2>1. calm' \in 0..Settle
    BY <1>1, CalmIs
  <2> QED
    BY <1>1, <1>3, <2>1, GateTypes DEF GateTypeOK
<1>5. \A s \in Shells : OwedShell(s)'
  BY <1>1, <1>3, ShellsStay
<1>6. NotBeforeFollowUp
  BY <1>1, <1>3, <1>5, GateTypes, NothingOwed
<1> QED
  BY <1>3, <1>4, <1>5, <1>6 DEF Right, GateInv, HeldIsWatched

LEMMA LaunchedRight ==
  ASSUME GateInv, NEW s \in Shells, Launched(s)
  PROVE  Right
<1> DEFINE r == [reg EXCEPT !.launched[s] = ShellTtl, !.undelivered[s] = None]
<1>1. /\ Hears /\ signals' = signals + 1 /\ WithAgentCount(r, gate)
      /\ reg.seen[s] = None
      /\ UNCHANGED <<onHold, fresh>> /\ CalmFollows(FALSE)
      /\ sinceLaunch' = [sinceLaunch EXCEPT ![s] = 0]
      /\ accounted' = accounted \ {s}
  BY DEF Launched, ShellLaunched, Hears
<1>2. /\ r \in RegistryType /\ r.orphans = reg.orphans
      /\ r.seen = reg.seen /\ r.list = reg.list /\ r.launched[s] = ShellTtl
      /\ \A t \in Shells : t # s =>
           r.launched[t] = reg.launched[t] /\ r.undelivered[t] = reg.undelivered[t]
  BY GateTypes, LaunchTyped
<1> HIDE DEF r
<1>3. /\ reg' = r /\ gate' \in GateType /\ st' \in Live \cup {"DONE"}
      /\ HeldIsTimed' /\ HeldAsMeant'
      /\ ReleaseIsCurrent /\ QuietBeforeRelease
      /\ Completed => ActiveCount(reg') = 0
  BY <1>1, <1>2, GateTypes, LookKeeps
<1>4. /\ sinceLaunch' \in [Shells -> {None} \cup 0..Delivery]
      /\ sinceLaunch'[s] = 0
      /\ \A t \in Shells : t # s => sinceLaunch'[t] = sinceLaunch[t]
  BY <1>1, GateTypes, GateConstants
<1>5. ASSUME NEW t \in Shells PROVE OwedShell(t)'
  <2>1. CASE t # s
    <3>1. OwedShell(t)
      BY DEF GateInv
    <3> QED
      BY <1>1, <1>2, <1>3, <1>4, <2>1, <3>1 DEF OwedShell
  <2>2. CASE t = s
    BY <1>1, <1>2, <1>3, <1>4, <2>2, GateConstants, NoneIs DEF OwedShell
  <2> QED
    BY <2>1, <2>2
<1>6. GateTypeOK'
  <2>1. calm' \in 0..Settle /\ signals' \in 0..MaxSignals
    BY <1>1, CalmIs, Heard1
  <2> QED
    BY <1>1, <1>2, <1>3, <1>4, <2>1, GateTypes DEF GateTypeOK
<1>7. NotBeforeFollowUp
  BY <1>1, <1>2, <1>3, <1>4, <1>5, GateTypes, NothingOwed
<1> QED
  BY <1>3, <1>5, <1>6, <1>7 DEF Right, GateInv, HeldIsWatched

LEMMA PromptedRight ==
  ASSUME GateInv, NEW d \in SUBSET Shells, Prompted(d)
  PROVE  Right
<1>1. /\ Hears /\ signals' = signals + 1 /\ gate' = NoGate /\ st' = "RUNNING"
      /\ onHold' = None /\ fresh' = TRUE /\ CalmFollows(FALSE)
      /\ sinceLaunch' = [s \in Shells |-> IF s \in d THEN None ELSE sinceLaunch[s]]
      /\ accounted' = {}
  BY DEF Prompted, Prompt, Hears
<1>2. /\ reg' \in RegistryType /\ reg'.seen = reg.seen
      /\ \A s \in Shells : s \notin d =>
           /\ reg'.launched[s] = reg.launched[s]
           /\ reg'.undelivered[s] = reg.undelivered[s]
  <2> DEFINE q == AfterPrompt(reg, d)
  <2>1. /\ q \in RegistryType /\ q.seen = reg.seen
        /\ \A s \in Shells : s \notin d =>
             /\ q.launched[s] = reg.launched[s]
             /\ q.undelivered[s] = reg.undelivered[s]
    BY GateTypes, PromptTyped
  <2>2. reg' = q
    BY DEF Prompted, Prompt, AfterPrompt
  <2> HIDE DEF q
  <2> QED
    BY <2>1, <2>2
<1>3. GateTypeOK'
  <2>1. calm' \in 0..Settle /\ signals' \in 0..MaxSignals
    BY <1>1, CalmIs, Heard1
  <2>2. sinceLaunch' \in [Shells -> {None} \cup 0..Delivery]
    BY <1>1, GateTypes
  <2> QED
    BY <1>1, <1>2, <2>1, <2>2, NoGateTyped DEF GateTypeOK, Live
<1>4. HeldIsTimed' /\ HeldAsMeant'
  BY <1>1, NoGateTyped DEF HeldIsTimed, HeldAsMeant
<1>5. ASSUME NEW s \in Shells PROVE OwedShell(s)'
  <2>1. OwedShell(s)
    BY DEF GateInv
  <2> QED
    BY <1>1, <1>2, <2>1, NoneIs DEF OwedShell
<1>6. ReleaseIsCurrent /\ QuietBeforeRelease
  BY <1>1 DEF ReleaseIsCurrent, QuietBeforeRelease, Released
<1>7. NotBeforeFollowUp
  BY <1>1, NoneCompleted
<1> QED
  BY <1>3, <1>4, <1>5, <1>6, <1>7 DEF Right, GateInv, HeldIsWatched

LEMMA EndedRight ==
  ASSUME GateInv, Ended
  PROVE  Right
<1>1. /\ Hears /\ signals' = signals + 1 /\ gate' = NoGate /\ st' = "DONE"
      /\ reg' = EmptyRegistry /\ onHold' = None /\ fresh' = TRUE
      /\ CalmFollows(FALSE) /\ sinceLaunch' = EmptyRegistry.launched
      /\ accounted' = {}
  BY DEF Ended, Exits, Hears
<1>2. sinceLaunch' = [s \in Shells |-> None]
  BY <1>1 DEF EmptyRegistry
<1>3. GateTypeOK'
  <2>1. calm' \in 0..Settle /\ signals' \in 0..MaxSignals
    BY <1>1, CalmIs, Heard1
  <2>2. sinceLaunch' \in [Shells -> {None} \cup 0..Delivery]
    BY <1>2
  <2> QED
    BY <1>1, <2>1, <2>2, EmptyTyped, NoGateTyped DEF GateTypeOK
<1>4. HeldIsTimed' /\ HeldAsMeant'
  BY <1>1, NoGateTyped DEF HeldIsTimed, HeldAsMeant
<1>5. \A s \in Shells : OwedShell(s)'
  BY <1>2 DEF OwedShell
<1>6. ReleaseIsCurrent /\ QuietBeforeRelease
  BY <1>1 DEF ReleaseIsCurrent, QuietBeforeRelease, Released
<1>7. NotBeforeFollowUp
  BY <1>1, NoneCompleted
<1> QED
  BY <1>3, <1>4, <1>5, <1>6, <1>7 DEF Right, GateInv, HeldIsWatched

\* Time brings what is counted to its end and adds to the quiet, to its age and
\* to the calm alike.
LEMMA TimeRight ==
  ASSUME GateInv, TimePasses
  PROVE  Right
<1>1. /\ UNCHANGED <<st, onHold, signals, fresh, accounted>> /\ CalmFollows(TRUE)
      /\ sinceLaunch' = [s \in Shells |-> Longer(sinceLaunch[s])]
      /\ reg' = AgedRegistry(reg)
      /\ gate' = [gate EXCEPT
           !.age = IF gate.held = None THEN 0 ELSE SmallerOf(gate.age + 1, Settle),
           !.quiet = Settles(gate.quiet),
           !.timer = IF gate.timer = None \/ gate.timer = 0 THEN gate.timer
                     ELSE gate.timer - 1]
  BY GateTypes DEF TimePasses, EntriesAge, GateType
<1>2. /\ reg' \in RegistryType /\ reg'.list = reg.list
      /\ \A a \in Agents : reg.orphans[a] = None => reg'.orphans[a] = None
      /\ \A s \in Shells : /\ reg'.seen[s] = Older(reg.seen[s])
                           /\ reg'.launched[s] = Older(reg.launched[s])
                           /\ reg'.undelivered[s] = Older(reg.undelivered[s])
      /\ ActiveCount(reg) = 0 => ActiveCount(reg') = 0
  BY <1>1, GateTypes, AgedTyped
<1> DEFINE age == IF gate.held = None THEN 0 ELSE SmallerOf(gate.age + 1, Settle)
           timer == IF gate.timer = None \/ gate.timer = 0 THEN gate.timer
                    ELSE gate.timer - 1
<1>3. /\ age \in 0..Settle /\ Settles(gate.quiet) \in {None} \cup 0..Settle
      /\ timer \in {None} \cup Nat /\ (gate.timer # None => timer # None)
  BY GateTypes, GateFields, GateConstants, NoneIs DEF SmallerOf, Settles
<1> HIDE DEF age, timer
<1>4. /\ gate' \in GateType /\ gate'.held = gate.held /\ gate'.moved = gate.moved
      /\ gate'.age = age /\ gate'.quiet = Settles(gate.quiet) /\ gate'.timer = timer
  BY <1>1, <1>3, GateTypes DEF GateType, age, timer
<1>5. ASSUME NEW s \in Shells PROVE sinceLaunch'[s] \in {None} \cup 0..Delivery
  BY <1>1, GateTypes, GateConstants DEF Longer, SmallerOf
<1>6. GateTypeOK'
  <2>1. calm' \in 0..Settle
    BY <1>1, CalmIs
  <2>2. sinceLaunch' \in [Shells -> {None} \cup 0..Delivery]
    BY <1>1, <1>5
  <2> QED
    BY <1>1, <1>2, <1>4, <2>1, <2>2, GateTypes DEF GateTypeOK
<1>7. HeldIsTimed'
  BY <1>3, <1>4, GateTypes DEF HeldIsTimed
<1>8. HeldAsMeant'
  <2> SUFFICES ASSUME gate.held # None
               PROVE  /\ ~fresh /\ ~gate.moved
                      /\ Settles(gate.quiet) # None =>
                           /\ ActiveCount(reg') = 0
                           /\ SmallerOf(Settles(gate.quiet), age) <= calm'
    BY <1>1, <1>4 DEF HeldAsMeant
  <2>1. ~fresh /\ ~gate.moved
    BY DEF GateInv, HeldAsMeant
  <2>2. ASSUME Settles(gate.quiet) # None
        PROVE  /\ ActiveCount(reg') = 0
               /\ SmallerOf(Settles(gate.quiet), age) <= calm'
    <3>1. gate.quiet # None /\ Settles(gate.quiet) = SmallerOf(gate.quiet + 1, Settle)
      BY <2>2 DEF Settles
    <3>2. ActiveCount(reg) = 0 /\ SmallerOf(gate.quiet, gate.age) <= calm
      BY <3>1 DEF GateInv, HeldAsMeant
    <3>3. ActiveCount(reg') = 0
      BY <1>2, <3>2
    <3>4. calm' = SmallerOf(calm + 1, Settle)
      BY <1>1, <1>2, <3>2, <3>3, CalmIs
    <3>5. gate.quiet \in Nat /\ gate.age \in Nat /\ calm \in Nat /\ Settle \in Nat
      BY <3>1, GateTypes, GateFields, GateConstants
    <3>6. SmallerOf(SmallerOf(gate.quiet + 1, Settle), SmallerOf(gate.age + 1, Settle))
            <= SmallerOf(calm + 1, Settle)
      BY <3>2, <3>5 DEF SmallerOf
    <3> QED
      BY <3>1, <3>3, <3>4, <3>6 DEF age
  <2> QED
    BY <2>1, <2>2
<1>9. ASSUME NEW s \in Shells PROVE OwedShell(s)'
  <2> SUFFICES ASSUME sinceLaunch'[s] # None, sinceLaunch'[s] < Delivery
               PROVE  OwedShell(s)'
    BY DEF OwedShell
  <2>1. sinceLaunch[s] \in Nat /\ sinceLaunch[s] # None
    BY <1>1, GateTypes, GateConstants DEF Longer
  <2>2. sinceLaunch'[s] = sinceLaunch[s] + 1 /\ sinceLaunch[s] < Delivery
    BY <1>1, <2>1, GateConstants DEF Longer, SmallerOf
  <2>3. /\ reg.seen[s] \in Left(ShellTtl) /\ reg.launched[s] \in Left(ShellTtl)
        /\ reg.undelivered[s] \in Left(Delivery)
    BY GateTypes, RegistryFields
  <2>4. OwedShell(s)
    BY DEF GateInv
  <2>5. ASSUME NEW k \in Nat, NEW n \in Left(k), NEW m \in Nat, m >= Delivery,
               n # None, n + sinceLaunch[s] >= m
        PROVE  /\ Older(n) # None
               /\ Older(n) + sinceLaunch'[s] >= m
    <3>1. n \in Nat
      BY <2>5, OlderIs
    <3>2. n # 1
      BY <2>1, <2>2, <2>5, GateConstants
    <3>3. Older(n) # None /\ Older(n) = n - 1
      BY <2>5, <3>2, OlderIs
    <3> QED
      BY <2>1, <2>2, <2>5, <3>1, <3>3
  <2>6. reg'.seen[s] # None =>
          /\ reg.seen[s] # None /\ reg'.seen[s] + sinceLaunch'[s] >= ShellTtl
    <3>1. reg'.seen[s] # None => reg.seen[s] # None
      BY <1>2, <2>3, OlderIs, GateConstants
    <3> QED
      BY <1>2, <2>1, <2>2, <2>3, <2>4, <2>5, <3>1, GateConstants DEF OwedShell
  <2>7. CASE /\ reg.undelivered[s] # None
             /\ reg.undelivered[s] + sinceLaunch[s] >= Delivery
    <3>1. /\ reg'.undelivered[s] # None
          /\ reg'.undelivered[s] + sinceLaunch'[s] >= Delivery
      BY <1>2, <2>3, <2>5, <2>7, GateConstants
    <3> QED
      BY <2>6, <3>1 DEF OwedShell
  <2>8. CASE /\ reg.launched[s] # None
             /\ reg.launched[s] + sinceLaunch[s] >= ShellTtl
             /\ s \in accounted => s \in reg.list /\ reg.seen[s] # None
    <3>1. /\ reg'.launched[s] # None
          /\ reg'.launched[s] + sinceLaunch'[s] >= ShellTtl
      BY <1>2, <2>3, <2>5, <2>8, GateConstants
    <3>2. ASSUME s \in accounted PROVE s \in reg'.list /\ reg'.seen[s] # None
      <4>1. s \in reg.list /\ reg.seen[s] # None
        BY <2>8, <3>2
      <4>2. reg.seen[s] + sinceLaunch[s] >= ShellTtl
        BY <2>1, <2>2, <2>4, <4>1 DEF OwedShell
      <4>3. Older(reg.seen[s]) # None
        BY <2>3, <2>5, <4>1, <4>2, GateConstants
      <4> QED
        BY <1>2, <4>1, <4>3
    <3> QED
      BY <1>1, <2>6, <3>1, <3>2 DEF OwedShell
  <2> QED
    BY <2>1, <2>2, <2>4, <2>7, <2>8 DEF OwedShell
<1>10. ReleaseIsCurrent /\ QuietBeforeRelease
  BY <1>1 DEF ReleaseIsCurrent, QuietBeforeRelease, Released
<1>11. NotBeforeFollowUp
  BY <1>1, NoneCompleted
<1> QED
  BY <1>6, <1>7, <1>8, <1>9, <1>10, <1>11 DEF Right, GateInv, HeldIsWatched

LEMMA GateStep ==
  ASSUME GateInv, [GateNext]_gateVars
  PROVE  Right
<1>1. CASE Heard(Hook)
  <2>1. CASE \E a \in Agents : Heard(SubagentStarts(a) \/ TaskCreated(a))
    BY <2>1, NewWorkRight
  <2>2. CASE \E a \in Agents : Heard(TaskCompleted(a))
    BY <2>2, TaskCompletedRight
  <2>3. CASE \E a \in Agents : Heard(SubagentStops(a))
    BY <2>3, StopsRight
  <2>4. CASE Heard(BareStopHook \/ TitleReady \/ OperatorMoves \/ Restarts)
    BY <2>4, OthersRight
  <2>5. CASE Heard(Working \/ AwaitingInput)
    BY <2>5, ActivityRight
  <2> QED
    BY <1>1, <2>1, <2>2, <2>3, <2>4, <2>5 DEF Heard, Hook
<1>2. CASE Heard(Restarts)
  <2>1. Heard(BareStopHook \/ TitleReady \/ OperatorMoves \/ Restarts)
    BY <1>2 DEF Heard
  <2> QED
    BY <2>1, OthersRight
<1>3. CASE UNCHANGED gateVars
  <2>1. /\ UNCHANGED <<st, reg, gate, onHold, signals, fresh, calm, sinceLaunch,
                   accounted>>
    BY <1>3 DEF gateVars
  <2>2. GateTypeOK' /\ HeldIsTimed'
    BY <2>1, GateTypes DEF GateInv, HeldIsWatched, GateTypeOK, HeldIsTimed
  <2>3. HeldAsMeant'
    BY <2>1 DEF GateInv, HeldAsMeant
  <2>4. \A s \in Shells : OwedShell(s)'
    BY <2>1 DEF GateInv, OwedShell
  <2>5. ReleaseIsCurrent /\ QuietBeforeRelease /\ NotBeforeFollowUp
    BY <2>1, NoneCompleted DEF ReleaseIsCurrent, QuietBeforeRelease, Released
  <2> QED
    BY <2>2, <2>3, <2>4, <2>5 DEF Right, GateInv, HeldIsWatched
<1>4. CASE \E l \in SUBSET Ids : Listed(l)
  <2>1. PICK l \in SUBSET Ids : Listed(l)
    BY <1>4
  <2>2. CASE StopHook(l)
    BY <2>1, <2>2, StopHookRight
  <2>3. CASE \E a \in Agents : SubagentStopsListing(a, l)
    BY <2>1, <2>3, ListingRight
  <2> QED
    BY <2>1, <2>2, <2>3 DEF Listed, Lists
<1> QED
  BY <1>1, <1>2, <1>3, <1>4, ReadyRight, TimerRight, LaunchedRight, PromptedRight,
     EndedRight, TimeRight DEF GateNext

\* A ready that is held has a timer that will look at it, whatever hooks come
\* between, and the registry and the gate are well typed: for any agents and
\* shells and any times.
THEOREM HeldIsLookedAt == GateSpec => []HeldIsWatched
<1>1. GateInv /\ [GateNext]_gateVars => GateInv'
  BY GateStep DEF Right
<1>2. GateInv => HeldIsWatched
  BY DEF GateInv
<1> QED
  BY <1>1, <1>2, Begun, PTL DEF GateSpec

\* A turn is completed from the gate only when nothing newer was heard and the
\* background has been quiet for the whole settle window; and neither so nor at
\* once while a shell that a list accounted for is owed its follow-up.
THEOREM TurnsCompleteInTime == GateSpec => CompletesInTime
<1>1. GateInv /\ [GateNext]_gateVars => GateInv'
  BY GateStep DEF Right
<1>2. GateInv /\ [GateNext]_gateVars
        => ReleaseIsCurrent /\ QuietBeforeRelease /\ NotBeforeFollowUp
  BY GateStep DEF Right
<1> QED
  BY <1>1, <1>2, Begun, PTL DEF GateSpec, CompletesInTime
==============================================================================
