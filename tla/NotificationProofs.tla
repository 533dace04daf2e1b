------------------------- MODULE NotificationProofs -------------------------
(* Theorems about what reaches the operator's phone: NotificationManager,    *)
(* for any sessions, alerts, delays and times, and TelegramOutbox, for any   *)
(* number of pings, attempts and restarts, any size of the queue and a disk  *)
(* of any speed.                                                             *)
EXTENDS TelegramOutbox, NotificationManager, SequenceTheorems,
        FiniteSetTheorems, TLAPS

-----------------------------------------------------------------------------
(* Facts the invariants need. *)

\* A set of numbers has a least one: 0..k shrinks with k, and a chain of finite
\* sets that shrink ends.
LEMMA LeastNumber ==
  ASSUME NEW T, T \subseteq Nat, T # {}
  PROVE  \E m \in T : \A k \in T : m <= k
<1> DEFINE below == {0..m : m \in T}
           R == StrictSubsetOrdering(Nat)
<1>1. IsWellFoundedOn(R, FiniteSubsetsOf(Nat))
  BY FS_StrictSubsetOrderingWellFounded
<1>2. below \subseteq FiniteSubsetsOf(Nat) /\ below # {}
  <2>1. ASSUME NEW m \in T PROVE 0..m \in FiniteSubsetsOf(Nat)
    <3>1. IsFiniteSet(0..m)
      BY FS_Interval
    <3> QED
      BY <3>1 DEF FiniteSubsetsOf
  <2> QED
    BY <2>1
<1> HIDE DEF R
<1>3. PICK x \in below : \A y \in below : ~ (<<y, x>> \in R)
  BY <1>1, <1>2, WFMin
<1>4. PICK m \in T : x = 0..m
  BY <1>3
<1>5. ASSUME NEW k \in T PROVE m <= k
  <2> SUFFICES ASSUME k < m PROVE FALSE
    OBVIOUS
  <2>1. 0..k \in SUBSET Nat /\ 0..m \in SUBSET Nat
    OBVIOUS
  <2>2. 0..k \subseteq 0..m /\ m \in 0..m /\ m \notin 0..k
    OBVIOUS
  <2>3. <<0..k, 0..m>> \in R
    BY <2>1, <2>2, Zenon DEF R, StrictSubsetOrdering
  <2> QED
    BY <1>3, <1>4, <2>3
<1> QED
  BY <1>5

\* Ticks are numbers, null and an entry are neither of them.
LEMMA Times ==
  /\ EscalationMs \in Nat /\ EscalationMs > 0 /\ RecheckMs \in Nat
  /\ PhoneDelays \subseteq Nat /\ PhoneDelays # {}
  /\ Horizon \in Nat /\ MaxAlerts \in Nat /\ LastInput \in Nat
  BY TimesAssumption

LEMMA NothingIs ==
  /\ \A n \in Int : n # Nothing
  /\ \A e \in AlertEntries : e # Nothing
  BY NothingAssumption

LEMMA LeastDelay ==
  /\ Least(PhoneDelays) \in Nat
  /\ \A d \in PhoneDelays : Least(PhoneDelays) <= d
<1>1. \E m \in PhoneDelays : \A k \in PhoneDelays : m <= k
  BY Times, LeastNumber
<1> QED
  BY <1>1, Times DEF Least

-----------------------------------------------------------------------------
(* The invariants of the notification manager. *)

\* The alert of a session is of its state, not of a question its manager
\* answered.
Calls(s) == entry[s] # Nothing /\ entry[s].category # "question-answered"

\* The handles of an entry are the timers it needs.
Timed(s) ==
  /\ ticking[s] = {timer[s]} \ {Nothing}
  /\ timer[s] # Nothing <=> entry[s] # Nothing /\ entry[s].category = "waiting"
  /\ entry[s] # Nothing => entry[s].since <= now
  /\ phone[s] # Nothing =>
       /\ Calls(s) /\ ~entry[s].reached
       /\ phone[s] >= entry[s].since + Least(PhoneDelays)

Unsaid(s, a) == telegrams[s][a] = 0 /\ frames[s][a] = 0

\* What waits to be told is the alert of the session's state, which was not
\* told before; and it waits in one place.
ToldOnce(s) ==
  /\ ~notable[s] => deferred[s] = Nothing /\ ~Calls(s)
  /\ notable[s] => alert[s] # 0
  /\ deferred[s] # Nothing =>
       deferred[s].alert = alert[s] /\ held[s] # alert[s] /\ Unsaid(s, alert[s])
  /\ Calls(s) /\ ~entry[s].reached =>
       deferred[s] = Nothing /\ held[s] # alert[s] /\ Unsaid(s, alert[s])
  /\ \A a \in Alerts : a > alert[s] => Unsaid(s, a)
  /\ \A a \in Alerts : telegrams[s][a] <= 1 /\ frames[s][a] <= 1

\* What is held was never told to a hub, for there has been none since, and is
\* of the session's state or was answered: without its entry the alert of a
\* state is answered.
HeldRight(s) ==
  /\ notable[s] /\ entry[s] = Nothing => alert[s] \in answered[s]
  /\ held[s] # Nothing =>
       /\ ~hub /\ ~telegramOn /\ held[s] <= alert[s]
       /\ frames[s][held[s]] = 0
       /\ Asked(s, held[s]) \/ held[s] \in answered[s]

AlertInv ==
  /\ NotifyTypeOK
  /\ \A s \in Sessions : Timed(s) /\ ToldOnce(s) /\ HeldRight(s)

\* The records an entry may become.
LEMMA EntryMade ==
  ASSUME NEW category \in Categories, NEW n \in Nat
  PROVE  LET e == [state |-> "DELIVERED", category |-> category,
                   reached |-> FALSE, since |-> n]
         IN e \in AlertEntries /\ e # Nothing /\ ArmsPhone(e) \in BOOLEAN
<1> DEFINE e == [state |-> "DELIVERED", category |-> category,
                 reached |-> FALSE, since |-> n]
<1>1. e \in AlertEntries
  BY DEF AlertEntries, States
<1>2. ArmsPhone(e) \in BOOLEAN
  BY DEF ArmsPhone
<1> QED
  BY <1>1, <1>2, NothingIs

LEMMA EntryState ==
  ASSUME NEW e \in AlertEntries, NEW to \in States
  PROVE  LET v == [e EXCEPT !.state = to]
         IN /\ v \in AlertEntries /\ v # Nothing /\ v.state = to
            /\ v.category = e.category /\ v.reached = e.reached /\ v.since = e.since
<1> DEFINE v == [e EXCEPT !.state = to]
<1>1. v \in AlertEntries
  BY DEF AlertEntries
<1>2. /\ v.state = to /\ v.category = e.category /\ v.reached = e.reached
      /\ v.since = e.since
  BY DEF AlertEntries
<1> QED
  BY <1>1, <1>2, NothingIs

LEMMA EntryReached ==
  ASSUME NEW e \in AlertEntries
  PROVE  LET v == [e EXCEPT !.reached = TRUE]
         IN /\ v \in AlertEntries /\ v # Nothing /\ v.state = e.state
            /\ v.category = e.category /\ v.reached = TRUE /\ v.since = e.since
<1> DEFINE v == [e EXCEPT !.reached = TRUE]
<1>1. v \in AlertEntries
  BY DEF AlertEntries
<1>2. /\ v.state = e.state /\ v.category = e.category /\ v.reached = TRUE
      /\ v.since = e.since
  BY DEF AlertEntries
<1> QED
  BY <1>1, <1>2, NothingIs

\* A session that a step leaves alone stays right.
LEMMA LeftAlone ==
  ASSUME AlertInv, NEW r \in Sessions, now' \in Nat, now <= now',
         entry'[r] = entry[r], timer'[r] = timer[r], ticking'[r] = ticking[r],
         phone'[r] = phone[r], notable'[r] = notable[r],
         deferred'[r] = deferred[r], held'[r] = held[r], alert'[r] = alert[r],
         telegrams'[r] = telegrams[r], frames'[r] = frames[r],
         answered'[r] = answered[r], hub' => hub, telegramOn' => telegramOn
  PROVE  Timed(r)' /\ ToldOnce(r)' /\ HeldRight(r)'
<1>1. Timed(r) /\ ToldOnce(r) /\ HeldRight(r) /\ now \in Nat
  BY DEF AlertInv, NotifyTypeOK
<1>2. entry[r] # Nothing => entry[r].since \in Nat
  BY DEF AlertInv, NotifyTypeOK, AlertEntries
<1>3. Timed(r)'
  BY <1>1, <1>2 DEF Timed, Calls
<1>4. ToldOnce(r)'
  BY <1>1 DEF ToldOnce, Calls, Unsaid
<1>5. HeldRight(r)'
  BY <1>1 DEF HeldRight, Asked
<1> QED
  BY <1>3, <1>4, <1>5

\* What the types say of one session.
LEMMA SessionTypes ==
  ASSUME NotifyTypeOK, NEW s \in Sessions
  PROVE  /\ now \in Nat /\ now \in Int /\ phoneMs \in Nat /\ phoneMs \in PhoneDelays
         /\ entry[s] \in AlertEntries \cup {Nothing}
         /\ timer[s] \in Nat \cup {Nothing} /\ phone[s] \in Nat \cup {Nothing}
         /\ ticking[s] \in SUBSET Nat
         /\ agents[s] \in BOOLEAN /\ notable[s] \in BOOLEAN
         /\ alert[s] \in 0..MaxAlerts
         /\ deferred[s] \in [alert : Alerts, due : Nat] \cup {Nothing}
         /\ held[s] \in Alerts \cup {Nothing} /\ answered[s] \in SUBSET Alerts
         /\ telegrams[s] \in [Alerts -> Nat] /\ frames[s] \in [Alerts -> Nat]
<1>1. now \in 0..Horizon /\ phoneMs \in PhoneDelays
  BY DEF NotifyTypeOK
<1>2. now \in Nat /\ now \in Int /\ phoneMs \in Nat
  BY <1>1, Times
<1> QED
  BY <1>1, <1>2 DEF NotifyTypeOK

LEMMA EntryTypes ==
  ASSUME NEW e \in AlertEntries
  PROVE  /\ e # Nothing /\ e.state \in States /\ e.category \in Categories
         /\ e.reached \in BOOLEAN /\ e.since \in Nat
<1>1. /\ e.state \in States /\ e.category \in Categories
      /\ e.reached \in BOOLEAN /\ e.since \in Nat
  BY DEF AlertEntries
<1> QED
  BY <1>1, NothingIs

-----------------------------------------------------------------------------
(* What the parts of an action do. *)

LEMMA Begins == NotifyInit => AlertInv
<1> SUFFICES ASSUME NotifyInit PROVE AlertInv
  OBVIOUS
<1> USE DEF NotifyInit
<1>1. \A s \in Sessions :
        /\ entry[s] = Nothing /\ timer[s] = Nothing /\ phone[s] = Nothing
        /\ deferred[s] = Nothing /\ held[s] = Nothing /\ ticking[s] = {}
        /\ ~notable[s] /\ alert[s] = 0
        /\ telegrams[s] = [a \in Alerts |-> 0] /\ frames[s] = [a \in Alerts |-> 0]
  BY DEF Never, None
<1>2. NotifyTypeOK
  <2>1. now \in 0..Horizon /\ phoneMs \in PhoneDelays
    BY Times
  <2>2. [a \in Alerts |-> 0] \in [Alerts -> Nat]
    OBVIOUS
  <2>3. None \in [Sessions -> [Alerts -> Nat]]
    BY <2>2 DEF None
  <2>4. /\ entry \in [Sessions -> AlertEntries \cup {Nothing}]
        /\ timer \in [Sessions -> Nat \cup {Nothing}]
        /\ phone \in [Sessions -> Nat \cup {Nothing}]
        /\ deferred \in [Sessions -> [alert : Alerts, due : Nat] \cup {Nothing}]
        /\ held \in [Sessions -> Alerts \cup {Nothing}]
    BY DEF Never
  <2>5. /\ ticking \in [Sessions -> SUBSET Nat]
        /\ agents \in [Sessions -> BOOLEAN] /\ notable \in [Sessions -> BOOLEAN]
        /\ alert \in [Sessions -> 0..MaxAlerts]
        /\ answered \in [Sessions -> SUBSET Alerts]
    BY Times
  <2> QED
    BY <1>1, <2>1, <2>3, <2>4, <2>5 DEF NotifyTypeOK
<1>3. ASSUME NEW s \in Sessions
      PROVE  Timed(s) /\ ToldOnce(s) /\ HeldRight(s)
  <2>1. Timed(s)
    BY <1>1 DEF Timed
  <2>2. \A a \in Alerts : telegrams[s][a] = 0 /\ frames[s][a] = 0
    BY <1>1
  <2>3. ToldOnce(s)
    BY <1>1, <2>2 DEF ToldOnce, Calls, Unsaid
  <2>4. HeldRight(s)
    BY <1>1 DEF HeldRight
  <2> QED
    BY <2>1, <2>3, <2>4
<1> QED
  BY <1>2, <1>3 DEF AlertInv

\* No timer of an entry is left when its handle is cleared.
LEMMA ClearedAll ==
  ASSUME AlertInv, NEW s \in Sessions
  PROVE  Cleared(s) = {}
<1>1. Timed(s)
  BY DEF AlertInv
<1> QED
  BY <1>1 DEF Timed, Cleared

LEMMA Rearmed ==
  ASSUME AlertInv, NEW s \in Sessions, NEW isArmed \in BOOLEAN,
         RearmTick(s, isArmed)
  PROVE  /\ timer' \in [Sessions -> Nat \cup {Nothing}]
         /\ ticking' \in [Sessions -> SUBSET Nat]
         /\ ticking'[s] = {timer'[s]} \ {Nothing}
         /\ timer'[s] # Nothing <=> isArmed
         /\ \A r \in Sessions : r # s => timer'[r] = timer[r] /\ ticking'[r] = ticking[r]
<1>1. /\ timer \in [Sessions -> Nat \cup {Nothing}]
      /\ ticking \in [Sessions -> SUBSET Nat] /\ now \in 0..Horizon
  BY DEF AlertInv, NotifyTypeOK
<1> DEFINE due == now + EscalationMs
<1>2. due \in Nat /\ due # Nothing
  BY <1>1, Times, NothingIs
<1>3. Cleared(s) = {}
  BY ClearedAll
<1> HIDE DEF due
<1>4. /\ timer' = [timer EXCEPT ![s] = IF isArmed THEN due ELSE Nothing]
      /\ ticking' = [ticking EXCEPT ![s] = IF isArmed THEN {due} ELSE {}]
  BY <1>3 DEF RearmTick, due
<1> QED
  BY <1>1, <1>2, <1>4

\* An entry that is dropped takes its timers with it.
LEMMA Forgotten ==
  ASSUME AlertInv, NEW s \in Sessions, Forget(s)
  PROVE  /\ entry' \in [Sessions -> AlertEntries \cup {Nothing}]
         /\ timer' \in [Sessions -> Nat \cup {Nothing}]
         /\ phone' \in [Sessions -> Nat \cup {Nothing}]
         /\ ticking' \in [Sessions -> SUBSET Nat]
         /\ entry'[s] = Nothing /\ phone'[s] = Nothing
         /\ timer'[s] = Nothing /\ ticking'[s] = {}
         /\ \A r \in Sessions : r # s =>
              /\ entry'[r] = entry[r] /\ phone'[r] = phone[r]
              /\ timer'[r] = timer[r] /\ ticking'[r] = ticking[r]
<1>1. /\ entry \in [Sessions -> AlertEntries \cup {Nothing}]
      /\ timer \in [Sessions -> Nat \cup {Nothing}]
      /\ phone \in [Sessions -> Nat \cup {Nothing}]
      /\ ticking \in [Sessions -> SUBSET Nat]
  BY DEF AlertInv, NotifyTypeOK
<1>2. Cleared(s) = {}
  BY ClearedAll
<1> QED
  BY <1>1, <1>2 DEF Forget

\* A new alert has the timers it needs.
LEMMA Triggered ==
  ASSUME AlertInv, NEW s \in Sessions, NEW category \in Categories,
         Trigger(s, category), now' = now
  PROVE  /\ entry' \in [Sessions -> AlertEntries \cup {Nothing}]
         /\ timer' \in [Sessions -> Nat \cup {Nothing}]
         /\ phone' \in [Sessions -> Nat \cup {Nothing}]
         /\ ticking' \in [Sessions -> SUBSET Nat]
         /\ entry'[s] # Nothing /\ entry'[s].category = category
         /\ ~entry'[s].reached /\ Timed(s)'
         /\ \A r \in Sessions : r # s =>
              /\ entry'[r] = entry[r] /\ phone'[r] = phone[r]
              /\ timer'[r] = timer[r] /\ ticking'[r] = ticking[r]
<1> DEFINE e == [state |-> "DELIVERED", category |-> category,
                 reached |-> FALSE, since |-> now]
<1>1. /\ now \in Nat /\ phoneMs \in PhoneDelays
      /\ entry \in [Sessions -> AlertEntries \cup {Nothing}]
      /\ phone \in [Sessions -> Nat \cup {Nothing}]
  BY SessionTypes DEF AlertInv, NotifyTypeOK
<1>2. e \in AlertEntries /\ e # Nothing
  BY <1>1, EntryMade
<1>3. e.category = category /\ e.reached = FALSE /\ e.since = now
  OBVIOUS
<1>4. /\ entry' = [entry EXCEPT ![s] = e]
      /\ phone' = [phone EXCEPT ![s] = Phoned(e, Nothing)]
      /\ RearmTick(s, category = "waiting")
  BY DEF Trigger
<1> HIDE DEF e
<1>5. /\ phoneMs \in Nat /\ Least(PhoneDelays) \in Nat
      /\ Least(PhoneDelays) <= phoneMs
  BY <1>1, Times, LeastDelay
<1>6. /\ Phoned(e, Nothing) \in Nat \cup {Nothing}
      /\ Phoned(e, Nothing) # Nothing =>
           /\ category # "question-answered"
           /\ Phoned(e, Nothing) >= now + Least(PhoneDelays)
  BY <1>1, <1>3, <1>5 DEF Phoned, ArmsPhone
<1>7. /\ entry'[s] = e /\ phone'[s] = Phoned(e, Nothing)
      /\ entry' \in [Sessions -> AlertEntries \cup {Nothing}]
      /\ phone' \in [Sessions -> Nat \cup {Nothing}]
  BY <1>1, <1>2, <1>4, <1>6
<1>8. /\ timer' \in [Sessions -> Nat \cup {Nothing}]
      /\ ticking' \in [Sessions -> SUBSET Nat]
      /\ ticking'[s] = {timer'[s]} \ {Nothing}
      /\ timer'[s] # Nothing <=> category = "waiting"
      /\ \A r \in Sessions : r # s => timer'[r] = timer[r] /\ ticking'[r] = ticking[r]
  <2>1. (category = "waiting") \in BOOLEAN
    OBVIOUS
  <2> QED
    BY <1>4, <2>1, Rearmed
<1>9. Timed(s)'
  BY <1>1, <1>2, <1>3, <1>6, <1>7, <1>8 DEF Timed, Calls
<1>10. \A r \in Sessions : r # s => entry'[r] = entry[r] /\ phone'[r] = phone[r]
  BY <1>1, <1>4
<1> QED
  BY <1>2, <1>3, <1>7, <1>8, <1>9, <1>10

\* An alert that is sent is told once, or is held, and no other.
LEMMA SentOnce ==
  ASSUME AlertInv, NEW s \in Sessions, NEW a \in Alerts,
         a = alert[s], Unsaid(s, a), Sent(s, a)
  PROVE  /\ held' \in [Sessions -> Alerts \cup {Nothing}]
         /\ telegrams' \in [Sessions -> [Alerts -> Nat]]
         /\ frames' \in [Sessions -> [Alerts -> Nat]]
         /\ held'[s] # Nothing =>
              held'[s] = a /\ frames'[s][a] = 0 /\ ~hub /\ ~telegramOn
         /\ telegrams'[s][a] <= 1 /\ frames'[s][a] <= 1
         /\ \A b \in Alerts : b # a =>
              telegrams'[s][b] = telegrams[s][b] /\ frames'[s][b] = frames[s][b]
         /\ \A r \in Sessions : r # s =>
              /\ held'[r] = held[r]
              /\ telegrams'[r] = telegrams[r] /\ frames'[r] = frames[r]
<1>1. /\ held \in [Sessions -> Alerts \cup {Nothing}]
      /\ telegrams \in [Sessions -> [Alerts -> Nat]]
      /\ frames \in [Sessions -> [Alerts -> Nat]]
  BY DEF AlertInv, NotifyTypeOK
<1>2. /\ telegrams[s][a] = 0 /\ frames[s][a] = 0
      /\ held[s] # Nothing => ~hub /\ ~telegramOn
  BY DEF Unsaid, AlertInv, HeldRight
<1>3. ASSUME NEW count \in [Sessions -> [Alerts -> Nat]], count[s][a] = 0
      PROVE  /\ Once(count, s, a) \in [Sessions -> [Alerts -> Nat]]
             /\ Once(count, s, a)[s][a] = 1
             /\ \A b \in Alerts : b # a => Once(count, s, a)[s][b] = count[s][b]
             /\ \A r \in Sessions : r # s => Once(count, s, a)[r] = count[r]
  <2> DEFINE told == [count[s] EXCEPT ![a] = 1]
  <2>1. count[s] \in [Alerts -> Nat]
    OBVIOUS
  <2>2. /\ told \in [Alerts -> Nat] /\ told[a] = 1
        /\ \A b \in Alerts : b # a => told[b] = count[s][b]
    BY <2>1
  <2>3. Once(count, s, a) = [count EXCEPT ![s] = told]
    BY <1>3 DEF Once
  <2> HIDE DEF told
  <2> QED
    BY <2>2, <2>3
<1>4. /\ telegrams' = IF telegramOn THEN Once(telegrams, s, a) ELSE telegrams
      /\ frames' = IF hub THEN Once(frames, s, a) ELSE frames
      /\ held' = IF hub \/ telegramOn THEN held ELSE [held EXCEPT ![s] = a]
  BY DEF Sent, Held
<1>5. /\ telegrams' \in [Sessions -> [Alerts -> Nat]]
      /\ telegrams'[s][a] <= 1
      /\ \A b \in Alerts : b # a => telegrams'[s][b] = telegrams[s][b]
      /\ \A r \in Sessions : r # s => telegrams'[r] = telegrams[r]
  <2>1. CASE telegramOn
    BY <1>1, <1>2, <1>3, <1>4, <2>1
  <2>2. CASE ~telegramOn
    BY <1>1, <1>2, <1>4, <2>2
  <2> QED
    BY <2>1, <2>2
<1>6. /\ frames' \in [Sessions -> [Alerts -> Nat]]
      /\ frames'[s][a] <= 1
      /\ \A b \in Alerts : b # a => frames'[s][b] = frames[s][b]
      /\ \A r \in Sessions : r # s => frames'[r] = frames[r]
  <2>1. CASE hub
    BY <1>1, <1>2, <1>3, <1>4, <2>1
  <2>2. CASE ~hub
    BY <1>1, <1>2, <1>4, <2>2
  <2> QED
    BY <2>1, <2>2
<1>7. /\ held' \in [Sessions -> Alerts \cup {Nothing}]
      /\ held'[s] # Nothing =>
           held'[s] = a /\ frames'[s][a] = 0 /\ ~hub /\ ~telegramOn
      /\ \A r \in Sessions : r # s => held'[r] = held[r]
  <2>1. CASE hub \/ telegramOn
    BY <1>1, <1>2, <1>4, <2>1
  <2>2. CASE ~(hub \/ telegramOn)
    BY <1>1, <1>2, <1>4, <2>2
  <2> QED
    BY <2>1, <2>2
<1> QED
  BY <1>5, <1>6, <1>7

\* A step that changes one session at most keeps the invariant when it keeps
\* that session right.
LEMMA OneSession ==
  ASSUME AlertInv, NotifyTypeOK', now' = now, NEW s \in Sessions,
         Timed(s)', ToldOnce(s)', HeldRight(s)',
         hub' = hub, telegramOn' = telegramOn,
         \A r \in Sessions : r # s =>
           /\ entry'[r] = entry[r] /\ timer'[r] = timer[r]
           /\ ticking'[r] = ticking[r] /\ phone'[r] = phone[r]
           /\ notable'[r] = notable[r] /\ deferred'[r] = deferred[r]
           /\ held'[r] = held[r] /\ alert'[r] = alert[r]
           /\ telegrams'[r] = telegrams[r] /\ frames'[r] = frames[r]
           /\ answered'[r] = answered[r]
  PROVE  AlertInv'
<1>1. now \in Nat
  BY SessionTypes DEF AlertInv, NotifyTypeOK
<1>2. ASSUME NEW r \in Sessions
      PROVE  Timed(r)' /\ ToldOnce(r)' /\ HeldRight(r)'
  <2>1. CASE r = s
    BY <2>1
  <2>2. CASE r # s
    <3>1. now' \in Nat /\ now <= now'
      BY <1>1
    <3> QED
      BY <2>2, <3>1, LeftAlone
  <2> QED
    BY <2>1, <2>2
<1> QED
  BY <1>2 DEF AlertInv

\* A phone timer is of an alert that nobody saw.
LEMMA PhoneTyped ==
  ASSUME phone' \in [Sessions -> Nat \cup {Nothing}],
         \A r \in Sessions : Timed(r)'
  PROVE  \A s \in Sessions : phone'[s] # Nothing =>
           /\ entry'[s] # Nothing /\ ~entry'[s].reached
           /\ entry'[s].category # "question-answered"
  BY DEF Timed, Calls

-----------------------------------------------------------------------------
(* The steps that leave the alerts alone. *)

LEMMA SettingsStay ==
  ASSUME AlertInv, OperatorTypes \/ UpdateSettings \/ HubLeaves \/ Tick
  PROVE  AlertInv'
<1>1. /\ now' \in 0..Horizon /\ now <= now' /\ now \in 0..Horizon
      /\ typed' \in (0..Horizon) \cup {Nothing}
      /\ phoneMs' \in PhoneDelays /\ {telegramOn', hub'} \subseteq BOOLEAN
  <2>1. /\ now \in 0..Horizon /\ typed \in (0..Horizon) \cup {Nothing}
        /\ phoneMs \in PhoneDelays /\ {telegramOn, hub} \subseteq BOOLEAN
    BY DEF AlertInv, NotifyTypeOK
  <2>2. CASE OperatorTypes
    BY <2>1, <2>2, Times DEF OperatorTypes
  <2>3. CASE UpdateSettings
    BY <2>1, <2>3, Times DEF UpdateSettings
  <2>4. CASE HubLeaves
    <3>1. now' = now /\ typed' = typed /\ phoneMs' = phoneMs
      BY <2>4 DEF HubLeaves
    <3>2. telegramOn' = telegramOn /\ hub' = FALSE
      BY <2>4 DEF HubLeaves
    <3>3. {telegramOn', hub'} \subseteq BOOLEAN
      BY <2>1, <3>2, Zenon
    <3> QED
      BY <2>1, <3>1, <3>3, Times
  <2>5. CASE Tick
    BY <2>1, <2>5, Times DEF Tick, settings
  <2> QED
    BY <2>2, <2>3, <2>4, <2>5
<1>2. /\ UNCHANGED <<entry, timers, channel, notable, alert, answered, agents>>
      /\ (hub' => hub) /\ (telegramOn' => telegramOn)
  BY DEF OperatorTypes, UpdateSettings, HubLeaves, Tick, settings, asks
<1>3. NotifyTypeOK'
  BY <1>1, <1>2 DEF AlertInv, NotifyTypeOK, timers, channel
<1>4. now' \in Nat
  BY <1>1, Times
<1>5. ASSUME NEW r \in Sessions
      PROVE  Timed(r)' /\ ToldOnce(r)' /\ HeldRight(r)'
  BY <1>1, <1>2, <1>4, LeftAlone DEF timers, channel
<1> QED
  BY <1>3, <1>5 DEF AlertInv

-----------------------------------------------------------------------------
(* What a session tells. *)

LEMMA StateChangeKeeps ==
  ASSUME AlertInv, NEW s \in Sessions, StateChange(s)
  PROVE  AlertInv'
<1>1. NotifyTypeOK /\ Timed(s) /\ ToldOnce(s) /\ HeldRight(s)
  BY DEF AlertInv
<1>2. /\ now' = now /\ UNCHANGED <<typed, phoneMs, telegramOn, hub, agents>>
      /\ telegrams' = telegrams /\ frames' = frames /\ answered' = answered
      /\ deferred' = [deferred EXCEPT ![s] = Nothing]
      /\ held' = IF notable[s] THEN Dropped(s) ELSE held
  BY DEF StateChange, ChangeCancels, settings
<1>3. /\ held \in [Sessions -> Alerts \cup {Nothing}]
      /\ deferred \in [Sessions -> [alert : Alerts, due : Nat] \cup {Nothing}]
      /\ notable \in [Sessions -> BOOLEAN]
      /\ alert \in [Sessions -> 0..MaxAlerts]
      /\ telegrams \in [Sessions -> [Alerts -> Nat]]
      /\ frames \in [Sessions -> [Alerts -> Nat]]
  BY <1>1 DEF NotifyTypeOK
<1>4. /\ held' \in [Sessions -> Alerts \cup {Nothing}]
      /\ held'[s] = IF notable[s] /\ entry[s] # Nothing THEN Nothing ELSE held[s]
      /\ \A r \in Sessions : r # s => held'[r] = held[r]
  BY <1>2, <1>3 DEF Dropped
<1>5. /\ deferred' \in [Sessions -> [alert : Alerts, due : Nat] \cup {Nothing}]
      /\ deferred'[s] = Nothing
      /\ \A r \in Sessions : r # s => deferred'[r] = deferred[r]
  BY <1>2, <1>3
\* A frame that outlives its entry is of an alert that was answered.
<1>0. held'[s] # Nothing =>
        /\ held'[s] = held[s] /\ held[s] \in answered[s]
        /\ ~hub /\ ~telegramOn /\ held[s] <= alert[s] /\ frames[s][held[s]] = 0
  BY <1>1, <1>4 DEF HeldRight, Asked
<1>6. CASE notable[s] /\ notable' = [notable EXCEPT ![s] = FALSE]
           /\ Forget(s) /\ UNCHANGED alert
  <2>1. /\ entry' \in [Sessions -> AlertEntries \cup {Nothing}]
        /\ timer' \in [Sessions -> Nat \cup {Nothing}]
        /\ phone' \in [Sessions -> Nat \cup {Nothing}]
        /\ ticking' \in [Sessions -> SUBSET Nat]
        /\ entry'[s] = Nothing /\ phone'[s] = Nothing
        /\ timer'[s] = Nothing /\ ticking'[s] = {}
        /\ \A r \in Sessions : r # s =>
             /\ entry'[r] = entry[r] /\ phone'[r] = phone[r]
             /\ timer'[r] = timer[r] /\ ticking'[r] = ticking[r]
    BY <1>6, Forgotten
  <2>2. /\ notable' \in [Sessions -> BOOLEAN] /\ notable'[s] = FALSE
        /\ \A r \in Sessions : r # s => notable'[r] = notable[r]
    BY <1>3, <1>6
  <2>3. Timed(s)'
    BY <2>1 DEF Timed
  <2>4. ToldOnce(s)'
    BY <1>1, <1>2, <1>5, <1>6, <2>1, <2>2 DEF ToldOnce, Calls, Unsaid
  <2>7. HeldRight(s)'
    BY <1>0, <1>2, <1>6, <2>2 DEF HeldRight
  <2>5. \A r \in Sessions : phone'[r] # Nothing =>
          /\ entry'[r] # Nothing /\ ~entry'[r].reached
          /\ entry'[r].category # "question-answered"
    BY <1>1, <2>1 DEF NotifyTypeOK
  <2>6. NotifyTypeOK'
    BY <1>1, <1>2, <1>4, <1>5, <1>6, <2>1, <2>2, <2>5 DEF NotifyTypeOK
  <2> QED
    BY <1>2, <1>4, <1>5, <1>6, <2>1, <2>2, <2>3, <2>4, <2>6, <2>7, OneSession
<1>7. ASSUME notable' = [notable EXCEPT ![s] = TRUE],
             alert[s] < MaxAlerts, alert' = [alert EXCEPT ![s] = @ + 1],
             NEW category \in {"waiting", "complete"}, Trigger(s, category)
      PROVE  AlertInv'
  <2>1. category \in Categories
    BY DEF Categories
  <2>2. /\ entry' \in [Sessions -> AlertEntries \cup {Nothing}]
        /\ timer' \in [Sessions -> Nat \cup {Nothing}]
        /\ phone' \in [Sessions -> Nat \cup {Nothing}]
        /\ ticking' \in [Sessions -> SUBSET Nat]
        /\ Timed(s)' /\ entry'[s] # Nothing
        /\ \A r \in Sessions : r # s =>
             /\ entry'[r] = entry[r] /\ phone'[r] = phone[r]
             /\ timer'[r] = timer[r] /\ ticking'[r] = ticking[r]
    BY <1>2, <1>7, <2>1, Triggered
  <2>3. /\ notable' \in [Sessions -> BOOLEAN] /\ notable'[s] = TRUE
        /\ \A r \in Sessions : r # s => notable'[r] = notable[r]
    BY <1>3, <1>7
  <2>4. /\ alert[s] \in 0..MaxAlerts /\ alert'[s] = alert[s] + 1
        /\ alert' \in [Sessions -> 0..MaxAlerts] /\ alert'[s] \in Alerts
        /\ \A r \in Sessions : r # s => alert'[r] = alert[r]
    BY <1>3, <1>7, Times DEF Alerts
  <2>5. \A a \in Alerts : a >= alert'[s] => Unsaid(s, a)'
    BY <1>1, <1>2, <2>4, Times DEF ToldOnce, Unsaid, Alerts
  <2>6. ToldOnce(s)'
    <3>1. \A a \in Alerts : telegrams'[s][a] <= 1 /\ frames'[s][a] <= 1
      BY <1>1, <1>2 DEF ToldOnce
    <3>2. \A a \in Alerts : a > alert'[s] => Unsaid(s, a)'
      BY <2>4, <2>5, Times DEF Alerts
    <3>3. Unsaid(s, alert[s])' /\ alert'[s] # 0
      BY <2>4, <2>5, Times DEF Alerts
    <3>4. held'[s] # alert'[s]
      BY <1>0, <1>3, <2>4, Times, NothingIs DEF Alerts
    <3> QED
      BY <1>5, <2>3, <3>1, <3>2, <3>3, <3>4 DEF ToldOnce
  <2>9. HeldRight(s)'
    <3>1. held'[s] # Nothing => held'[s] <= alert'[s]
      BY <1>0, <1>3, <2>4 DEF Alerts
    <3> QED
      BY <1>0, <1>2, <2>2, <3>1 DEF HeldRight
  <2>7. \A r \in Sessions : phone'[r] # Nothing =>
          /\ entry'[r] # Nothing /\ ~entry'[r].reached
          /\ entry'[r].category # "question-answered"
    BY <1>1, <2>2 DEF NotifyTypeOK, Timed, Calls
  <2>8. NotifyTypeOK'
    BY <1>1, <1>2, <1>4, <1>5, <2>2, <2>3, <2>4, <2>7 DEF NotifyTypeOK
  <2> QED
    BY <1>2, <1>4, <1>5, <2>2, <2>3, <2>4, <2>6, <2>8, <2>9, OneSession
<1> QED
  BY <1>6, <1>7 DEF StateChange

LEMMA QuestionKeeps ==
  ASSUME AlertInv, NEW s \in Sessions, QuestionAnswered(s)
  PROVE  AlertInv'
<1>1. NotifyTypeOK /\ Timed(s) /\ ToldOnce(s) /\ HeldRight(s)
  BY DEF AlertInv
<1>2. /\ now' = now /\ UNCHANGED <<typed, phoneMs, telegramOn, hub, agents>>
      /\ UNCHANGED <<notable, deferred, held, telegrams, frames, alert, answered>>
  BY DEF QuestionAnswered, settings, channel, asks
<1>3. /\ entry' \in [Sessions -> AlertEntries \cup {Nothing}]
      /\ timer' \in [Sessions -> Nat \cup {Nothing}]
      /\ phone' \in [Sessions -> Nat \cup {Nothing}]
      /\ ticking' \in [Sessions -> SUBSET Nat]
      /\ entry'[s].category = "question-answered" /\ Timed(s)' /\ entry'[s] # Nothing
      /\ \A r \in Sessions : r # s =>
           /\ entry'[r] = entry[r] /\ phone'[r] = phone[r]
           /\ timer'[r] = timer[r] /\ ticking'[r] = ticking[r]
  BY <1>2, Triggered DEF QuestionAnswered, Categories
<1>4. ToldOnce(s)'
  BY <1>1, <1>2, <1>3 DEF ToldOnce, Calls, Unsaid
<1>5. \A r \in Sessions : phone'[r] # Nothing =>
        /\ entry'[r] # Nothing /\ ~entry'[r].reached
        /\ entry'[r].category # "question-answered"
  BY <1>1, <1>3 DEF NotifyTypeOK, Timed, Calls
<1>6. NotifyTypeOK'
  BY <1>1, <1>2, <1>3, <1>5 DEF NotifyTypeOK
<1>7. HeldRight(s)'
  BY <1>1, <1>2, <1>3 DEF HeldRight, Asked
<1> QED
  BY <1>2, <1>3, <1>4, <1>6, <1>7, OneSession

LEMMA AcknowledgeKeeps ==
  ASSUME AlertInv, NEW s \in Sessions, Acknowledge(s)
  PROVE  AlertInv'
<1>1. NotifyTypeOK /\ Timed(s) /\ ToldOnce(s) /\ HeldRight(s)
  BY DEF AlertInv
<1>2. /\ now' = now /\ UNCHANGED <<typed, phoneMs, telegramOn, hub, agents>>
      /\ UNCHANGED <<notable, deferred, telegrams, frames, alert>>
      /\ held' = [held EXCEPT ![s] = Nothing]
      /\ answered' = [answered EXCEPT ![s] =
                        IF notable[s] THEN @ \cup {alert[s]} ELSE @]
  BY DEF Acknowledge, Dropped, settings
<1>3. /\ entry' \in [Sessions -> AlertEntries \cup {Nothing}]
      /\ timer' \in [Sessions -> Nat \cup {Nothing}]
      /\ phone' \in [Sessions -> Nat \cup {Nothing}]
      /\ ticking' \in [Sessions -> SUBSET Nat]
      /\ entry'[s] = Nothing /\ phone'[s] = Nothing
      /\ timer'[s] = Nothing /\ ticking'[s] = {}
      /\ \A r \in Sessions : r # s =>
           /\ entry'[r] = entry[r] /\ phone'[r] = phone[r]
           /\ timer'[r] = timer[r] /\ ticking'[r] = ticking[r]
  BY Forgotten DEF Acknowledge
<1>4. /\ held' \in [Sessions -> Alerts \cup {Nothing}] /\ held'[s] = Nothing
      /\ \A r \in Sessions : r # s => held'[r] = held[r]
  BY <1>1, <1>2 DEF NotifyTypeOK
<1>9. /\ answered' \in [Sessions -> SUBSET Alerts]
      /\ notable[s] => alert[s] \in answered'[s]
      /\ \A r \in Sessions : r # s => answered'[r] = answered[r]
  <2>1. notable[s] => alert[s] \in Alerts
    BY <1>1, SessionTypes, Times DEF ToldOnce, Alerts
  <2>2. answered \in [Sessions -> SUBSET Alerts]
    BY <1>1 DEF NotifyTypeOK
  <2> QED
    BY <1>2, <2>1, <2>2
<1>10. HeldRight(s)'
  BY <1>2, <1>4, <1>9 DEF HeldRight
<1>5. Timed(s)'
  BY <1>3 DEF Timed
<1>6. ToldOnce(s)'
  <2>1. held'[s] # alert'[s]
    BY <1>1, <1>2, <1>4, SessionTypes, NothingIs
  <2> QED
    BY <1>1, <1>2, <1>3, <2>1 DEF ToldOnce, Calls, Unsaid
<1>7. \A r \in Sessions : phone'[r] # Nothing =>
        /\ entry'[r] # Nothing /\ ~entry'[r].reached
        /\ entry'[r].category # "question-answered"
  BY <1>1, <1>3 DEF NotifyTypeOK
<1>8. NotifyTypeOK'
  BY <1>1, <1>2, <1>3, <1>4, <1>7, <1>9 DEF NotifyTypeOK
<1> QED
  BY <1>2, <1>3, <1>4, <1>5, <1>6, <1>8, <1>9, <1>10, OneSession

\* A deferral that is looked at again waits on, or its alert is sent.
LEMMA DeferredKeeps ==
  ASSUME AlertInv, NEW s \in Sessions, NEW working \in BOOLEAN,
         deferred[s] # Nothing, SendDeferred(s, working),
         agents' \in [Sessions -> BOOLEAN],
         UNCHANGED <<now, timer, ticking, typed, phoneMs, telegramOn, hub,
                     notable, alert, answered>>
  PROVE  AlertInv'
<1>1. NotifyTypeOK /\ Timed(s) /\ ToldOnce(s) /\ HeldRight(s)
  BY DEF AlertInv
<1>2. /\ deferred \in [Sessions -> [alert : Alerts, due : Nat] \cup {Nothing}]
      /\ entry \in [Sessions -> AlertEntries \cup {Nothing}]
      /\ phone \in [Sessions -> Nat \cup {Nothing}]
      /\ now \in Nat /\ now + RecheckMs \in Nat
  BY <1>1, SessionTypes, Times DEF NotifyTypeOK
<1>3. /\ deferred[s] \in [alert : Alerts, due : Nat]
      /\ deferred[s].alert = alert[s] /\ alert[s] \in Alerts
      /\ held[s] # alert[s] /\ Unsaid(s, alert[s]) /\ notable[s]
  BY <1>1, <1>2 DEF ToldOnce
<1>4. CASE /\ deferred' = [deferred EXCEPT ![s].due = now + RecheckMs]
           /\ UNCHANGED <<entry, phone, held, telegrams, frames>>
  <2> DEFINE later == [deferred[s] EXCEPT !.due = now + RecheckMs]
  <2>1. later \in [alert : Alerts, due : Nat] /\ later.alert = alert[s]
    BY <1>2, <1>3
  <2>2. deferred' = [deferred EXCEPT ![s] = later]
    BY <1>4
  <2> HIDE DEF later
  <2>3. /\ deferred' \in [Sessions -> [alert : Alerts, due : Nat] \cup {Nothing}]
        /\ deferred'[s].alert = alert[s]
        /\ \A r \in Sessions : r # s => deferred'[r] = deferred[r]
    BY <1>2, <2>1, <2>2
  <2>4. Timed(s)'
    BY <1>1, <1>4 DEF Timed, Calls
  <2>5. ToldOnce(s)'
    BY <1>1, <1>3, <1>4, <2>3 DEF ToldOnce, Calls, Unsaid
  <2>7. HeldRight(s)'
    BY <1>1, <1>4 DEF HeldRight, Asked
  <2>6. NotifyTypeOK'
    BY <1>1, <1>4, <2>3 DEF NotifyTypeOK
  <2> QED
    BY <1>4, <2>3, <2>4, <2>5, <2>6, <2>7, OneSession
<1>5. CASE /\ deferred' = [deferred EXCEPT ![s] = Nothing]
           /\ Sent(s, deferred[s].alert)
           /\ IF entry[s] = Nothing THEN UNCHANGED <<entry, phone>>
              ELSE /\ entry' = [entry EXCEPT ![s].reached = TRUE]
                   /\ phone' = [phone EXCEPT ![s] = Nothing]
  <2>1. /\ deferred' \in [Sessions -> [alert : Alerts, due : Nat] \cup {Nothing}]
        /\ deferred'[s] = Nothing
        /\ \A r \in Sessions : r # s => deferred'[r] = deferred[r]
    BY <1>2, <1>5
  <2>2. /\ held' \in [Sessions -> Alerts \cup {Nothing}]
        /\ telegrams' \in [Sessions -> [Alerts -> Nat]]
        /\ frames' \in [Sessions -> [Alerts -> Nat]]
        /\ held'[s] # Nothing => /\ held'[s] = alert[s] /\ ~hub /\ ~telegramOn
                                 /\ frames'[s][alert[s]] = 0
        /\ telegrams'[s][alert[s]] <= 1 /\ frames'[s][alert[s]] <= 1
        /\ \A b \in Alerts : b # alert[s] =>
             telegrams'[s][b] = telegrams[s][b] /\ frames'[s][b] = frames[s][b]
        /\ \A r \in Sessions : r # s =>
             /\ held'[r] = held[r]
             /\ telegrams'[r] = telegrams[r] /\ frames'[r] = frames[r]
    BY <1>3, <1>5, SentOnce
  <2>3. /\ entry' \in [Sessions -> AlertEntries \cup {Nothing}]
        /\ phone' \in [Sessions -> Nat \cup {Nothing}]
        /\ \A r \in Sessions : r # s => entry'[r] = entry[r] /\ phone'[r] = phone[r]
        /\ phone'[s] = Nothing
        /\ entry'[s] # Nothing <=> entry[s] # Nothing
        /\ entry[s] # Nothing => /\ entry'[s].category = entry[s].category
                                 /\ entry'[s].since = entry[s].since
                                 /\ entry'[s].reached = TRUE
    <3>1. CASE entry[s] = Nothing
      BY <1>1, <1>2, <1>5, <3>1 DEF Timed, Calls
    <3>2. CASE entry[s] # Nothing
      <4> DEFINE seen == [entry[s] EXCEPT !.reached = TRUE]
      <4>1. entry[s] \in AlertEntries
        BY <1>2, <3>2
      <4>2. /\ seen \in AlertEntries /\ seen # Nothing
            /\ seen.category = entry[s].category /\ seen.since = entry[s].since
            /\ seen.reached = TRUE
        BY <4>1, EntryReached
      <4>3. entry' = [entry EXCEPT ![s] = seen]
        BY <1>5, <3>2
      <4> HIDE DEF seen
      <4> QED
        BY <1>2, <1>5, <3>2, <4>2, <4>3
    <3> QED
      BY <3>1, <3>2
  <2>4. Timed(s)'
    BY <1>1, <2>3 DEF Timed
  <2>5. ToldOnce(s)'
    <3>1. \A a \in Alerts : a > alert[s] => Unsaid(s, a)'
      <4> SUFFICES ASSUME NEW a \in Alerts, a > alert[s] PROVE Unsaid(s, a)'
        BY <1>1, <1>2, <1>3
      <4>1. a # alert[s]
        BY <1>3, Times DEF Alerts
      <4>2. Unsaid(s, a)
        BY <1>1 DEF ToldOnce
      <4>3. telegrams'[s][a] = telegrams[s][a] /\ frames'[s][a] = frames[s][a]
        BY <2>2, <4>1
      <4> QED
        BY <4>2, <4>3 DEF Unsaid
    <3>2. \A a \in Alerts : telegrams'[s][a] <= 1 /\ frames'[s][a] <= 1
      BY <1>1, <2>2 DEF ToldOnce
    <3>3. ~(Calls(s)' /\ ~entry'[s].reached)
      BY <2>3 DEF Calls
    <3> QED
      BY <1>1, <1>3, <2>1, <2>2, <3>1, <3>2, <3>3 DEF ToldOnce
  <2>8. HeldRight(s)'
    <3>1. alert[s] <= alert[s]
      BY <1>3, Times DEF Alerts
    <3> QED
      BY <1>1, <1>3, <2>2, <2>3, <3>1 DEF HeldRight, Asked
  <2>6. \A r \in Sessions : phone'[r] # Nothing =>
          /\ entry'[r] # Nothing /\ ~entry'[r].reached
          /\ entry'[r].category # "question-answered"
    BY <1>1, <2>3 DEF NotifyTypeOK
  <2>7. NotifyTypeOK'
    BY <1>1, <2>1, <2>2, <2>3, <2>6 DEF NotifyTypeOK
  <2> QED
    BY <2>1, <2>2, <2>3, <2>4, <2>5, <2>7, <2>8, OneSession
<1> QED
  BY <1>4, <1>5 DEF SendDeferred

LEMMA DeferralFiresKeeps ==
  ASSUME AlertInv, NEW s \in Sessions, DeferralFires(s)
  PROVE  AlertInv'
<1>1. agents \in [Sessions -> BOOLEAN] /\ agents' = agents
  BY DEF AlertInv, NotifyTypeOK, DeferralFires, settings
<1>2. agents[s] \in BOOLEAN /\ agents' \in [Sessions -> BOOLEAN]
  BY <1>1
<1> QED
  BY <1>2, DeferredKeeps DEF DeferralFires, settings, asks

LEMMA AgentsChangeKeeps ==
  ASSUME AlertInv, NEW s \in Sessions, AgentsChange(s)
  PROVE  AlertInv'
<1>1. /\ agents \in [Sessions -> BOOLEAN]
      /\ agents' = [agents EXCEPT ![s] = ~agents[s]]
  BY DEF AlertInv, NotifyTypeOK, AgentsChange
<1>2. (~agents[s]) \in BOOLEAN /\ agents' \in [Sessions -> BOOLEAN]
  BY <1>1
<1>3. CASE deferred[s] = Nothing
  <2>1. UNCHANGED <<now, timer, ticking, typed, phoneMs, telegramOn, hub,
                    notable, alert, answered, entry, phone, deferred, held,
                    telegrams, frames>>
    BY <1>3 DEF AgentsChange, channel, asks
  <2>2. NotifyTypeOK'
    BY <1>2, <2>1 DEF AlertInv, NotifyTypeOK
  <2>3. Timed(s)' /\ ToldOnce(s)' /\ HeldRight(s)'
    BY <2>1, SessionTypes, LeftAlone DEF AlertInv
  <2> QED
    BY <2>1, <2>2, <2>3, OneSession
<1>4. CASE deferred[s] # Nothing
  BY <1>2, <1>4, DeferredKeeps DEF AgentsChange, asks
<1> QED
  BY <1>3, <1>4

-----------------------------------------------------------------------------
(* The hub and the timers. *)

LEMMA HubConnectsKeeps ==
  ASSUME AlertInv, HubConnects
  PROVE  AlertInv'
<1>1. /\ UNCHANGED <<now, entry, timer, ticking, typed, phoneMs, telegramOn,
                     agents, deferred, telegrams, notable, alert, answered>>
      /\ hub' = TRUE /\ held' = Never
      /\ phone' = [s \in Sessions |-> ArmsPending(s)]
      /\ frames' = [s \in Sessions |-> [a \in Alerts |->
                      frames[s][a] + IF held[s] = a THEN 1 ELSE 0]]
  BY DEF HubConnects, asks
<1>2. ASSUME NEW s \in Sessions
      PROVE  /\ Timed(s)' /\ ToldOnce(s)' /\ HeldRight(s)'
             /\ phone'[s] \in Nat \cup {Nothing}
             /\ frames'[s] \in [Alerts -> Nat]
  <2>1. Timed(s) /\ ToldOnce(s) /\ HeldRight(s) /\ NotifyTypeOK
    BY DEF AlertInv
  <2>2. /\ held'[s] = Nothing /\ phone'[s] = ArmsPending(s)
        /\ frames'[s] = [a \in Alerts |->
                           frames[s][a] + IF held[s] = a THEN 1 ELSE 0]
    BY <1>1 DEF Never
  <2>3. /\ now \in Nat /\ phoneMs \in Nat /\ phoneMs \in PhoneDelays
        /\ phone[s] \in Nat \cup {Nothing}
        /\ entry[s] \in AlertEntries \cup {Nothing}
        /\ alert[s] \in 0..MaxAlerts
        /\ telegrams[s] \in [Alerts -> Nat] /\ frames[s] \in [Alerts -> Nat]
    BY <2>1, SessionTypes
  <2>4. /\ frames'[s] \in [Alerts -> Nat]
        /\ \A a \in Alerts : held[s] # a => frames'[s][a] = frames[s][a]
        /\ \A a \in Alerts : held[s] = a => frames'[s][a] = frames[s][a] + 1
    BY <2>2, <2>3
  <2>5. /\ phone'[s] \in Nat \cup {Nothing}
        /\ phone'[s] = phone[s] \/ /\ Calls(s) /\ ~entry[s].reached
                                   /\ phone'[s] >= entry[s].since + Least(PhoneDelays)
    <3>1. CASE phone'[s] = phone[s]
      BY <2>3, <3>1
    <3>2. CASE /\ entry[s] # Nothing /\ entry[s].category # "question-answered"
               /\ ~entry[s].reached
               /\ phone'[s] = IF entry[s].since + phoneMs > now
                                THEN entry[s].since + phoneMs ELSE now
      <4>1. entry[s].since \in Nat
        BY <2>3, <3>2, EntryTypes
      <4>2. Least(PhoneDelays) \in Nat /\ Least(PhoneDelays) <= phoneMs
        BY <2>3, LeastDelay
      <4>3. /\ phone'[s] \in Nat
            /\ phone'[s] >= entry[s].since + Least(PhoneDelays)
        BY <2>3, <3>2, <4>1, <4>2
      <4> QED
        BY <3>2, <4>3 DEF Calls
    <3> QED
      BY <2>2, <3>1, <3>2 DEF ArmsPending
  <2>6. Timed(s)'
    BY <1>1, <2>1, <2>5 DEF Timed, Calls
  <2>7. ToldOnce(s)'
    <3>1. \A a \in Alerts : telegrams'[s][a] <= 1 /\ frames'[s][a] <= 1
      <4> SUFFICES ASSUME NEW a \in Alerts
                   PROVE  telegrams'[s][a] <= 1 /\ frames'[s][a] <= 1
        OBVIOUS
      <4>1. telegrams[s][a] <= 1 /\ frames[s][a] <= 1 /\ a # Nothing
        BY <2>1, NothingIs DEF ToldOnce, Alerts
      <4>2. CASE held[s] = a
        <5>1. frames[s][a] = 0
          BY <2>1, <4>1, <4>2 DEF HeldRight
        <5> QED
          BY <1>1, <2>4, <4>1, <4>2, <5>1
      <4>3. CASE held[s] # a
        BY <1>1, <2>4, <4>1, <4>3
      <4> QED
        BY <4>2, <4>3
    <3>2. \A a \in Alerts : a > alert[s] => Unsaid(s, a)'
      <4> SUFFICES ASSUME NEW a \in Alerts, a > alert[s] PROVE Unsaid(s, a)'
        BY <1>1
      <4>1. Unsaid(s, a)
        BY <2>1 DEF ToldOnce
      <4>2. a # Nothing /\ ~(a <= alert[s])
        BY <2>3, Times, NothingIs DEF Alerts
      <4>3. held[s] # a
        BY <2>1, <4>2 DEF HeldRight
      <4> QED
        BY <1>1, <2>4, <4>1, <4>3 DEF Unsaid
    <3>3. alert[s] # 0 /\ held[s] # alert[s] /\ Unsaid(s, alert[s])
            => Unsaid(s, alert[s])'
      <4> SUFFICES ASSUME alert[s] # 0, held[s] # alert[s], Unsaid(s, alert[s])
                   PROVE  Unsaid(s, alert[s])'
        OBVIOUS
      <4>1. alert[s] \in Alerts
        BY <2>3, Times DEF Alerts
      <4> QED
        BY <1>1, <2>4, <4>1 DEF Unsaid
    <3>4. Calls(s)' => Calls(s)
      BY <1>1 DEF Calls
    <3>5. held'[s] # alert'[s]
      BY <1>1, <2>2, <2>3, NothingIs
    <3>6. deferred[s] # Nothing \/ (Calls(s) /\ ~entry[s].reached) => alert[s] # 0
      BY <2>1 DEF ToldOnce
    <3> QED
      BY <1>1, <2>1, <3>1, <3>2, <3>3, <3>4, <3>5, <3>6 DEF ToldOnce
  <2>8. HeldRight(s)'
    BY <1>1, <2>1, <2>2 DEF HeldRight
  <2> QED
    BY <2>4, <2>5, <2>6, <2>7, <2>8
<1>3. NotifyTypeOK'
  <2>1. phone' \in [Sessions -> Nat \cup {Nothing}]
    BY <1>1, <1>2
  <2>2. frames' \in [Sessions -> [Alerts -> Nat]]
    <3> DEFINE f(s) == [a \in Alerts |-> frames[s][a] + IF held[s] = a THEN 1 ELSE 0]
    <3>1. frames' = [s \in Sessions |-> f(s)]
      BY <1>1
    <3>2. ASSUME NEW s \in Sessions PROVE f(s) \in [Alerts -> Nat]
      BY <1>2, <3>1
    <3> HIDE DEF f
    <3> QED
      BY <3>1, <3>2
  <2>3. held' \in [Sessions -> Alerts \cup {Nothing}]
    BY <1>1 DEF Never
  <2>4. \A s \in Sessions : phone'[s] # Nothing =>
          /\ entry'[s] # Nothing /\ ~entry'[s].reached
          /\ entry'[s].category # "question-answered"
    BY <1>2, <2>1, PhoneTyped
  <2>5. {telegramOn', hub'} \subseteq BOOLEAN
    <3>1. telegramOn \in BOOLEAN /\ telegramOn' = telegramOn /\ hub' = TRUE
      BY <1>1 DEF AlertInv, NotifyTypeOK
    <3> QED
      BY <3>1, Zenon
  <2>6. {telegrams', frames'} \subseteq [Sessions -> [Alerts -> Nat]]
    BY <1>1, <2>2 DEF AlertInv, NotifyTypeOK
  <2> QED
    BY <1>1, <2>1, <2>3, <2>4, <2>5, <2>6 DEF AlertInv, NotifyTypeOK
<1> QED
  BY <1>2, <1>3 DEF AlertInv

\* The timer that fires is the entry's own, whose alert waits for input.
LEMMA EscalationKeeps ==
  ASSUME AlertInv, NEW s \in Sessions, EscalationFires(s)
  PROVE  AlertInv'
<1>1. NotifyTypeOK /\ Timed(s) /\ ToldOnce(s) /\ HeldRight(s)
  BY DEF AlertInv
<1>2. PICK due \in ticking[s] :
        LET e  == entry[s]
            to == Ticks[e.state]
            handle == IF to = "DELIVERED" THEN Phoned(e, phone[s]) ELSE phone[s]
            next == now + EscalationMs
            again == to = "ESCALATED" \/ e.category = "waiting"
        IN /\ now >= due /\ e # Nothing
           /\ entry' = [entry EXCEPT ![s].state = to]
           /\ phone' = [phone EXCEPT ![s] = handle]
           /\ timer' = [timer EXCEPT ![s] = IF again THEN next ELSE Nothing]
           /\ ticking' = [ticking EXCEPT ![s] = (@ \ {due})
                                              \cup IF again THEN {next} ELSE {}]
           /\ UNCHANGED <<now, settings, channel, asks>>
  BY DEF EscalationFires
<1> DEFINE e == entry[s]
           to == Ticks[e.state]
           handle == IF to = "DELIVERED" THEN Phoned(e, phone[s]) ELSE phone[s]
           next == now + EscalationMs
           v == [e EXCEPT !.state = to]
<1>3. /\ due = timer[s] /\ due # Nothing /\ ticking[s] = {due}
      /\ e # Nothing /\ e.category = "waiting" /\ e.since <= now
  BY <1>1, <1>2 DEF Timed
<1>4. /\ entry \in [Sessions -> AlertEntries \cup {Nothing}]
      /\ phone \in [Sessions -> Nat \cup {Nothing}]
      /\ timer \in [Sessions -> Nat \cup {Nothing}]
      /\ ticking \in [Sessions -> SUBSET Nat]
      /\ now \in Nat /\ phoneMs \in Nat /\ phoneMs \in PhoneDelays
  BY <1>1, SessionTypes DEF NotifyTypeOK
<1>5. e \in AlertEntries /\ e.since \in Nat /\ e.state \in States
  BY <1>3, <1>4, EntryTypes
<1>6. to \in States
  BY <1>5 DEF Ticks, States
<1>7. next \in Nat /\ next # Nothing
  BY <1>4, Times, NothingIs
<1>8. /\ v \in AlertEntries /\ v # Nothing /\ v.category = "waiting"
      /\ v.reached = e.reached /\ v.since = e.since
  BY <1>3, <1>5, <1>6, EntryState
<1>9. /\ handle \in Nat \cup {Nothing}
      /\ handle = phone[s] \/ /\ ~e.reached
                              /\ handle >= e.since + Least(PhoneDelays)
  <2>1. Least(PhoneDelays) \in Nat /\ Least(PhoneDelays) <= phoneMs
    BY <1>4, LeastDelay
  <2>2. now + phoneMs \in Nat /\ now + phoneMs >= e.since + Least(PhoneDelays)
    BY <1>3, <1>4, <1>5, <2>1
  <2>3. handle = phone[s] \/ (handle = now + phoneMs /\ ~e.reached)
    BY DEF Phoned, ArmsPhone
  <2> QED
    BY <1>4, <2>2, <2>3
<1>10. /\ entry' = [entry EXCEPT ![s] = v]
       /\ phone' = [phone EXCEPT ![s] = handle]
       /\ timer' = [timer EXCEPT ![s] = next]
       /\ ticking' = [ticking EXCEPT ![s] = {next}]
       /\ UNCHANGED <<now, typed, phoneMs, telegramOn, hub, agents, deferred, held,
                      telegrams, frames, notable, alert, answered>>
  BY <1>2, <1>3 DEF settings, channel, asks
<1> HIDE DEF e, to, handle, next, v
<1>11. /\ entry' \in [Sessions -> AlertEntries \cup {Nothing}]
       /\ phone' \in [Sessions -> Nat \cup {Nothing}]
       /\ timer' \in [Sessions -> Nat \cup {Nothing}]
       /\ ticking' \in [Sessions -> SUBSET Nat]
       /\ entry'[s] = v /\ phone'[s] = handle /\ timer'[s] = next
       /\ ticking'[s] = {next}
       /\ \A r \in Sessions : r # s =>
            /\ entry'[r] = entry[r] /\ phone'[r] = phone[r]
            /\ timer'[r] = timer[r] /\ ticking'[r] = ticking[r]
  BY <1>4, <1>7, <1>8, <1>9, <1>10
<1>12. Timed(s)'
  BY <1>1, <1>3, <1>7, <1>8, <1>9, <1>10, <1>11 DEF Timed, Calls, e
<1>13. ToldOnce(s)'
  BY <1>1, <1>3, <1>8, <1>10, <1>11 DEF ToldOnce, Calls, Unsaid, e
<1>14. \A r \in Sessions : phone'[r] # Nothing =>
         /\ entry'[r] # Nothing /\ ~entry'[r].reached
         /\ entry'[r].category # "question-answered"
  BY <1>1, <1>11, <1>12 DEF NotifyTypeOK, Timed, Calls
<1>15. NotifyTypeOK'
  BY <1>1, <1>10, <1>11, <1>14 DEF NotifyTypeOK
<1>16. HeldRight(s)'
  BY <1>1, <1>8, <1>10, <1>11 DEF HeldRight, Asked
<1> QED
  BY <1>10, <1>11, <1>12, <1>13, <1>15, <1>16, OneSession

\* What must wait is deferred with its alert.
LEMMA DeferredTo ==
  ASSUME AlertInv, NEW s \in Sessions, NEW a \in Alerts, NEW w \in BOOLEAN,
         deferred' = Defer(s, a, w)
  PROVE  /\ deferred' \in [Sessions -> [alert : Alerts, due : Nat] \cup {Nothing}]
         /\ deferred'[s] # Nothing => w /\ deferred'[s].alert = a
         /\ \A r \in Sessions : r # s => deferred'[r] = deferred[r]
<1>1. /\ deferred \in [Sessions -> [alert : Alerts, due : Nat] \cup {Nothing}]
      /\ now + RecheckMs \in Nat
  BY SessionTypes, Times DEF AlertInv, NotifyTypeOK
<1> DEFINE due == IF deferred[s] = Nothing THEN now + RecheckMs ELSE deferred[s].due
           d == [alert |-> a, due |-> due]
<1>2. due \in Nat
  BY <1>1
<1> HIDE DEF due
<1>3. d \in [alert : Alerts, due : Nat] /\ d.alert = a
  BY <1>2
<1>4. deferred' = [deferred EXCEPT ![s] = IF ~w THEN Nothing ELSE d]
  BY DEF Defer, due
<1> HIDE DEF d
<1> QED
  BY <1>1, <1>3, <1>4

LEMMA PhoneFiresKeeps ==
  ASSUME AlertInv, NEW s \in Sessions, PhoneFires(s)
  PROVE  AlertInv'
<1> DEFINE e == entry[s]
<1>1. NotifyTypeOK /\ Timed(s) /\ ToldOnce(s) /\ HeldRight(s)
  BY DEF AlertInv
<1>2. /\ phone[s] # Nothing
      /\ UNCHANGED <<now, typed, phoneMs, telegramOn, hub, agents, notable, alert,
                     answered>>
  BY DEF PhoneFires, settings, asks
<1>3. /\ entry \in [Sessions -> AlertEntries \cup {Nothing}]
      /\ phone \in [Sessions -> Nat \cup {Nothing}]
      /\ now \in Nat /\ phoneMs \in Nat /\ phoneMs \in PhoneDelays
      /\ typed \in Nat \cup {Nothing} /\ alert[s] \in 0..MaxAlerts
      /\ agents[s] \in BOOLEAN
  BY <1>1, SessionTypes, Times DEF NotifyTypeOK
<1>4. /\ Calls(s) /\ ~e.reached /\ notable[s]
      /\ deferred[s] = Nothing /\ held[s] # alert[s] /\ Unsaid(s, alert[s])
  BY <1>1, <1>2 DEF Timed, ToldOnce
<1>5. /\ e \in AlertEntries /\ e # Nothing /\ e.since \in Nat
      /\ e.category \in Categories /\ alert[s] \in Alerts
  BY <1>1, <1>3, <1>4, EntryTypes, Times DEF Calls, ToldOnce, Alerts
<1>6. Least(PhoneDelays) \in Nat /\ Least(PhoneDelays) <= phoneMs
  BY <1>3, LeastDelay
<1> HIDE DEF e
\* The operator is typing: the timer is set again.
<1>7. CASE /\ DecidePhoneEscalation(e) = "wait"
           /\ phone' = [phone EXCEPT ![s] = now + phoneMs - IdleFor]
           /\ UNCHANGED <<entry, timer, ticking, channel>>
  <2> DEFINE handle == now + phoneMs - IdleFor
  <2>1. typed # Nothing /\ ~(typed < e.since)
    BY <1>7 DEF DecidePhoneEscalation
  <2>2. handle \in Nat /\ handle >= e.since + Least(PhoneDelays)
    BY <1>3, <1>5, <1>6, <2>1 DEF IdleFor
  <2> HIDE DEF handle
  <2>3. /\ phone' = [phone EXCEPT ![s] = handle]
        /\ UNCHANGED <<entry, timer, ticking, deferred, held, telegrams, frames>>
    BY <1>7 DEF handle, channel
  <2>4. /\ phone' \in [Sessions -> Nat \cup {Nothing}] /\ phone'[s] = handle
        /\ \A r \in Sessions : r # s => phone'[r] = phone[r]
    BY <1>3, <2>2, <2>3
  <2>5. Timed(s)'
    BY <1>1, <1>2, <1>4, <2>2, <2>3, <2>4 DEF Timed, Calls, e
  <2>6. ToldOnce(s)'
    BY <1>1, <1>2, <2>3 DEF ToldOnce, Calls, Unsaid
  <2>9. HeldRight(s)'
    BY <1>1, <1>2, <2>3 DEF HeldRight, Asked
  <2>7. \A r \in Sessions : phone'[r] # Nothing =>
          /\ entry'[r] # Nothing /\ ~entry'[r].reached
          /\ entry'[r].category # "question-answered"
    BY <1>1, <2>3, <2>4, <2>5 DEF NotifyTypeOK, Timed, Calls
  <2>8. NotifyTypeOK'
    BY <1>1, <1>2, <2>3, <2>4, <2>7 DEF NotifyTypeOK
  <2> QED
    BY <1>2, <2>3, <2>4, <2>5, <2>6, <2>8, <2>9, OneSession
\* The alert was seen.
<1>8. CASE /\ phone' = [phone EXCEPT ![s] = Nothing]
           /\ entry' = [entry EXCEPT ![s].reached = TRUE]
           /\ UNCHANGED <<timer, ticking, channel>>
  <2> DEFINE v == [e EXCEPT !.reached = TRUE]
  <2>1. /\ v \in AlertEntries /\ v # Nothing /\ v.category = e.category
        /\ v.reached = TRUE /\ v.since = e.since
    BY <1>5, EntryReached
  <2>2. /\ entry' = [entry EXCEPT ![s] = v]
        /\ phone' = [phone EXCEPT ![s] = Nothing]
        /\ UNCHANGED <<timer, ticking, deferred, held, telegrams, frames>>
    BY <1>8 DEF e, channel
  <2> HIDE DEF v
  <2>3. /\ entry' \in [Sessions -> AlertEntries \cup {Nothing}]
        /\ phone' \in [Sessions -> Nat \cup {Nothing}]
        /\ entry'[s] = v /\ phone'[s] = Nothing
        /\ \A r \in Sessions : r # s => entry'[r] = entry[r] /\ phone'[r] = phone[r]
    BY <1>3, <2>1, <2>2
  <2>4. Timed(s)'
    BY <1>1, <1>2, <1>5, <2>1, <2>2, <2>3 DEF Timed, e
  <2>5. ToldOnce(s)'
    BY <1>1, <1>2, <1>4, <2>1, <2>2, <2>3 DEF ToldOnce, Unsaid
  <2>8. HeldRight(s)'
    BY <1>1, <1>2, <2>1, <2>2, <2>3 DEF HeldRight, Asked
  <2>6. \A r \in Sessions : phone'[r] # Nothing =>
          /\ entry'[r] # Nothing /\ ~entry'[r].reached
          /\ entry'[r].category # "question-answered"
    BY <1>1, <2>3 DEF NotifyTypeOK
  <2>7. NotifyTypeOK'
    BY <1>1, <1>2, <2>2, <2>3, <2>6 DEF NotifyTypeOK
  <2> QED
    BY <1>2, <2>2, <2>3, <2>4, <2>5, <2>7, <2>8, OneSession
\* The alert climbs: it is sent, or deferred.
<1>9. CASE EscalatePhone(s)
  <2> DEFINE v == [[e EXCEPT !.state = "ESCALATED_PHONE"] EXCEPT !.reached = TRUE]
  <2>1. /\ v \in AlertEntries /\ v # Nothing /\ v.category = e.category
        /\ v.reached = TRUE /\ v.since = e.since
    <3>1. "ESCALATED_PHONE" \in States
      BY DEF States
    <3> QED
      BY <1>5, <3>1, EntryState, EntryReached
  <2>2. /\ entry' = [entry EXCEPT ![s] = v]
        /\ phone' = [phone EXCEPT ![s] = Nothing]
        /\ RearmTick(s, e.category = "waiting")
    BY <1>3, <1>5, <1>9 DEF EscalatePhone, e
  <2> HIDE DEF v
  <2>3. /\ entry' \in [Sessions -> AlertEntries \cup {Nothing}]
        /\ phone' \in [Sessions -> Nat \cup {Nothing}]
        /\ entry'[s] = v /\ phone'[s] = Nothing
        /\ \A r \in Sessions : r # s => entry'[r] = entry[r] /\ phone'[r] = phone[r]
    BY <1>3, <2>1, <2>2
  <2>4. /\ timer' \in [Sessions -> Nat \cup {Nothing}]
        /\ ticking' \in [Sessions -> SUBSET Nat]
        /\ ticking'[s] = {timer'[s]} \ {Nothing}
        /\ timer'[s] # Nothing <=> e.category = "waiting"
        /\ \A r \in Sessions : r # s => timer'[r] = timer[r] /\ ticking'[r] = ticking[r]
    <3>1. (e.category = "waiting") \in BOOLEAN
      OBVIOUS
    <3> QED
      BY <2>2, <3>1, Rearmed
  <2>5. Timed(s)'
    BY <1>1, <1>2, <1>5, <2>1, <2>3, <2>4 DEF Timed, e
  <2> DEFINE w == Waits(e.category, agents[s])
  <2>6. w \in BOOLEAN
    BY DEF Waits
  <2>7. /\ deferred' = Defer(s, alert[s], w)
        /\ \/ w /\ UNCHANGED <<held, telegrams, frames>>
           \/ ~w /\ Sent(s, alert[s])
    BY <1>9 DEF EscalatePhone, DeliverOffDashboard, e
  <2> HIDE DEF w
  <2>8. /\ deferred' \in [Sessions -> [alert : Alerts, due : Nat] \cup {Nothing}]
        /\ deferred'[s] # Nothing => w /\ deferred'[s].alert = alert[s]
        /\ \A r \in Sessions : r # s => deferred'[r] = deferred[r]
    BY <1>5, <2>6, <2>7, DeferredTo
  <2>9. /\ held' \in [Sessions -> Alerts \cup {Nothing}]
        /\ telegrams' \in [Sessions -> [Alerts -> Nat]]
        /\ frames' \in [Sessions -> [Alerts -> Nat]]
        /\ w => held' = held /\ frames' = frames
        /\ ~w /\ held'[s] # Nothing => /\ held'[s] = alert[s] /\ ~hub /\ ~telegramOn
                                       /\ frames'[s][alert[s]] = 0
        /\ w => Unsaid(s, alert[s])'
        /\ telegrams'[s][alert[s]] <= 1 /\ frames'[s][alert[s]] <= 1
        /\ \A b \in Alerts : b # alert[s] =>
             telegrams'[s][b] = telegrams[s][b] /\ frames'[s][b] = frames[s][b]
        /\ \A r \in Sessions : r # s =>
             /\ held'[r] = held[r]
             /\ telegrams'[r] = telegrams[r] /\ frames'[r] = frames[r]
    <3>1. CASE w
      <4>1. UNCHANGED <<held, telegrams, frames>>
        BY <2>7, <3>1
      <4>2. Unsaid(s, alert[s])'
        BY <1>2, <1>4, <4>1 DEF Unsaid
      <4> QED
        BY <1>1, <1>4, <1>5, <3>1, <4>1, <4>2 DEF NotifyTypeOK, ToldOnce
    <3>2. CASE ~w
      BY <1>4, <1>5, <2>7, <3>2, SentOnce
    <3> QED
      BY <2>6, <3>1, <3>2
  <2>10. ToldOnce(s)'
    <3>1. \A a \in Alerts : a > alert[s] => Unsaid(s, a)'
      <4> SUFFICES ASSUME NEW a \in Alerts, a > alert[s] PROVE Unsaid(s, a)'
        BY <1>2
      <4>1. a # alert[s]
        BY <1>3, Times DEF Alerts
      <4>2. Unsaid(s, a)
        BY <1>1 DEF ToldOnce
      <4>3. telegrams'[s][a] = telegrams[s][a] /\ frames'[s][a] = frames[s][a]
        BY <2>9, <4>1
      <4> QED
        BY <4>2, <4>3 DEF Unsaid
    <3>2. \A a \in Alerts : telegrams'[s][a] <= 1 /\ frames'[s][a] <= 1
      BY <1>1, <2>9 DEF ToldOnce
    <3>3. ~(Calls(s)' /\ ~entry'[s].reached)
      BY <2>1, <2>3 DEF Calls
    <3>4. deferred'[s] # Nothing => held'[s] # alert[s]
      BY <1>4, <2>8, <2>9
    <3> QED
      BY <1>1, <1>2, <1>4, <2>8, <2>9, <3>1, <3>2, <3>3, <3>4 DEF ToldOnce
  <2>13. HeldRight(s)'
    <3>1. alert[s] <= alert[s]
      BY <1>3, Times
    <3>2. CASE w
      BY <1>1, <1>2, <2>1, <2>3, <2>9, <3>2 DEF HeldRight, Asked
    <3>3. CASE ~w
      BY <1>2, <1>4, <2>1, <2>3, <2>9, <3>1, <3>3 DEF HeldRight, Asked
    <3> QED
      BY <2>6, <3>2, <3>3
  <2>11. \A r \in Sessions : phone'[r] # Nothing =>
          /\ entry'[r] # Nothing /\ ~entry'[r].reached
          /\ entry'[r].category # "question-answered"
    BY <1>1, <2>3 DEF NotifyTypeOK
  <2>12. NotifyTypeOK'
    BY <1>1, <1>2, <2>3, <2>4, <2>8, <2>9, <2>11 DEF NotifyTypeOK
  <2> QED
    BY <1>2, <2>3, <2>4, <2>5, <2>8, <2>9, <2>10, <2>12, <2>13, OneSession
<1> QED
  BY <1>7, <1>8, <1>9 DEF PhoneFires, e

-----------------------------------------------------------------------------
(* The alerts are kept apart. *)

LEMMA AlertStep == AlertInv /\ [NotifyNext]_notifyVars => AlertInv'
<1> SUFFICES ASSUME AlertInv, [NotifyNext]_notifyVars PROVE AlertInv'
  OBVIOUS
<1>1. CASE OperatorTypes \/ UpdateSettings \/ HubLeaves \/ Tick
  BY <1>1, SettingsStay
<1>2. CASE HubConnects
  BY <1>2, HubConnectsKeeps
<1>3. ASSUME NEW s \in Sessions,
             StateChange(s) \/ QuestionAnswered(s) \/ Acknowledge(s)
             \/ AgentsChange(s) \/ TimerFires(s)
      PROVE  AlertInv'
  BY <1>3, StateChangeKeeps, QuestionKeeps, AcknowledgeKeeps, AgentsChangeKeeps,
     EscalationKeeps, PhoneFiresKeeps, DeferralFiresKeeps DEF TimerFires
<1>4. CASE UNCHANGED notifyVars
  BY <1>4 DEF notifyVars, timers, settings, channel, asks, AlertInv, NotifyTypeOK,
              Timed, ToldOnce, HeldRight, Asked, Calls, Unsaid
<1> QED
  BY <1>1, <1>2, <1>3, <1>4 DEF NotifyNext

\* An alert has the one escalation timer its entry knows of while it waits for
\* input, and none else; and it makes one message by each way at most, however
\* it repeats, climbs, is deferred or is held for a hub, which is while there is
\* neither hub nor Telegram.
THEOREM AlertsApart == NotifySpec => []AlertsKeptApart
<1>1. AlertInv => AlertsKeptApart
  <2> SUFFICES ASSUME AlertInv PROVE AlertsKeptApart
    OBVIOUS
  <2>1. RepeatsUntilAnswered
    BY DEF AlertInv, RepeatsUntilAnswered, Timed
  <2>2. OneMessagePerAlert
    BY DEF AlertInv, OneMessagePerAlert, ToldOnce
  <2>3. HeldForHubOnly
    BY DEF AlertInv, HeldForHubOnly, HeldRight, ToldOnce, Timed
  <2> QED
    BY <2>1, <2>2, <2>3 DEF AlertsKeptApart, AlertInv
<1> QED
  BY <1>1, Begins, AlertStep, PTL DEF NotifySpec

-----------------------------------------------------------------------------
(* The phone is disturbed in time. *)

\* Only the phone timer makes an alert climb to the phone.
LEMMA OnlyPhoneTimerClimbs ==
  ASSUME AlertInv, [NotifyNext]_notifyVars, NEW s \in Sessions,
         entry[s] # Nothing, entry'[s] # Nothing,
         entry'[s].state = "ESCALATED_PHONE", entry[s].state # "ESCALATED_PHONE"
  PROVE  PhoneFires(s) /\ DecidePhoneEscalation(entry[s]) = "escalate"
<1>1. /\ entry \in [Sessions -> AlertEntries \cup {Nothing}]
      /\ entry[s] \in AlertEntries /\ entry[s].state \in States
  BY EntryTypes DEF AlertInv, NotifyTypeOK
<1>2. entry' # entry
  OBVIOUS
<1>3. ~(OperatorTypes \/ UpdateSettings \/ HubLeaves \/ Tick \/ HubConnects)
  BY <1>2 DEF OperatorTypes, UpdateSettings, HubLeaves, Tick, HubConnects
<1>4. ~UNCHANGED notifyVars
  BY <1>2 DEF notifyVars
<1>5. ASSUME NEW r \in Sessions PROVE ~Forget(r)
  BY <1>1 DEF Forget
<1>6. ASSUME NEW r \in Sessions, NEW category PROVE ~Trigger(r, category)
  BY <1>1 DEF Trigger
<1>7. ASSUME NEW r \in Sessions, NEW working PROVE ~SendDeferred(r, working)
  BY <1>1 DEF SendDeferred, AlertEntries
<1>8. ASSUME NEW r \in Sessions
      PROVE  ~(StateChange(r) \/ QuestionAnswered(r) \/ Acknowledge(r)
               \/ AgentsChange(r) \/ DeferralFires(r))
  BY <1>2, <1>5, <1>6, <1>7
     DEF StateChange, QuestionAnswered, Acknowledge, AgentsChange, DeferralFires
<1>9. ASSUME NEW r \in Sessions PROVE ~EscalationFires(r)
  <2> SUFFICES ASSUME EscalationFires(r) PROVE FALSE
    OBVIOUS
  <2>1. entry' = [entry EXCEPT ![r].state = Ticks[entry[r].state]]
    BY DEF EscalationFires
  <2>2. r = s
    BY <1>1, <2>1
  <2>3. entry'[s].state = Ticks[entry[s].state]
    BY <1>1, <2>1, <2>2 DEF AlertEntries
  <2> QED
    BY <1>1, <2>3 DEF Ticks, States
<1>10. PICK r \in Sessions : PhoneFires(r)
  BY <1>3, <1>4, <1>8, <1>9 DEF NotifyNext, TimerFires
<1>11. r = s /\ DecidePhoneEscalation(entry[r]) = "escalate"
  BY <1>1, <1>2, <1>10 DEF PhoneFires, EscalatePhone, AlertEntries
<1> QED
  BY <1>10, <1>11

LEMMA ClimbsInTime ==
  ASSUME AlertInv, [NotifyNext]_notifyVars
  PROVE  WaitsForTyping
<1> SUFFICES ASSUME NEW s \in Sessions, entry[s] # Nothing, entry'[s] # Nothing,
                    entry'[s].state = "ESCALATED_PHONE",
                    entry[s].state # "ESCALATED_PHONE"
             PROVE  /\ now >= entry[s].since + Least(PhoneDelays)
                    /\ (typed # Nothing /\ typed >= entry[s].since)
                         => IdleFor >= phoneMs
  BY DEF WaitsForTyping
<1>1. PhoneFires(s) /\ DecidePhoneEscalation(entry[s]) = "escalate"
  BY OnlyPhoneTimerClimbs
<1>2. NotifyTypeOK /\ Timed(s)
  BY DEF AlertInv
<1>3. /\ now \in Nat /\ phone[s] \in Nat \cup {Nothing} /\ phoneMs \in Nat
      /\ typed \in Nat \cup {Nothing}
      /\ entry[s].since \in Nat /\ Least(PhoneDelays) \in Nat
  BY <1>2, SessionTypes, EntryTypes, LeastDelay, Times DEF NotifyTypeOK
<1>4. phone[s] # Nothing /\ now >= phone[s]
  BY <1>1 DEF PhoneFires
<1>5. phone[s] >= entry[s].since + Least(PhoneDelays)
  BY <1>2, <1>4 DEF Timed
<1>6. now >= entry[s].since + Least(PhoneDelays)
  BY <1>3, <1>4, <1>5
<1>7. (typed # Nothing /\ typed >= entry[s].since) => IdleFor >= phoneMs
  BY <1>1, <1>3 DEF DecidePhoneEscalation, IdleFor
<1> QED
  BY <1>6, <1>7

\* What is sent is the one message that is added.
LEMMA SentTells ==
  ASSUME AlertInv, NEW r \in Sessions, NEW b \in Alerts, b = alert[r],
         Unsaid(r, b), Sent(r, b),
         NEW s \in Sessions, NEW a \in Alerts, Messages(s, a)' > Messages(s, a)
  PROVE  s = r /\ a = b
<1>1. telegrams[s][a] \in Nat /\ frames[s][a] \in Nat
  BY SessionTypes DEF AlertInv
<1>2. telegrams'[s][a] # telegrams[s][a] \/ frames'[s][a] # frames[s][a]
  BY <1>1 DEF Messages
<1> QED
  BY <1>2, SentOnce

LEMMA TellsNoneLapsed ==
  ASSUME AlertInv, [NotifyNext]_notifyVars
  PROVE  NoneLapsedIsTold
<1> SUFFICES ASSUME NEW s \in Sessions, NEW a \in Alerts,
                    Messages(s, a)' > Messages(s, a)
             PROVE  Asked(s, a) \/ a \in answered[s]
  BY DEF NoneLapsedIsTold
<1>1. telegrams[s][a] \in Nat /\ frames[s][a] \in Nat
  BY SessionTypes DEF AlertInv
<1>2. ~UNCHANGED <<telegrams, frames>>
  BY <1>1 DEF Messages
<1>3. ~(\/ OperatorTypes \/ UpdateSettings \/ HubLeaves \/ Tick
        \/ UNCHANGED notifyVars)
  BY <1>2 DEF OperatorTypes, UpdateSettings, HubLeaves, Tick, notifyVars, channel
<1>4. ASSUME NEW r \in Sessions
      PROVE  ~(StateChange(r) \/ QuestionAnswered(r) \/ Acknowledge(r)
               \/ EscalationFires(r))
  BY <1>2 DEF StateChange, QuestionAnswered, Acknowledge, EscalationFires, channel
<1>5. CASE HubConnects
  <2>1. /\ telegrams' = telegrams
        /\ frames'[s][a] = frames[s][a] + IF held[s] = a THEN 1 ELSE 0
    BY <1>5 DEF HubConnects
  <2>2. held[s] = a /\ a # Nothing
    BY <1>1, <2>1, NothingIs DEF Messages, Alerts
  <2>3. HeldRight(s)
    BY DEF AlertInv
  <2> QED
    BY <2>2, <2>3 DEF HeldRight
<1>6. ASSUME NEW r \in Sessions, NEW working \in BOOLEAN, deferred[r] # Nothing,
             SendDeferred(r, working)
      PROVE  Asked(s, a)
  <2>1. ToldOnce(r) /\ deferred[r] \in [alert : Alerts, due : Nat]
    BY <1>6, SessionTypes DEF AlertInv
  <2>2. /\ deferred[r].alert = alert[r] /\ alert[r] \in Alerts
        /\ Unsaid(r, alert[r]) /\ notable[r]
    BY <1>6, <2>1 DEF ToldOnce
  <2>3. Sent(r, alert[r])
    BY <1>2, <1>6, <2>2 DEF SendDeferred
  <2> QED
    BY <2>2, <2>3, SentTells DEF Asked
<1>7. ASSUME NEW r \in Sessions, DeferralFires(r)
      PROVE  Asked(s, a)
  BY <1>6, <1>7, SessionTypes DEF DeferralFires, AlertInv
<1>8. ASSUME NEW r \in Sessions, AgentsChange(r)
      PROVE  Asked(s, a)
  <2>1. deferred[r] # Nothing /\ SendDeferred(r, ~agents[r])
    BY <1>2, <1>8 DEF AgentsChange, channel
  <2>2. (~agents[r]) \in BOOLEAN
    OBVIOUS
  <2> QED
    BY <1>6, <2>1, <2>2
<1>9. ASSUME NEW r \in Sessions, PhoneFires(r)
      PROVE  Asked(s, a)
  <2>1. Timed(r) /\ ToldOnce(r) /\ alert[r] \in 0..MaxAlerts
    BY SessionTypes DEF AlertInv
  <2>2. notable[r] /\ Unsaid(r, alert[r]) /\ alert[r] \in Alerts
    BY <1>9, <2>1, Times DEF PhoneFires, Timed, ToldOnce, Alerts
  <2>3. Sent(r, alert[r])
    BY <1>2, <1>9 DEF PhoneFires, EscalatePhone, DeliverOffDashboard, channel
  <2> QED
    BY <2>2, <2>3, SentTells DEF Asked
<1> QED
  BY <1>3, <1>4, <1>5, <1>7, <1>8, <1>9 DEF NotifyNext, TimerFires

\* No alert climbs to the phone before it was left for the delay, nor while the
\* operator types; and what the phone is told of is what its session asks for now,
\* or was answered while the session did.
THEOREM PhoneIsInTime == NotifySpec => PhoneInTime
<1>1. AlertInv /\ [NotifyNext]_notifyVars => WaitsForTyping /\ NoneLapsedIsTold
  BY ClimbsInTime, TellsNoneLapsed
<1>2. NotifySpec => []AlertInv
  BY Begins, AlertStep, PTL DEF NotifySpec
<1> QED
  BY <1>1, <1>2, PTL DEF NotifySpec, PhoneInTime

-----------------------------------------------------------------------------
(* The outbox. *)

USE BoundsAssumption DEF memory, history

-----------------------------------------------------------------------------
(* The entries and the queue of saves *)

\* A list of entries is a function on some pings to attempts below the limit.
LEMMA EntriesDef ==
  \A f : f \in Entries <=> /\ DOMAIN f \subseteq Pings
                           /\ f \in [DOMAIN f -> 0..(MaxAttempts - 1)]
BY DEF Entries

\* removeEntry removes the pings it is given and touches no other.
LEMMA WithoutType ==
  ASSUME NEW f \in Entries, NEW S
  PROVE  /\ Without(f, S) \in Entries
         /\ DOMAIN Without(f, S) = DOMAIN f \ S
BY EntriesDef DEF Without

\* A new queue is empty, and so are the entries of the first boot.
LEMMA NothingYet == <<>> \in Entries /\ <<>> \in Seq(Saves) /\ DOMAIN <<>> = {}
<1>1. <<>> \in Seq(Saves) /\ <<>> \in Seq(0..(MaxAttempts - 1)) /\ Len(<<>>) = 0
  BY EmptySeq
<1>2. <<>> \in [1..0 -> 0..(MaxAttempts - 1)] /\ DOMAIN <<>> = 1..0
  BY <1>1, LenProperties
<1>3. 1..0 = {}
  OBVIOUS
<1>4. DOMAIN <<>> = {} /\ <<>> \in [DOMAIN <<>> -> 0..(MaxAttempts - 1)]
  BY <1>2, <1>3
<1>5. <<>> \in Entries
  BY <1>4, EntriesDef, Zenon
<1> QED
  BY <1>1, <1>4, <1>5

\* persist() appends one save and leaves those before it alone.
LEMMA PersistAppends ==
  ASSUME NEW queue \in Seq(Saves), NEW awaiter \in Awaiters,
         entries' \in Entries, Persist(queue, awaiter)
  PROVE  /\ writes' \in Seq(Saves)
         /\ Len(queue) \in Nat /\ DOMAIN queue = 1..Len(queue)
         /\ DOMAIN writes' = 1..(Len(queue) + 1)
         /\ \A i \in 1..Len(queue) : writes'[i] = queue[i]
         /\ writes'[Len(queue) + 1].entries = entries'
         /\ writes'[Len(queue) + 1].awaiter = awaiter
<1> DEFINE save == [entries |-> entries', awaiter |-> awaiter]
<1>1. save \in Saves /\ writes' = Append(queue, save)
  BY DEF Saves, Persist
<1> HIDE DEF save
<1>2. /\ writes' \in Seq(Saves) /\ Len(writes') = Len(queue) + 1
      /\ \A i \in 1..Len(queue) : writes'[i] = queue[i]
      /\ writes'[Len(queue) + 1] = save
  BY <1>1, AppendProperties
<1>3. Len(queue) \in Nat /\ DOMAIN queue = 1..Len(queue)
      /\ DOMAIN writes' = 1..Len(writes')
  BY <1>2, LenProperties
<1> QED
  BY <1>2, <1>3 DEF save

\* The save that lands is the first; the others move up.
LEMMA LandingShifts ==
  ASSUME NEW queue \in Seq(Saves), 1 \in DOMAIN queue,
         NEW rest,
         rest = SubSeq(queue, 1, 0) \o SubSeq(queue, 2, Len(queue))
  PROVE  /\ rest \in Seq(Saves)
         /\ Len(queue) \in Nat \ {0}
         /\ DOMAIN queue = 1..Len(queue)
         /\ DOMAIN rest = 1..(Len(queue) - 1)
         /\ \A i \in DOMAIN rest : rest[i] = queue[i + 1]
<1>1. Len(queue) \in Nat \ {0} /\ DOMAIN queue = 1..Len(queue)
      /\ \A i \in 1..Len(queue) : queue[i] \in Saves
  BY LenProperties, ElementOfSeq
<1>2. SubSeq(queue, 1, 0) = <<>>
  BY SubSeqEmpty
<1>3. /\ SubSeq(queue, 2, Len(queue)) \in Seq(Saves)
      /\ Len(SubSeq(queue, 2, Len(queue))) = Len(queue) - 1
      /\ \A i \in 1..(Len(queue) - 1) :
           SubSeq(queue, 2, Len(queue))[i] = queue[i + 1]
  <2>1. Len(queue) \in Int /\ 2 \in Int /\ \A i \in 2..Len(queue) : queue[i] \in Saves
    BY <1>1
  <2> QED
    BY <1>1, <2>1, SubSeqProperties
<1>4. rest = SubSeq(queue, 2, Len(queue))
  BY <1>2, <1>3, ConcatEmptySeq
<1> QED
  BY <1>1, <1>3, <1>4, LenProperties

\* What a queue of saves holds.
LEMMA SaveType ==
  ASSUME NEW queue \in Seq(Saves), NEW i \in DOMAIN queue
  PROVE  queue[i].entries \in Entries /\ queue[i].awaiter \in Awaiters
<1>1. queue[i] \in Saves
  BY LenProperties, ElementOfSeq
<1> QED
  BY <1>1 DEF Saves

-----------------------------------------------------------------------------
(* Types *)

\* The part of the type invariant the theorems need.
Typed == /\ arrived \in 0..LastPing
         /\ entries \in Entries /\ disk \in Entries
         /\ writes \in Seq(Saves)

\* A replay that gives up on something saves what it keeps.
LEMMA ReplayTyped ==
  ASSUME NEW stored \in Entries, NEW queue \in Seq(Saves),
         NEW attempts, NEW flying, NEW failures,
         Replay(stored, attempts, flying, failures, queue)
  PROVE  /\ entries' \in Entries /\ writes' \in Seq(Saves)
         /\ DOMAIN entries' = DOMAIN stored \ Expired(stored)
<1>1. entries' \in Entries /\ DOMAIN entries' = DOMAIN stored \ Expired(stored)
  BY WithoutType DEF Replay
<1>2. writes' = queue \/ Persist(queue, <<"replay">>)
  BY DEF Replay
<1>3. <<"replay">> \in Awaiters
  BY DEF Awaiters
<1> QED
  BY <1>1, <1>2, <1>3, PersistAppends

\* A failure leaves a list of entries, perhaps without its ping.
LEMMA CountFailureTyped ==
  ASSUME Typed, NEW p \in Pings, CountFailure(p)
  PROVE  /\ entries' \in Entries
         /\ DOMAIN entries' \subseteq DOMAIN entries
         /\ DOMAIN entries \ {p} \subseteq DOMAIN entries'
         /\ settled \subseteq settled'
         /\ p \in DOMAIN entries \ DOMAIN entries' => p \in settled'
<1>1. CASE entries' = entries /\ settled' = settled
  BY <1>1 DEF Typed
<1>2. CASE /\ p \in DOMAIN entries /\ entries[p] + 1 < MaxAttempts
           /\ entries' = [entries EXCEPT ![p] = @ + 1]
           /\ settled' = settled
  <2>1. /\ entries \in [DOMAIN entries -> 0..(MaxAttempts - 1)]
        /\ DOMAIN entries \subseteq Pings
    BY EntriesDef DEF Typed
  <2>2. entries' \in [DOMAIN entries -> 0..(MaxAttempts - 1)]
        /\ DOMAIN entries' = DOMAIN entries
    BY <1>2, <2>1
  <2> QED
    BY <1>2, <2>1, <2>2, EntriesDef
<1>3. CASE /\ entries' = Without(entries, {p})
           /\ settled' = settled \cup {p}
  BY <1>3, WithoutType DEF Typed
<1> QED
  BY <1>1, <1>2, <1>3 DEF CountFailure

LEMMA TypedInit == Init => Typed
BY NothingYet DEF Init, Typed

LEMMA DeliverTyped ==
  ASSUME Typed, Deliver
  PROVE  /\ entries' \in Entries /\ arrived' \in Pings
         /\ DOMAIN entries' = Kept(DOMAIN entries \cup {arrived'})
<1>1. arrived' \in Pings
  BY DEF Deliver, Typed, Pings
<1> DEFINE kept == Kept(DOMAIN entries \cup {arrived'})
<1>2. /\ DOMAIN entries \subseteq Pings
      /\ entries \in [DOMAIN entries -> 0..(MaxAttempts - 1)]
  BY EntriesDef DEF Typed
<1>3. kept \subseteq DOMAIN entries \cup {arrived'}
  BY DEF Kept
<1>4. entries' = [p \in kept |-> IF p = arrived' THEN 0 ELSE entries[p]]
  BY DEF Deliver
<1> HIDE DEF kept
<1>5. entries' \in [kept -> 0..(MaxAttempts - 1)] /\ DOMAIN entries' = kept
  BY <1>2, <1>3, <1>4
<1> QED
  BY <1>1, <1>2, <1>3, <1>5, EntriesDef DEF kept

\* The end of an attempt: nothing but its ping leaves, and it is saved.
LEMMA SendTyped ==
  ASSUME Typed, NEW p \in Pings, NEW by \in Senders,
         SendOk(p, by) \/ SendFailed(p, by)
  PROVE  /\ entries' \in Entries
         /\ DOMAIN entries' \subseteq DOMAIN entries
         /\ DOMAIN entries \ {p} \subseteq DOMAIN entries'
         /\ \E a \in {<<"replay">>, <<"nobody">>} : Persist(writes, a)
<1>1. EndAttempt(p, by)
  BY DEF SendOk, SendFailed
<1>2. CASE entries' = Without(entries, {p})
  BY <1>1, <1>2, WithoutType DEF EndAttempt, Typed
<1>3. CASE CountFailure(p)
  BY <1>1, <1>3, CountFailureTyped DEF EndAttempt
<1> QED
  BY <1>2, <1>3 DEF SendOk, SendFailed

\* Every step keeps the types.
LEMMA TypedStep == Typed /\ [Next]_vars => Typed'
<1> SUFFICES ASSUME Typed, [Next]_vars PROVE Typed'
  OBVIOUS
<1> USE DEF Typed
<1>1. CASE Deliver
  <2>1. entries' \in Entries /\ arrived' \in Pings
    BY <1>1, DeliverTyped
  <2>2. Persist(writes, <<"deliver", arrived'>>) /\ disk' = disk
    BY <1>1 DEF Deliver
  <2>3. <<"deliver", arrived'>> \in Awaiters
    BY <2>1 DEF Awaiters
  <2>4. writes' \in Seq(Saves)
    BY <2>1, <2>2, <2>3, PersistAppends
  <2> QED
    BY <2>1, <2>2, <2>4 DEF Pings
<1>2. CASE WriteDone
  <2>1. /\ 1 \in DOMAIN writes
        /\ writes' = SubSeq(writes, 1, 0) \o SubSeq(writes, 2, Len(writes))
        /\ disk' \in {disk, writes[1].entries}
        /\ UNCHANGED <<arrived, entries>>
    BY <1>2 DEF WriteDone, Landing
  <2>2. writes[1].entries \in Entries
    BY <2>1, SaveType
  <2> QED
    BY <2>1, <2>2, LandingShifts
<1>3. ASSUME NEW p \in Pings, NEW by \in Senders, SendOk(p, by) \/ SendFailed(p, by)
      PROVE  Typed'
  <2>1. entries' \in Entries
        /\ \E a \in {<<"replay">>, <<"nobody">>} : Persist(writes, a)
    BY <1>3, SendTyped
  <2>2. UNCHANGED <<arrived, disk>>
    BY <1>3 DEF SendOk, SendFailed, EndAttempt
  <2> QED
    BY <2>1, <2>2, PersistAppends DEF Awaiters
<1>4. CASE RetryFires
  BY <1>4, ReplayTyped DEF RetryFires
<1>5. CASE Restart
  <2>1. disk' \in Entries
    <3>1. ASSUME NEW i \in Landing PROVE writes[i].entries \in Entries
      BY <3>1, SaveType DEF Landing
    <3> QED
      BY <1>5, <3>1 DEF Restart
  <2> QED
    BY <1>5, <2>1, ReplayTyped, NothingYet DEF Restart
<1>6. CASE Age \/ UNCHANGED vars
  BY <1>6 DEF Age, vars
<1> QED
  BY <1>1, <1>2, <1>3, <1>4, <1>5, <1>6 DEF Next, SendDone

-----------------------------------------------------------------------------
(* No ping is forgotten *)

\* A replay leaves nothing idle behind without the timer.
LEMMA ReplayOnRemembers ==
  ASSUME NEW plan, NEW stored, NEW attempts, NEW flying, NEW ticker,
         ReplayOn(plan, stored, attempts, flying, ticker)
  PROVE  \/ replaying'
         \/ armed' \/ DOMAIN stored \subseteq inFlight'
BY DEF ReplayOn, Rearm

LEMMA ReplayRemembers ==
  ASSUME NEW stored \in Entries, NEW attempts, NEW flying, NEW failures, NEW queue,
         Replay(stored, attempts, flying, failures, queue)
  PROVE  NeverForgotten'
<1>1. DOMAIN entries' \subseteq DOMAIN stored
  BY WithoutType DEF Replay
<1>2. CASE replaying'
  BY <1>2 DEF NeverForgotten
<1>3. CASE ReplayOn(DOMAIN stored, stored, attempts, flying, FALSE)
  BY <1>1, <1>3, ReplayOnRemembers DEF NeverForgotten
<1> QED
  BY <1>2, <1>3 DEF Replay

\* deliver() of p awaits one of the queued saves.
Awaited(queue, p) == \E i \in DOMAIN queue : queue[i].awaiter = <<"deliver", p>>

LEMMA PersistAwaited ==
  ASSUME NEW queue \in Seq(Saves), NEW a \in Awaiters, entries' \in Entries,
         Persist(queue, a), NEW p
  PROVE  /\ Awaited(queue, p) => Awaited(writes', p)
         /\ a = <<"deliver", p>> => Awaited(writes', p)
<1>1. /\ DOMAIN queue = 1..Len(queue) /\ Len(queue) \in Nat
      /\ DOMAIN writes' = 1..(Len(queue) + 1)
  BY PersistAppends
<1>2. \A i \in 1..Len(queue) : writes'[i] = queue[i]
  BY PersistAppends
<1>3. writes'[Len(queue) + 1].awaiter = a
  BY PersistAppends
<1> QED
  BY <1>1, <1>2, <1>3 DEF Awaited

LEMMA LandingAwaited ==
  ASSUME NEW queue \in Seq(Saves), 1 \in DOMAIN queue,
         NEW rest, rest = SubSeq(queue, 1, 0) \o SubSeq(queue, 2, Len(queue)),
         NEW p, Awaited(queue, p)
  PROVE  Awaited(rest, p) \/ queue[1].awaiter = <<"deliver", p>>
<1>1. PICK i \in DOMAIN queue : queue[i].awaiter = <<"deliver", p>>
  BY DEF Awaited
<1>2. CASE i # 1
  <2>1. i - 1 \in DOMAIN rest /\ rest[i - 1] = queue[i]
    BY <1>2, LandingShifts
  <2> QED
    BY <1>1, <2>1 DEF Awaited
<1> QED
  BY <1>1, <1>2

LEMMA NeverForgottenMeans ==
  /\ NeverForgotten <=>
       \A p \in DOMAIN entries :
         p \in inFlight \/ armed \/ replaying \/ Awaited(writes, p)
  /\ NeverForgotten' <=>
       \A p \in DOMAIN entries' :
         p \in inFlight' \/ armed' \/ replaying' \/ Awaited(writes', p)
BY DEF NeverForgotten, AwaitsFirstAttempt, Awaited

LEMMA NeverForgottenStep ==
  Typed /\ NeverForgotten /\ [Next]_vars => NeverForgotten'
<1> SUFFICES ASSUME Typed, NeverForgotten, [Next]_vars PROVE NeverForgotten'
  OBVIOUS
<1> USE DEF Typed
<1>1. CASE Deliver
  <2>1. /\ entries' \in Entries /\ <<"deliver", arrived'>> \in Awaiters
        /\ DOMAIN entries' \subseteq DOMAIN entries \cup {arrived'}
    BY <1>1, DeliverTyped DEF Kept, Awaiters
  <2>2. /\ Persist(writes, <<"deliver", arrived'>>)
        /\ UNCHANGED <<inFlight, armed, replaying>>
    BY <1>1 DEF Deliver
  <2>3. \A p : Awaited(writes, p) \/ p = arrived' => Awaited(writes', p)
    BY <2>1, <2>2, PersistAwaited
  <2> QED
    BY <2>1, <2>2, <2>3, NeverForgottenMeans
<1>2. CASE WriteDone
  <2>1. /\ 1 \in DOMAIN writes
        /\ writes' = SubSeq(writes, 1, 0) \o SubSeq(writes, 2, Len(writes))
        /\ UNCHANGED entries
    BY <1>2 DEF WriteDone, Landing
  <2>2. \A p : Awaited(writes, p) =>
               Awaited(writes', p) \/ writes[1].awaiter = <<"deliver", p>>
    BY <2>1, LandingAwaited
  <2>3. CASE /\ writes[1].awaiter[1] = "deliver"
             /\ inFlight' = inFlight \cup {writes[1].awaiter[2]}
             /\ UNCHANGED <<armed, replaying>>
    BY <2>1, <2>2, <2>3, NeverForgottenMeans
  <2>4. CASE ReplayOn(todo, entries, sending, inFlight, armed)
    BY <2>1, <2>4, ReplayOnRemembers DEF NeverForgotten
  <2>5. CASE /\ writes[1].awaiter[1] = "nobody"
             /\ UNCHANGED <<inFlight, armed, replaying>>
    BY <2>1, <2>2, <2>5, NeverForgottenMeans
  <2> QED
    BY <1>2, <2>3, <2>4, <2>5 DEF WriteDone, Landing, Attempt
<1>3. ASSUME NEW p \in Pings, NEW by \in Senders, SendOk(p, by) \/ SendFailed(p, by)
      PROVE  NeverForgotten'
  <2>1. PICK a \in {<<"replay">>, <<"nobody">>} : Persist(writes, a)
    BY <1>3, SendTyped
  <2>2. entries' \in Entries /\ DOMAIN entries' \subseteq DOMAIN entries
    BY <1>3, SendTyped
  <2>3. \A q : Awaited(writes, q) => Awaited(writes', q)
    BY <2>1, <2>2, PersistAwaited DEF Awaiters
  <2>4. /\ inFlight' = inFlight \ {p} /\ replaying' = replaying
    <3>1. EndAttempt(p, by)
      BY <1>3 DEF SendOk, SendFailed
    <3> QED
      BY <3>1 DEF EndAttempt
  <2>5. (armed => armed') /\ (p \in DOMAIN entries' => armed' \/ replaying')
    <3>1. CASE entries' = Without(entries, {p}) /\ armed' = armed
      <4>1. p \notin DOMAIN entries'
        BY <3>1 DEF Without
      <4> QED
        BY <3>1, <4>1, Zenon
    <3>2. CASE armed' = (armed \/ Arms(p))
      BY <2>4, <3>2, Zenon DEF Arms
    <3>3. CASE SendOk(p, by)
      BY <3>1, <3>3 DEF SendOk
    <3>4. CASE SendFailed(p, by)
      BY <3>2, <3>4, Zenon DEF SendFailed
    <3> QED
      BY <1>3, <3>3, <3>4, Zenon
  <2> QED
    BY <2>2, <2>3, <2>4, <2>5, NeverForgottenMeans
<1>4. CASE RetryFires
  BY <1>4, ReplayRemembers DEF RetryFires
<1>5. CASE Restart
  <2>1. disk' \in Entries
    BY TypedStep
  <2> QED
    BY <1>5, <2>1, ReplayRemembers DEF Restart
<1>6. CASE Age \/ UNCHANGED vars
  BY <1>6, NeverForgottenMeans DEF Age, vars
<1> QED
  BY <1>1, <1>2, <1>3, <1>4, <1>5, <1>6 DEF Next, SendDone

\* A ping that is held is never forgotten (deliver, attempt, replay and
\* armRetry): it is being sent, awaits its first attempt, or a replay that
\* runs or is armed will come to it.
THEOREM Remembered == Spec => []NeverForgotten
<1>1. Init => Typed /\ NeverForgotten
  BY TypedInit, NothingYet DEF Init, NeverForgotten
<1>2. Typed /\ NeverForgotten /\ [Next]_vars => (Typed /\ NeverForgotten)'
  BY TypedStep, NeverForgottenStep
<1> QED
  BY <1>1, <1>2, PTL DEF Spec

-----------------------------------------------------------------------------
(* No saved ping is lost *)

\* Pings that need no place in the file: sent, or given up.
Done == {p \in Pings : sent[p] # {} \/ p \in settled}

\* The file, the saves that wait in their order, and the memory: what an
\* earlier one holds the later ones hold too, unless it is done.
Durable ==
  /\ written \subseteq DOMAIN disk \cup Done
  /\ DOMAIN disk \subseteq DOMAIN entries \cup Done
  /\ \A i \in DOMAIN writes :
       /\ DOMAIN disk \subseteq DOMAIN writes[i].entries \cup Done
       /\ DOMAIN writes[i].entries \subseteq DOMAIN entries \cup Done
  /\ \A i, j \in DOMAIN writes : i < j =>
       DOMAIN writes[i].entries \subseteq DOMAIN writes[j].entries \cup Done

HistoryTyped == sent \in [Pings -> SUBSET Nat] /\ crashes \in Nat

SavedInv == Typed /\ HistoryTyped /\ Durable

LEMMA HistoryTypedStep ==
  ASSUME Typed, HistoryTyped, [Next]_vars
  PROVE  HistoryTyped' /\ \A p \in Pings : sent[p] \subseteq sent'[p]
<1> USE DEF HistoryTyped
<1>1. CASE sent' = sent /\ crashes' \in {crashes, crashes + 1}
  BY <1>1
<1>2. ASSUME NEW p \in Pings, NEW by \in Senders, SendOk(p, by)
      PROVE  HistoryTyped' /\ \A q \in Pings : sent[q] \subseteq sent'[q]
  <2>1. /\ sent' = [sent EXCEPT ![p] = @ \cup {crashes}]
        /\ crashes' = crashes
    BY <1>2 DEF SendOk, EndAttempt
  <2> QED
    BY <2>1
<1>3. ASSUME NEW p \in Pings, NEW by \in Senders, SendFailed(p, by)
      PROVE  sent' = sent /\ crashes' = crashes
  BY <1>3 DEF SendFailed, EndAttempt
<1> QED
  BY <1>1, <1>2, <1>3 DEF Next, SendDone, Deliver, WriteDone, RetryFires, Age,
     Restart, vars

\* A step that keeps the file and saves what it leaves out only of what is done.
LEMMA SaveKeepsDurable ==
  ASSUME SavedInv, entries' \in Entries, Done \subseteq Done',
         DOMAIN entries \subseteq DOMAIN entries' \cup Done',
         disk' = disk, written' = written,
         \/ writes' = writes
         \/ \E a \in Awaiters : Persist(writes, a)
  PROVE  Durable'
<1> USE DEF SavedInv
<1>1. CASE writes' = writes
  BY <1>1 DEF Durable
<1>2. CASE \E a \in Awaiters : Persist(writes, a)
  <2>1. PICK a \in Awaiters : Persist(writes, a)
    BY <1>2
  <2> DEFINE n == Len(writes)
  <2>2. /\ n \in Nat /\ DOMAIN writes = 1..n /\ DOMAIN writes' = 1..(n + 1)
    BY <2>1, PersistAppends DEF Typed
  <2>3. \A i \in 1..n : writes'[i] = writes[i]
    BY <2>1, PersistAppends DEF Typed
  <2>4. writes'[n + 1].entries = entries'
    BY <2>1, PersistAppends DEF Typed
  <2> HIDE DEF n
  <2>5. \A i \in 1..(n + 1) : i \in 1..n \/ i = n + 1
    BY <2>2
  <2>6. ASSUME NEW i \in DOMAIN writes'
        PROVE  /\ DOMAIN disk' \subseteq DOMAIN writes'[i].entries \cup Done'
               /\ DOMAIN writes'[i].entries \subseteq DOMAIN entries' \cup Done'
    <3>1. CASE i = n + 1
      BY <2>4, <3>1 DEF Durable
    <3>2. CASE i \in 1..n
      BY <2>2, <2>3, <3>2 DEF Durable
    <3> QED
      BY <2>2, <2>5, <3>1, <3>2
  <2>7. ASSUME NEW i \in DOMAIN writes', NEW j \in DOMAIN writes', i < j
        PROVE  DOMAIN writes'[i].entries \subseteq
                 DOMAIN writes'[j].entries \cup Done'
    <3>1. CASE j = n + 1
      BY <2>4, <2>6, <3>1
    <3>2. CASE i \in 1..n /\ j \in 1..n
      BY <2>2, <2>3, <2>7, <3>2 DEF Durable
    <3> QED
      BY <2>2, <2>5, <2>7, <3>1, <3>2
  <2> QED
    BY <2>6, <2>7 DEF Durable
<1> QED
  BY <1>1, <1>2

\* What a replay leaves out it has settled.
LEMMA ReplaySettles ==
  ASSUME NEW stored \in Entries, NEW attempts, NEW flying, NEW failures, NEW queue,
         Replay(stored, attempts, flying, failures, queue)
  PROVE  /\ settled \subseteq settled'
         /\ DOMAIN stored \subseteq DOMAIN entries' \cup settled'
         /\ DOMAIN entries' \subseteq DOMAIN stored
BY WithoutType DEF Replay

LEMMA DurableStep == SavedInv /\ [Next]_vars => Durable'
<1> SUFFICES ASSUME SavedInv, [Next]_vars PROVE Durable'
  OBVIOUS
<1>0. /\ Typed /\ HistoryTyped /\ Durable
      /\ \A p \in Pings : sent[p] \subseteq sent'[p]
      /\ DOMAIN entries \subseteq Pings /\ DOMAIN disk \subseteq Pings
  BY HistoryTypedStep, EntriesDef DEF SavedInv, Typed
<1>1. settled \subseteq settled' => Done \subseteq Done'
  BY <1>0 DEF Done
<1>2. CASE Deliver
  <2>1. entries' \in Entries /\ <<"deliver", arrived'>> \in Awaiters
    BY <1>0, <1>2, DeliverTyped DEF Awaiters
  <2>2. /\ Persist(writes, <<"deliver", arrived'>>)
        /\ disk' = disk /\ written' = written
        /\ settled \subseteq settled'
        /\ DOMAIN entries \subseteq DOMAIN entries' \cup settled'
    BY <1>0, <1>2, DeliverTyped DEF Deliver
  <2>3. DOMAIN entries \subseteq DOMAIN entries' \cup Done'
    BY <1>0, <2>2 DEF Done
  <2> QED
    BY <1>1, <2>1, <2>2, <2>3, SaveKeepsDurable
<1>3. CASE WriteDone
  <2>1. /\ 1 \in DOMAIN writes
        /\ writes' = SubSeq(writes, 1, 0) \o SubSeq(writes, 2, Len(writes))
        /\ entries' = entries
        /\ \/ disk' = writes[1].entries /\ written' = written \cup DOMAIN disk'
           \/ disk' = disk /\ written' = written
        /\ sent' = sent /\ settled' = settled
    BY <1>3 DEF WriteDone, Landing
  <2>2. Done' = Done
    BY <2>1 DEF Done
  <2>3. /\ Len(writes) \in Nat \ {0} /\ DOMAIN writes = 1..Len(writes)
        /\ DOMAIN writes' = 1..(Len(writes) - 1)
        /\ \A i \in DOMAIN writes' : writes'[i] = writes[i + 1]
    BY <1>0, <2>1, LandingShifts DEF Typed
  <2>4. /\ DOMAIN disk \subseteq DOMAIN disk' \cup Done
        /\ DOMAIN disk' \subseteq DOMAIN entries \cup Done
        /\ written' \subseteq DOMAIN disk' \cup Done
    BY <1>0, <2>1 DEF Durable
  <2>5. ASSUME NEW i \in DOMAIN writes'
        PROVE  /\ i + 1 \in DOMAIN writes /\ 1 < i + 1
               /\ DOMAIN disk' \subseteq DOMAIN writes[i + 1].entries \cup Done
               /\ DOMAIN writes[i + 1].entries \subseteq DOMAIN entries \cup Done
    <3>1. i + 1 \in DOMAIN writes /\ 1 < i + 1
      BY <2>3
    <3> QED
      BY <1>0, <2>1, <3>1 DEF Durable
  <2>6. ASSUME NEW i \in DOMAIN writes', NEW j \in DOMAIN writes', i < j
        PROVE  DOMAIN writes'[i].entries \subseteq DOMAIN writes'[j].entries \cup Done
    <3>1. i + 1 < j + 1
      BY <2>3, <2>6
    <3> QED
      BY <1>0, <2>3, <2>5, <3>1 DEF Durable
  <2> QED
    BY <2>1, <2>2, <2>3, <2>4, <2>5, <2>6 DEF Durable
<1>4. ASSUME NEW p \in Pings, NEW by \in Senders, SendOk(p, by) \/ SendFailed(p, by)
      PROVE  Durable'
  <2>1. /\ entries' \in Entries
        /\ DOMAIN entries \ {p} \subseteq DOMAIN entries'
        /\ \E a \in Awaiters : Persist(writes, a)
    BY <1>0, <1>4, SendTyped DEF Awaiters
  <2>2. disk' = disk /\ written' = written
    BY <1>4 DEF SendOk, SendFailed, EndAttempt
  <2>3. settled \subseteq settled' /\ (p \in DOMAIN entries \ DOMAIN entries' => p \in Done')
    <3>1. CASE SendOk(p, by)
      <4>1. settled' = settled /\ sent' = [sent EXCEPT ![p] = @ \cup {crashes}]
        BY <3>1 DEF SendOk
      <4> QED
        BY <1>0, <4>1 DEF Done, HistoryTyped
    <3>2. CASE SendFailed(p, by)
      BY <1>0, <3>2, CountFailureTyped DEF SendFailed, Done
    <3> QED
      BY <1>4, <3>1, <3>2
  <2> QED
    BY <1>1, <2>1, <2>2, <2>3, SaveKeepsDurable
<1>5. CASE RetryFires
  <2>1. /\ entries' \in Entries
        /\ settled \subseteq settled'
        /\ DOMAIN entries \subseteq DOMAIN entries' \cup settled'
    BY <1>0, <1>5, ReplayTyped, ReplaySettles DEF RetryFires, Typed
  <2>2. /\ disk' = disk /\ written' = written
        /\ writes' = writes \/ \E a \in Awaiters : Persist(writes, a)
    BY <1>5 DEF RetryFires, Replay, Awaiters
  <2>3. DOMAIN entries \subseteq DOMAIN entries' \cup Done'
    BY <1>0, <2>1 DEF Done
  <2> QED
    BY <1>1, <2>1, <2>2, <2>3, SaveKeepsDurable
<1>6. CASE Restart
  <2>1. /\ disk' \in Entries
        /\ DOMAIN disk \subseteq DOMAIN disk' \cup Done
    <3>1. disk' = disk \/ (1 \in DOMAIN writes /\ disk' = writes[1].entries)
      BY <1>6 DEF Restart, Landing
    <3> QED
      BY <1>0, <3>1, SaveType DEF Typed, Durable
  <2>2. /\ settled \subseteq settled'
        /\ DOMAIN disk' \subseteq DOMAIN entries' \cup settled'
        /\ DOMAIN entries' \subseteq DOMAIN disk'
        /\ entries' \in Entries
    BY <1>6, <2>1, ReplayTyped, ReplaySettles, NothingYet DEF Restart
  <2>3. /\ written' = written \cup DOMAIN disk'
        /\ writes' = <<>> \/ \E a \in Awaiters : Persist(<<>>, a)
    BY <1>6 DEF Restart, Replay, Awaiters
  <2>4. /\ written' \subseteq DOMAIN disk' \cup Done'
        /\ DOMAIN disk' \subseteq DOMAIN entries' \cup Done'
    <3>1. DOMAIN disk' \subseteq Pings
      BY <2>1, EntriesDef
    <3> QED
      BY <1>0, <1>1, <2>1, <2>2, <2>3, <3>1 DEF Durable, Done
  <2>5. /\ DOMAIN writes' \subseteq {1}
        /\ \A i \in DOMAIN writes' : writes'[i].entries = entries'
    <3>1. CASE writes' = <<>>
      BY <3>1, NothingYet
    <3>2. ASSUME NEW a \in Awaiters, Persist(<<>>, a)
          PROVE  DOMAIN writes' = {1} /\ writes'[1].entries = entries'
      <4>1. <<>> \in Seq(Saves) /\ Len(<<>>) = 0
        BY NothingYet
      <4>2. DOMAIN writes' = 1..(0 + 1) /\ writes'[0 + 1].entries = entries'
        BY <2>2, <3>2, <4>1, PersistAppends
      <4> QED
        BY <4>2
    <3> QED
      BY <2>3, <3>1, <3>2
  <2> QED
    BY <2>4, <2>5 DEF Durable
<1>7. CASE Age \/ UNCHANGED vars
  BY <1>0, <1>7 DEF Age, vars, Durable, Done
<1> QED
  BY <1>2, <1>3, <1>4, <1>5, <1>6, <1>7 DEF Next, SendDone

\* A ping that has reached the file stays there until it was sent or given
\* up (persist, writeJsonAtomic and load): no order of saves, no refused save
\* and no restart loses it.
THEOREM Saved == Spec => []SavedUntilSettled
<1>1. Init => SavedInv
  BY TypedInit, NothingYet DEF Init, SavedInv, HistoryTyped, Durable
<1>2. SavedInv /\ [Next]_vars => SavedInv'
  BY TypedStep, HistoryTypedStep, DurableStep DEF SavedInv
<1>3. SavedInv => SavedUntilSettled
  BY DEF SavedInv, Durable, Done, SavedUntilSettled
<1> QED
  BY <1>1, <1>2, <1>3, PTL DEF Spec

-----------------------------------------------------------------------------
(* Replays do not overlap *)

ReplaySaves(queue) == {i \in DOMAIN queue : queue[i].awaiter = <<"replay">>}
ReplaySends(sends) == {p \in Pings : <<p, "replay">> \in sends}

NoneAwaited(queue, sends) == ReplaySaves(queue) = {} /\ ReplaySends(sends) = {}
OneAwaited(queue, sends) ==
  /\ ReplaySaves(queue) = {} \/ ReplaySends(sends) = {}
  /\ \A i, j \in ReplaySaves(queue) : i = j
  /\ \A p, q \in ReplaySends(sends) : p = q

\* OneReplay of an explicit memory.
Single(queue, sends, ticker, running) ==
  /\ ticker => ~running
  /\ ~running => NoneAwaited(queue, sends)
  /\ OneAwaited(queue, sends)

LEMMA OneReplayMeans ==
  /\ Single(writes, sending, armed, replaying) => OneReplay
  /\ OneReplay => Single(writes, sending, armed, replaying)
<1> DEFINE saves == ReplaySaves(writes)
           sends == ReplaySends(sending)
<1>1. ReplayAwaits = {<<"save", i>> : i \in saves} \cup {<<"send", p>> : p \in sends}
  BY DEF ReplayAwaits, ReplaySaves, ReplaySends
<1> HIDE DEF saves, sends
<1>2. ReplayAwaits = {} <=> saves = {} /\ sends = {}
  BY <1>1
<1>3. (\A x, y \in ReplayAwaits : x = y) <=>
        /\ saves = {} \/ sends = {}
        /\ \A i, j \in saves : i = j
        /\ \A p, q \in sends : p = q
  <2>1. \A i, p : <<"save", i>> # <<"send", p>>
    OBVIOUS
  <2>2. \A i, j : <<"save", i>> = <<"save", j>> => i = j
    OBVIOUS
  <2>3. \A p, q : <<"send", p>> = <<"send", q>> => p = q
    OBVIOUS
  <2>4. ASSUME \A x, y \in ReplayAwaits : x = y
        PROVE  /\ saves = {} \/ sends = {}
               /\ \A i, j \in saves : i = j
               /\ \A p, q \in sends : p = q
    <3>1. \A i \in saves : <<"save", i>> \in ReplayAwaits
      BY <1>1
    <3>2. \A p \in sends : <<"send", p>> \in ReplayAwaits
      BY <1>1
    <3>3. \A i \in saves, p \in sends : FALSE
      BY <2>1, <2>4, <3>1, <3>2, Zenon
    <3>4. \A i, j \in saves : i = j
      BY <2>2, <2>4, <3>1, Zenon
    <3>5. \A p, q \in sends : p = q
      BY <2>3, <2>4, <3>2, Zenon
    <3> QED
      BY <3>3, <3>4, <3>5
  <2>5. ASSUME /\ saves = {} \/ sends = {}
               /\ \A i, j \in saves : i = j
               /\ \A p, q \in sends : p = q
        PROVE  \A x, y \in ReplayAwaits : x = y
    BY <1>1, <2>5
  <2> QED
    BY <2>4, <2>5
<1> QED
  BY <1>2, <1>3, Zenon DEF OneReplay, Single, NoneAwaited, OneAwaited, saves, sends

LEMMA OneReplayPrimed ==
  Single(writes, sending, armed, replaying)' => OneReplay'
BY OneReplayMeans, PTL

\* A save that nobody of the replay awaits changes nothing.
LEMMA PersistReplaySaves ==
  ASSUME NEW queue \in Seq(Saves), NEW a \in Awaiters, entries' \in Entries,
         Persist(queue, a)
  PROVE  ReplaySaves(writes') =
           ReplaySaves(queue) \cup
             (IF a = <<"replay">> THEN {Len(queue) + 1} ELSE {})
<1>1. /\ DOMAIN queue = 1..Len(queue) /\ Len(queue) \in Nat
      /\ DOMAIN writes' = 1..(Len(queue) + 1)
  BY PersistAppends
<1>2. \A i \in 1..Len(queue) : writes'[i] = queue[i]
  BY PersistAppends
<1>3. writes'[Len(queue) + 1].awaiter = a
  BY PersistAppends
<1>4. \A i \in 1..(Len(queue) + 1) : i \in 1..Len(queue) \/ i = Len(queue) + 1
  BY <1>1
<1>5. ASSUME NEW i
      PROVE  i \in ReplaySaves(writes') <=>
               \/ i \in ReplaySaves(queue)
               \/ a = <<"replay">> /\ i = Len(queue) + 1
  <2>1. i \in ReplaySaves(writes') <=>
          i \in 1..(Len(queue) + 1) /\ writes'[i].awaiter = <<"replay">>
    BY <1>1 DEF ReplaySaves
  <2>2. i \in ReplaySaves(queue) <=>
          i \in 1..Len(queue) /\ queue[i].awaiter = <<"replay">>
    BY <1>1 DEF ReplaySaves
  <2>3. i \in 1..Len(queue) => i \in 1..(Len(queue) + 1) /\ i # Len(queue) + 1
    BY <1>1
  <2>4. Len(queue) + 1 \in 1..(Len(queue) + 1)
    BY <1>1
  <2> QED
    BY <1>2, <1>3, <1>4, <2>1, <2>2, <2>3, <2>4, Zenon
<1> QED
  BY <1>5

LEMMA LandingReplaySaves ==
  ASSUME NEW queue \in Seq(Saves), 1 \in DOMAIN queue,
         NEW rest, rest = SubSeq(queue, 1, 0) \o SubSeq(queue, 2, Len(queue))
  PROVE  /\ ReplaySaves(rest) = {i \in DOMAIN rest : i + 1 \in ReplaySaves(queue)}
         /\ DOMAIN rest \subseteq Nat \ {0} /\ DOMAIN queue \subseteq Nat
<1>1. /\ Len(queue) \in Nat \ {0} /\ DOMAIN queue = 1..Len(queue)
      /\ DOMAIN rest = 1..(Len(queue) - 1)
  BY LandingShifts
<1>2. \A i \in DOMAIN rest : rest[i] = queue[i + 1]
  BY LandingShifts
<1> QED
  BY <1>1, <1>2 DEF ReplaySaves

\* A replay that begins or goes on awaits one thing, and disarms the timer.
LEMMA ReplayOnSingle ==
  ASSUME NEW plan, NEW stored \in Entries, NEW attempts, NEW flying, NEW ticker, NEW queue,
         NoneAwaited(queue, attempts), ~ticker,
         ReplayOn(plan, stored, attempts, flying, ticker)
  PROVE  Single(queue, sending', armed', replaying')
<1>1. CASE /\ sending' = attempts /\ replaying' = FALSE
  BY <1>1 DEF Single, NoneAwaited, OneAwaited
<1>2. ASSUME NEW p \in Pings, sending' = attempts \cup {<<p, "replay">>},
             replaying' = TRUE, armed' = ticker
      PROVE  Single(queue, sending', armed', replaying')
  <2>1. ReplaySends(sending') = {p}
    BY <1>2 DEF NoneAwaited, ReplaySends
  <2> QED
    BY <1>2, <2>1 DEF Single, NoneAwaited, OneAwaited
<1>3. Idle(plan, stored, flying) \subseteq Pings
  BY EntriesDef DEF Idle
<1> QED
  BY <1>1, <1>2, <1>3 DEF ReplayOn, Attempt

LEMMA ReplaySingle ==
  ASSUME NEW stored \in Entries, NEW attempts, NEW flying, NEW failures,
         NEW queue \in Seq(Saves), NoneAwaited(queue, attempts),
         Replay(stored, attempts, flying, failures, queue)
  PROVE  Single(writes, sending, armed, replaying)'
<1>1. CASE ReplayOn(DOMAIN stored, stored, attempts, flying, FALSE) /\ writes' = queue
  BY <1>1, ReplayOnSingle
<1>2. CASE /\ Persist(queue, <<"replay">>)
           /\ replaying' = TRUE /\ armed' = FALSE /\ sending' = attempts
  <2>1. entries' \in Entries /\ <<"replay">> \in Awaiters
    BY ReplayTyped DEF Awaiters
  <2>2. ReplaySaves(writes') = {Len(queue) + 1}
    BY <1>2, <2>1, PersistReplaySaves DEF NoneAwaited
  <2> QED
    BY <1>2, <2>2 DEF Single, NoneAwaited, OneAwaited
<1> QED
  BY <1>1, <1>2 DEF Replay

\* The end of an attempt hands what is awaited from the send to the save.
LEMMA EndAttemptSingle ==
  ASSUME Typed, entries' \in Entries, NEW p \in Pings, NEW by \in Senders,
         Single(writes, sending, armed, replaying), EndAttempt(p, by)
  PROVE  /\ ~replaying => NoneAwaited(writes', sending')
         /\ OneAwaited(writes', sending')
<1> DEFINE a == IF by = "replay" THEN <<"replay">> ELSE <<"nobody">>
<1>1. a \in Awaiters /\ Persist(writes, a) /\ (a = <<"replay">> <=> by = "replay")
  BY DEF EndAttempt, Awaiters, Senders
<1> HIDE DEF a
<1>2. ReplaySaves(writes') = ReplaySaves(writes) \cup
                               (IF by = "replay" THEN {Len(writes) + 1} ELSE {})
  BY <1>1, PersistReplaySaves DEF Typed
<1>3. CASE by = "replay"
  <2>1. p \in ReplaySends(sending)
    BY <1>3 DEF EndAttempt, ReplaySends
  <2>2. ReplaySends(sending') = {} /\ ReplaySaves(writes) = {} /\ replaying
    BY <1>3, <2>1 DEF Single, NoneAwaited, OneAwaited, EndAttempt, ReplaySends
  <2> QED
    BY <1>2, <1>3, <2>2 DEF OneAwaited
<1>4. CASE by # "replay"
  <2>1. ReplaySaves(writes') = ReplaySaves(writes)
        /\ ReplaySends(sending') \subseteq ReplaySends(sending)
    BY <1>2, <1>4 DEF EndAttempt, ReplaySends
  <2> QED
    BY <2>1 DEF Single, NoneAwaited, OneAwaited
<1> QED
  BY <1>3, <1>4

LEMMA OneReplayStep == Typed /\ OneReplay /\ [Next]_vars => OneReplay'
<1> SUFFICES ASSUME Typed, OneReplay, [Next]_vars
             PROVE  Single(writes, sending, armed, replaying)'
  BY OneReplayPrimed
<1>0. Single(writes, sending, armed, replaying)
  BY OneReplayMeans
<1>1. CASE Deliver
  <2>1. entries' \in Entries /\ <<"deliver", arrived'>> \in Awaiters
    BY <1>1, DeliverTyped DEF Awaiters
  <2>2. /\ Persist(writes, <<"deliver", arrived'>>)
        /\ UNCHANGED <<sending, armed, replaying>>
    BY <1>1 DEF Deliver
  <2>3. <<"deliver", arrived'>> # <<"replay">>
    OBVIOUS
  <2>4. ReplaySaves(writes') = ReplaySaves(writes)
    BY <2>1, <2>2, <2>3, PersistReplaySaves DEF Typed
  <2> QED
    BY <1>0, <2>2, <2>4 DEF Single, NoneAwaited, OneAwaited
<1>2. CASE WriteDone
  <2>1. /\ 1 \in DOMAIN writes
        /\ writes' = SubSeq(writes, 1, 0) \o SubSeq(writes, 2, Len(writes))
    BY <1>2 DEF WriteDone, Landing
  <2>2. /\ ReplaySaves(writes') = {i \in DOMAIN writes' : i + 1 \in ReplaySaves(writes)}
        /\ DOMAIN writes' \subseteq Nat \ {0} /\ DOMAIN writes \subseteq Nat
    BY <2>1, LandingReplaySaves DEF Typed
  <2>3. writes[1].awaiter \in Awaiters
    BY <2>1, SaveType DEF Typed
  <2>4. /\ NoneAwaited(writes, sending) => ReplaySaves(writes') = {}
        /\ \A i, j \in ReplaySaves(writes') : i = j
        /\ ReplaySaves(writes) = {} => ReplaySaves(writes') = {}
        /\ 1 \in ReplaySaves(writes) => ReplaySaves(writes') = {}
    BY <1>0, <2>2 DEF Single, NoneAwaited, OneAwaited
  <2>5. CASE /\ sending' = sending \cup {<<writes[1].awaiter[2], "deliver">>}
             /\ UNCHANGED <<armed, replaying>>
    <3>1. ReplaySends(sending') = ReplaySends(sending)
      BY <2>5 DEF ReplaySends
    <3> QED
      BY <1>0, <2>4, <2>5, <3>1 DEF Single, NoneAwaited, OneAwaited
  <2>6. CASE /\ writes[1].awaiter[1] = "replay"
             /\ ReplayOn(todo, entries, sending, inFlight, armed)
    <3>1. writes[1].awaiter = <<"replay">>
      BY <2>3, <2>6 DEF Awaiters
    <3>2. 1 \in ReplaySaves(writes)
      BY <2>1, <3>1 DEF ReplaySaves
    <3>3. NoneAwaited(writes', sending) /\ ~armed
      BY <1>0, <2>4, <3>2 DEF Single, NoneAwaited, OneAwaited
    <3> QED
      BY <2>6, <3>3, ReplayOnSingle DEF Typed
  <2>7. CASE UNCHANGED <<sending, armed, replaying>>
    BY <1>0, <2>4, <2>7 DEF Single, NoneAwaited, OneAwaited
  <2> QED
    BY <1>2, <2>5, <2>6, <2>7 DEF WriteDone, Landing, Attempt
<1>3. ASSUME NEW p \in Pings, NEW by \in Senders, SendOk(p, by) \/ SendFailed(p, by)
      PROVE  Single(writes, sending, armed, replaying)'
  <2>1. entries' \in Entries /\ EndAttempt(p, by)
    BY <1>3, SendTyped DEF SendOk, SendFailed
  <2>2. /\ ~replaying => NoneAwaited(writes', sending')
        /\ OneAwaited(writes', sending')
    BY <1>0, <2>1, EndAttemptSingle
  <2>3. replaying' = replaying
    BY <2>1 DEF EndAttempt
  <2>4. armed' => ~replaying
    <3>1. CASE armed' = armed
      BY <1>0, <3>1, Zenon DEF Single
    <3>2. CASE armed' = (armed \/ Arms(p))
      BY <1>0, <3>2, Zenon DEF Single, Arms
    <3>3. SendOk(p, by) => armed' = armed
      BY DEF SendOk
    <3>4. SendFailed(p, by) => armed' = (armed \/ Arms(p))
      BY Zenon DEF SendFailed
    <3> QED
      BY <1>3, <3>1, <3>2, <3>3, <3>4, Zenon
  <2> QED
    BY <2>2, <2>3, <2>4, Zenon DEF Single
<1>4. CASE RetryFires
  <2>1. NoneAwaited(writes, sending)
    BY <1>0, <1>4, Zenon DEF RetryFires, Single
  <2> QED
    BY <1>4, <2>1, ReplaySingle DEF RetryFires, Typed
<1>5. CASE Restart
  <2>1. disk' \in Entries
    BY TypedStep DEF Typed
  <2>2. NoneAwaited(<<>>, {}) /\ <<>> \in Seq(Saves)
    BY NothingYet DEF NoneAwaited, ReplaySaves, ReplaySends
  <2> QED
    BY <1>5, <2>1, <2>2, ReplaySingle DEF Restart
<1>6. CASE Age \/ UNCHANGED vars
  BY <1>0, <1>6 DEF Age, vars
<1> QED
  BY <1>1, <1>2, <1>3, <1>4, <1>5, <1>6 DEF Next, SendDone

\* No replay begins while another runs (armRetry and replay): the timer is
\* not armed meanwhile, and the replay awaits one send or one save.
THEOREM ReplaysApart == Spec => []OneReplay
<1>1. Init => Typed /\ OneReplay
  <2>1. ASSUME Init PROVE Single(writes, sending, armed, replaying)
    BY <2>1, NothingYet DEF Init, Single, NoneAwaited, OneAwaited, ReplaySaves,
       ReplaySends
  <2> QED
    BY <2>1, TypedInit, OneReplayMeans
<1>2. Typed /\ OneReplay /\ [Next]_vars => (Typed /\ OneReplay)'
  BY TypedStep, OneReplayStep
<1> QED
  BY <1>1, <1>2, PTL DEF Spec

-----------------------------------------------------------------------------
(* One outage of the network never uses up a ping *)

\* No list of entries has more attempts of a ping than lives it failed in.
Paid(f, failures) == \A p \in DOMAIN f : f[p] <= Cardinality(failures[p])

\* What is not counted yet in this life comes from the earlier ones.
Lived ==
  /\ crashes \in Nat /\ failedIn \in [Pings -> SUBSET (0..crashes)]
  /\ Paid(entries, failedIn) /\ Paid(disk, failedIn)
  /\ \A i \in DOMAIN writes : Paid(writes[i].entries, failedIn)
  /\ \A p \in DOMAIN entries \ counted :
       entries[p] <= Cardinality(failedIn[p] \ {crashes})

LivesInv == Typed /\ Lived

\* One more life in which a ping failed, and the lives before this one.
LEMMA LivesCount ==
  ASSUME NEW n \in Nat, NEW S \in SUBSET (0..n)
  PROVE  /\ Cardinality(S) \in Nat /\ Cardinality(S \ {n}) \in Nat
         /\ Cardinality(S \ {n}) <= Cardinality(S)
         /\ Cardinality(S) <= Cardinality(S \cup {n})
         /\ Cardinality(S \cup {n}) = Cardinality(S \ {n}) + 1
<1>1. IsFiniteSet(0..n)
  BY FS_Interval
<1>2. IsFiniteSet(S)
  BY <1>1, FS_Subset
<1>3. IsFiniteSet(S \ {n}) /\ Cardinality(S \ {n}) <= Cardinality(S)
  BY <1>2, FS_Subset
<1>4. /\ Cardinality((S \ {n}) \cup {n}) = Cardinality(S \ {n}) + 1
      /\ (S \ {n}) \cup {n} = S \cup {n}
  BY <1>3, FS_AddElement
<1>5. IsFiniteSet(S \cup {n}) /\ Cardinality(S) <= Cardinality(S \cup {n})
  <2>1. IsFiniteSet(S \cup {n}) /\ S \in SUBSET (S \cup {n})
    BY <1>2, FS_AddElement
  <2> QED
    BY <2>1, FS_Subset
<1> QED
  BY <1>2, <1>3, <1>4, <1>5, FS_CardinalityType

\* What removeEntry leaves has the attempts it had.
LEMMA WithoutPaid ==
  ASSUME NEW f, NEW S, NEW failures, Paid(f, failures)
  PROVE  Paid(Without(f, S), failures)
BY DEF Paid, Without

\* A save of entries that are paid for.
LEMMA PersistPaid ==
  ASSUME NEW queue \in Seq(Saves), entries' \in Entries, NEW failures,
         \A i \in DOMAIN queue : Paid(queue[i].entries, failures),
         Paid(entries', failures),
         writes' = queue \/ \E a \in Awaiters : Persist(queue, a)
  PROVE  \A i \in DOMAIN writes' : Paid(writes'[i].entries, failures)
<1>1. ASSUME NEW a \in Awaiters, Persist(queue, a)
      PROVE  \A i \in DOMAIN writes' : Paid(writes'[i].entries, failures)
  <2>1. /\ Len(queue) \in Nat /\ DOMAIN queue = 1..Len(queue)
        /\ DOMAIN writes' = 1..(Len(queue) + 1)
        /\ \A i \in 1..Len(queue) : writes'[i] = queue[i]
        /\ writes'[Len(queue) + 1].entries = entries'
    BY <1>1, PersistAppends
  <2>2. \A i \in 1..(Len(queue) + 1) : i \in 1..Len(queue) \/ i = Len(queue) + 1
    BY <2>1
  <2> QED
    BY <2>1, <2>2
<1> QED
  BY <1>1

\* A step without a failure that keeps the attempts of what it keeps.
LEMMA KeepsLived ==
  ASSUME LivesInv, entries' \in Entries,
         UNCHANGED <<crashes, failedIn, disk>>,
         writes' = writes \/ \E a \in Awaiters : Persist(writes, a),
         \A p \in DOMAIN entries' : p \in DOMAIN entries /\ entries'[p] = entries[p],
         \A p \in DOMAIN entries' : p \in counted => p \in counted'
  PROVE  Lived'
<1>1. Paid(entries', failedIn)
  BY DEF LivesInv, Lived, Paid
<1>2. \A i \in DOMAIN writes' : Paid(writes'[i].entries, failedIn)
  BY <1>1, PersistPaid DEF LivesInv, Typed, Lived
<1> QED
  BY <1>1, <1>2 DEF LivesInv, Lived

LEMMA LivedStep == LivesInv /\ [Next]_vars => Lived'
<1> SUFFICES ASSUME LivesInv, [Next]_vars PROVE Lived'
  OBVIOUS
<1>0. /\ Typed /\ Lived
      /\ DOMAIN entries \subseteq Pings
      /\ entries \in [DOMAIN entries -> 0..(MaxAttempts - 1)]
  BY EntriesDef DEF LivesInv, Typed
<1>1. CASE Deliver
  <2>1. entries' \in Entries /\ <<"deliver", arrived'>> \in Awaiters /\ arrived' \in Pings
    BY <1>0, <1>1, DeliverTyped DEF Awaiters
  <2>2. /\ UNCHANGED <<crashes, failedIn, disk>>
        /\ \E a \in Awaiters : Persist(writes, a)
        /\ counted' = counted \cap DOMAIN entries'
    BY <1>1, <2>1 DEF Deliver, ForgetDeparted
  <2>3. \A p \in DOMAIN entries' :
          \/ p = arrived' /\ entries'[p] = 0
          \/ p \in DOMAIN entries /\ entries'[p] = entries[p]
    BY <1>1 DEF Deliver, Kept
  <2>4. DOMAIN entries' \subseteq Pings
    BY <2>1, EntriesDef
  <2>5. \A p \in Pings : /\ 0 <= Cardinality(failedIn[p])
                         /\ 0 <= Cardinality(failedIn[p] \ {crashes})
    <3>1. ASSUME NEW p \in Pings
          PROVE  /\ 0 <= Cardinality(failedIn[p])
                 /\ 0 <= Cardinality(failedIn[p] \ {crashes})
      <4>1. crashes \in Nat /\ failedIn[p] \in SUBSET (0..crashes)
        BY <1>0 DEF Lived
      <4>2. Cardinality(failedIn[p]) \in Nat /\ Cardinality(failedIn[p] \ {crashes}) \in Nat
        BY <4>1, LivesCount
      <4> QED
        BY <4>2
    <3> QED
      BY <3>1
  <2>6. Paid(entries', failedIn)
    BY <1>0, <2>3, <2>4, <2>5 DEF Lived, Paid
  <2>7. \A i \in DOMAIN writes' : Paid(writes'[i].entries, failedIn)
    BY <1>0, <2>1, <2>2, <2>6, PersistPaid DEF Typed, Lived
  <2>8. \A p \in DOMAIN entries' \ counted' :
          entries'[p] <= Cardinality(failedIn[p] \ {crashes})
    BY <1>0, <2>2, <2>3, <2>4, <2>5 DEF Lived
  <2> QED
    BY <1>0, <2>2, <2>6, <2>7, <2>8 DEF Lived
<1>2. CASE WriteDone
  <2>1. /\ 1 \in DOMAIN writes
        /\ writes' = SubSeq(writes, 1, 0) \o SubSeq(writes, 2, Len(writes))
        /\ disk' \in {disk, writes[1].entries}
        /\ UNCHANGED <<entries, counted, crashes, failedIn>>
    BY <1>2 DEF WriteDone, Landing
  <2>2. /\ Len(writes) \in Nat \ {0} /\ DOMAIN writes = 1..Len(writes)
        /\ DOMAIN writes' = 1..(Len(writes) - 1)
        /\ \A i \in DOMAIN writes' : writes'[i] = writes[i + 1]
    BY <1>0, <2>1, LandingShifts DEF Typed
  <2>3. \A i \in DOMAIN writes' : i + 1 \in DOMAIN writes
    BY <2>2
  <2> QED
    BY <1>0, <2>1, <2>2, <2>3 DEF Lived
<1>3. ASSUME NEW p \in Pings, NEW by \in Senders, SendOk(p, by)
      PROVE  Lived'
  <2>1. /\ entries' \in Entries /\ entries' = Without(entries, {p})
        /\ \E a \in Awaiters : Persist(writes, a)
    BY <1>0, <1>3, SendTyped DEF SendOk, Awaiters
  <2>2. /\ UNCHANGED <<crashes, failedIn, disk>>
        /\ counted' = counted \cap DOMAIN entries'
    BY <1>3 DEF SendOk, EndAttempt, ForgetDeparted
  <2>3. \A q \in DOMAIN entries' : q \in DOMAIN entries /\ entries'[q] = entries[q]
    BY <2>1 DEF Without
  <2> QED
    BY <2>1, <2>2, <2>3, KeepsLived
<1>4. ASSUME NEW p \in Pings, NEW by \in Senders, SendFailed(p, by)
      PROVE  Lived'
  <2>1. /\ entries' \in Entries
        /\ \E a \in Awaiters : Persist(writes, a)
    BY <1>0, <1>4, SendTyped DEF Awaiters
  <2>2. /\ UNCHANGED <<crashes, disk>> /\ CountFailure(p)
        /\ failedIn' = [failedIn EXCEPT ![p] = @ \cup {crashes}]
    BY <1>4 DEF SendFailed, EndAttempt
  <2>3. /\ failedIn' \in [Pings -> SUBSET (0..crashes)]
        /\ \A q \in Pings : Cardinality(failedIn[q]) \in Nat
                            /\ Cardinality(failedIn'[q]) \in Nat
                            /\ Cardinality(failedIn[q]) <= Cardinality(failedIn'[q])
        /\ \A q \in Pings \ {p} : failedIn'[q] = failedIn[q]
        /\ Cardinality(failedIn'[p]) = Cardinality(failedIn[p] \ {crashes}) + 1
        /\ Cardinality(failedIn[p] \ {crashes}) \in Nat
    <3>1. crashes \in Nat /\ failedIn \in [Pings -> SUBSET (0..crashes)]
      BY <1>0 DEF Lived
    <3>2. \A q \in Pings : failedIn[q] \in SUBSET (0..crashes)
      BY <3>1
    <3>3. /\ failedIn' \in [Pings -> SUBSET (0..crashes)]
          /\ failedIn'[p] = failedIn[p] \cup {crashes}
          /\ \A q \in Pings \ {p} : failedIn'[q] = failedIn[q]
      BY <2>2, <3>1
    <3>4. \A q \in Pings : failedIn'[q] \in SUBSET (0..crashes)
      BY <3>3
    <3>5. ASSUME NEW q \in Pings
          PROVE  Cardinality(failedIn[q]) \in Nat /\ Cardinality(failedIn'[q]) \in Nat
      BY <3>1, <3>2, <3>4, LivesCount
    <3>6. /\ Cardinality(failedIn[p]) <= Cardinality(failedIn[p] \cup {crashes})
          /\ Cardinality(failedIn[p] \cup {crashes}) = Cardinality(failedIn[p] \ {crashes}) + 1
          /\ Cardinality(failedIn[p] \ {crashes}) \in Nat
      BY <3>1, <3>2, LivesCount
    <3>7. ASSUME NEW q \in Pings
          PROVE  Cardinality(failedIn[q]) <= Cardinality(failedIn'[q])
      <4>1. CASE q = p
        BY <3>3, <3>6, <4>1
      <4>2. CASE q # p
        <5>1. failedIn'[q] = failedIn[q] /\ Cardinality(failedIn[q]) \in Nat
          BY <3>3, <3>5, <4>2
        <5> QED
          BY <5>1
      <4> QED
        BY <4>1, <4>2
    <3> QED
      BY <3>3, <3>5, <3>6, <3>7
  <2>4. ASSUME NEW f \in Entries, Paid(f, failedIn) PROVE Paid(f, failedIn')
    <3>1. DOMAIN f \subseteq Pings /\ f \in [DOMAIN f -> 0..(MaxAttempts - 1)]
      BY EntriesDef
    <3>2. \A q \in DOMAIN f : f[q] \in Int
      BY <3>1
    <3> QED
      BY <2>3, <2>4, <3>1, <3>2 DEF Paid
  <2>5. Paid(entries', failedIn') /\ \A q \in DOMAIN entries' \ counted' :
          entries'[q] <= Cardinality(failedIn[q] \ {crashes}) /\ q # p
    <3>1. CASE (p \in counted \/ p \notin DOMAIN entries)
               /\ UNCHANGED <<entries, counted>>
      BY <1>0, <2>4, <3>1 DEF Lived, Typed
    <3>2. CASE /\ p \notin counted /\ p \in DOMAIN entries
               /\ entries' = [entries EXCEPT ![p] = @ + 1]
               /\ counted' = counted \cup {p}
      <4>1. /\ DOMAIN entries' = DOMAIN entries /\ entries'[p] = entries[p] + 1
            /\ \A q \in DOMAIN entries \ {p} : entries'[q] = entries[q]
        BY <3>2
      <4>2. entries[p] <= Cardinality(failedIn[p] \ {crashes}) /\ entries[p] \in Int
        BY <1>0, <3>2 DEF Lived
      <4>3. entries'[p] <= Cardinality(failedIn'[p])
        BY <2>3, <4>1, <4>2
      <4>4. Paid(entries, failedIn')
        BY <1>0, <2>4 DEF Lived, Typed
      <4> QED
        BY <1>0, <3>2, <4>1, <4>3, <4>4 DEF Lived, Paid
    <3>3. CASE entries' = Without(entries, {p}) /\ counted' = counted
      <4>1. Paid(entries', failedIn')
        BY <1>0, <2>4, <3>3, WithoutPaid DEF Lived, Typed
      <4> QED
        BY <1>0, <3>3, <4>1 DEF Lived, Without
    <3> QED
      BY <2>2, <3>1, <3>2, <3>3 DEF CountFailure, Counted
  <2>6. Paid(disk', failedIn')
    BY <1>0, <2>2, <2>4 DEF Lived, Typed
  <2>7. \A i \in DOMAIN writes : Paid(writes[i].entries, failedIn')
    BY <1>0, <2>4, SaveType DEF Lived, Typed
  <2>8. \A i \in DOMAIN writes' : Paid(writes'[i].entries, failedIn')
    BY <1>0, <2>1, <2>5, <2>7, PersistPaid DEF Typed
  <2>9. \A q \in DOMAIN entries' \ counted' :
          entries'[q] <= Cardinality(failedIn'[q] \ {crashes})
    <3>1. DOMAIN entries' \subseteq Pings
      BY <2>1, EntriesDef
    <3> QED
      BY <2>3, <2>5, <3>1
  <2> QED
    BY <1>0, <2>2, <2>3, <2>5, <2>6, <2>8, <2>9 DEF Lived
<1>5. CASE RetryFires
  <2>1. /\ entries' \in Entries /\ entries' = Without(entries, Expired(entries))
        /\ counted' = counted \cap DOMAIN entries'
    BY <1>0, <1>5, ReplayTyped DEF RetryFires, Replay, Typed
  <2>2. /\ UNCHANGED <<crashes, failedIn, disk>>
        /\ writes' = writes \/ \E a \in Awaiters : Persist(writes, a)
    BY <1>5 DEF RetryFires, Replay, Awaiters
  <2>3. \A q \in DOMAIN entries' : q \in DOMAIN entries /\ entries'[q] = entries[q]
    BY <2>1 DEF Without
  <2> QED
    BY <2>1, <2>2, <2>3, KeepsLived
<1>6. CASE Restart
  <2>1. disk' \in Entries /\ Paid(disk', failedIn)
    <3>1. disk' = disk \/ (1 \in DOMAIN writes /\ disk' = writes[1].entries)
      BY <1>6 DEF Restart, Landing
    <3> QED
      BY <1>0, <3>1, SaveType DEF Typed, Lived
  <2>2. /\ crashes' = crashes + 1 /\ failedIn' = failedIn
        /\ entries' = Without(disk', Expired(disk'))
        /\ writes' = <<>> \/ \E a \in Awaiters : Persist(<<>>, a)
    BY <1>6 DEF Restart, Replay, Awaiters
  <2>3. entries' \in Entries /\ Paid(entries', failedIn)
    BY <2>1, <2>2, WithoutType, WithoutPaid
  <2>4. \A i \in DOMAIN writes' : Paid(writes'[i].entries, failedIn)
    BY <2>2, <2>3, NothingYet, PersistPaid
  <2>5. /\ crashes' \in Nat /\ failedIn' \in [Pings -> SUBSET (0..crashes')]
        /\ \A p \in Pings : failedIn[p] \ {crashes'} = failedIn[p]
    BY <1>0, <2>2 DEF Lived
  <2>6. DOMAIN entries' \subseteq Pings
    BY <2>3, EntriesDef
  <2> QED
    BY <2>1, <2>2, <2>3, <2>4, <2>5, <2>6 DEF Lived, Paid
<1>7. CASE Age \/ UNCHANGED vars
  BY <1>0, <1>7 DEF Age, vars, Lived
<1> QED
  BY <1>1, <1>2, <1>3, <1>4, <1>5, <1>6, <1>7 DEF Next, SendDone

\* A ping has no more attempts than there were lives of the server in which it
\* failed (countFailureOncePerProcess): no outage in one life uses it up.
THEOREM OutagesAreOne == Spec => []AttemptsAreLives
<1>1. Init => LivesInv
  <2> SUFFICES ASSUME Init PROVE Lived
    BY TypedInit DEF LivesInv
  <2> QED
    BY NothingYet DEF Init, Lived, Paid
<1>2. LivesInv /\ [Next]_vars => LivesInv'
  BY TypedStep, LivedStep DEF LivesInv
<1>3. LivesInv => AttemptsAreLives
  BY DEF LivesInv, Lived, Paid, AttemptsAreLives
<1> QED
  BY <1>1, <1>2, <1>3, PTL DEF Spec

-----------------------------------------------------------------------------
(* The queue never holds more than its limit *)

Small(f) == Cardinality(DOMAIN f) <= MaxEntries

SmallInv == /\ Small(entries) /\ Small(disk)
            /\ \A i \in DOMAIN writes : Small(writes[i].entries)

LEMMA PingsFinite ==
  ASSUME NEW stored \in SUBSET Pings
  PROVE  IsFiniteSet(stored) /\ Cardinality(stored) \in Nat
<1>1. IsFiniteSet(1..LastPing)
  BY FS_Interval
<1>2. IsFiniteSet(stored)
  BY <1>1, FS_Subset DEF Pings
<1> QED
  BY <1>2, FS_CardinalityType

\* What planEnqueue keeps: the newest, as many as the limit allows.
LEMMA KeptIsSmall ==
  ASSUME NEW stored \in SUBSET Pings
  PROVE  Cardinality(Kept(stored)) <= MaxEntries
<1> DEFINE kept == Kept(stored)
           Newer(p) == {q \in stored : q > p}
           rank == [p \in kept |-> Cardinality(Newer(p))]
<1>1. kept \subseteq stored /\ kept \in SUBSET Pings
  BY DEF Kept
<1>2. \A p \in kept : Newer(p) \in SUBSET Pings /\ Cardinality(Newer(p)) < MaxEntries
  BY DEF Kept
<1>3. ASSUME NEW p \in kept
      PROVE  IsFiniteSet(Newer(p)) /\ Cardinality(Newer(p)) \in 0..(MaxEntries - 1)
  <2>1. IsFiniteSet(Newer(p)) /\ Cardinality(Newer(p)) \in Nat
    BY <1>2, PingsFinite
  <2> QED
    BY <1>2, <2>1
<1>4. ASSUME NEW p \in kept, NEW r \in kept, p < r
      PROVE  Cardinality(Newer(p)) # Cardinality(Newer(r))
  <2>1. r \in stored /\ p \in Nat /\ r \in Nat /\ \A q \in stored : q \in Nat
    BY <1>1 DEF Pings
  <2>2. \A q \in stored : q > r => q > p
    BY <1>4, <2>1
  <2>3. r > p /\ ~(r > r)
    BY <1>4, <2>1
  <2>4. Newer(r) \in SUBSET Newer(p) /\ r \in Newer(p) /\ r \notin Newer(r)
    BY <2>1, <2>2, <2>3, Zenon
  <2> HIDE DEF Newer
  <2> QED
    BY <1>3, <2>4, FS_Subset
<1>5. \A p, r \in kept : p < r \/ r < p \/ p = r
  BY <1>1 DEF Pings
<1> HIDE DEF kept, Newer
<1>6. rank \in Injection(kept, 0..(MaxEntries - 1))
  <2>1. rank \in [kept -> 0..(MaxEntries - 1)]
    BY <1>3
  <2>2. \A p, r \in kept : rank[p] = rank[r] => p = r
    BY <1>4, <1>5
  <2> QED
    BY <2>1, <2>2 DEF Injection, IsInjective
<1>7. IsFiniteSet(0..(MaxEntries - 1)) /\ Cardinality(0..(MaxEntries - 1)) = MaxEntries
  BY FS_Interval
<1> HIDE DEF rank
<1> QED
  BY <1>6, <1>7, FS_Injection DEF kept

\* Entries that are left of a small list are one.
LEMMA LessIsSmall ==
  ASSUME NEW f \in Entries, NEW g \in Entries, Small(f), DOMAIN g \subseteq DOMAIN f
  PROVE  Small(g)
<1>1. DOMAIN f \in SUBSET Pings /\ DOMAIN g \in SUBSET DOMAIN f
  BY EntriesDef
<1>2. /\ IsFiniteSet(DOMAIN f) /\ Cardinality(DOMAIN f) \in Nat
      /\ DOMAIN g \in SUBSET Pings
  BY <1>1, PingsFinite
<1>3. Cardinality(DOMAIN g) <= Cardinality(DOMAIN f)
  BY <1>1, <1>2, FS_Subset
<1>4. Cardinality(DOMAIN g) \in Nat
  BY <1>2, PingsFinite
<1> QED
  BY <1>2, <1>3, <1>4 DEF Small

\* A save of a small list.
LEMMA PersistSmall ==
  ASSUME NEW queue \in Seq(Saves), entries' \in Entries,
         \A i \in DOMAIN queue : Small(queue[i].entries),
         Small(entries'),
         writes' = queue \/ \E a \in Awaiters : Persist(queue, a)
  PROVE  \A i \in DOMAIN writes' : Small(writes'[i].entries)
<1>1. ASSUME NEW a \in Awaiters, Persist(queue, a)
      PROVE  \A i \in DOMAIN writes' : Small(writes'[i].entries)
  <2>1. /\ Len(queue) \in Nat /\ DOMAIN queue = 1..Len(queue)
        /\ DOMAIN writes' = 1..(Len(queue) + 1)
        /\ \A i \in 1..Len(queue) : writes'[i] = queue[i]
        /\ writes'[Len(queue) + 1].entries = entries'
    BY <1>1, PersistAppends
  <2>2. \A i \in 1..(Len(queue) + 1) : i \in 1..Len(queue) \/ i = Len(queue) + 1
    BY <2>1
  <2> QED
    BY <2>1, <2>2
<1> QED
  BY <1>1

\* A step that leaves the file alone and adds no ping.
LEMMA KeepsSmall ==
  ASSUME Typed, SmallInv, entries' \in Entries, disk' = disk,
         DOMAIN entries' \subseteq DOMAIN entries,
         writes' = writes \/ \E a \in Awaiters : Persist(writes, a)
  PROVE  SmallInv'
<1>1. Small(entries')
  BY LessIsSmall DEF Typed, SmallInv
<1>2. \A i \in DOMAIN writes' : Small(writes'[i].entries)
  BY <1>1, PersistSmall DEF Typed, SmallInv
<1> QED
  BY <1>1, <1>2 DEF SmallInv, Small

LEMMA SmallStep == Typed /\ SmallInv /\ [Next]_vars => SmallInv'
<1> SUFFICES ASSUME Typed, SmallInv, [Next]_vars PROVE SmallInv'
  OBVIOUS
<1>1. CASE Deliver
  <2>1. /\ entries' \in Entries /\ <<"deliver", arrived'>> \in Awaiters
        /\ arrived' \in Pings
        /\ DOMAIN entries' = Kept(DOMAIN entries \cup {arrived'})
    BY <1>1, DeliverTyped DEF Awaiters
  <2>2. DOMAIN entries \cup {arrived'} \in SUBSET Pings
    BY <2>1, EntriesDef DEF Typed
  <2>3. Small(entries')
    BY <2>1, <2>2, KeptIsSmall DEF Small
  <2>4. disk' = disk /\ \E a \in Awaiters : Persist(writes, a)
    BY <1>1, <2>1 DEF Deliver
  <2>5. \A i \in DOMAIN writes' : Small(writes'[i].entries)
    BY <2>1, <2>3, <2>4, PersistSmall DEF Typed, SmallInv
  <2> QED
    BY <2>3, <2>4, <2>5 DEF SmallInv, Small
<1>2. CASE WriteDone
  <2>1. /\ 1 \in DOMAIN writes
        /\ writes' = SubSeq(writes, 1, 0) \o SubSeq(writes, 2, Len(writes))
        /\ disk' \in {disk, writes[1].entries}
        /\ entries' = entries
    BY <1>2 DEF WriteDone, Landing
  <2>2. /\ Len(writes) \in Nat \ {0} /\ DOMAIN writes = 1..Len(writes)
        /\ DOMAIN writes' = 1..(Len(writes) - 1)
        /\ \A i \in DOMAIN writes' : writes'[i] = writes[i + 1]
    BY <2>1, LandingShifts DEF Typed
  <2>3. \A i \in DOMAIN writes' : i + 1 \in DOMAIN writes
    BY <2>2
  <2> QED
    BY <2>1, <2>2, <2>3 DEF SmallInv, Small
<1>3. ASSUME NEW p \in Pings, NEW by \in Senders, SendOk(p, by) \/ SendFailed(p, by)
      PROVE  SmallInv'
  <2>1. /\ entries' \in Entries /\ DOMAIN entries' \subseteq DOMAIN entries
        /\ \E a \in Awaiters : Persist(writes, a)
    BY <1>3, SendTyped DEF Awaiters
  <2>2. disk' = disk
    BY <1>3 DEF SendOk, SendFailed, EndAttempt
  <2> QED
    BY <2>1, <2>2, KeepsSmall
<1>4. CASE RetryFires
  <2>1. entries' \in Entries /\ DOMAIN entries' \subseteq DOMAIN entries
    BY <1>4, ReplayTyped DEF RetryFires, Typed
  <2>2. disk' = disk /\ (writes' = writes \/ \E a \in Awaiters : Persist(writes, a))
    BY <1>4 DEF RetryFires, Replay, Awaiters
  <2> QED
    BY <2>1, <2>2, KeepsSmall
<1>5. CASE Restart
  <2>1. disk' \in Entries /\ Small(disk')
    <3>1. disk' = disk \/ (1 \in DOMAIN writes /\ disk' = writes[1].entries)
      BY <1>5 DEF Restart, Landing
    <3> QED
      BY <3>1, SaveType DEF Typed, SmallInv
  <2>2. /\ entries' \in Entries /\ DOMAIN entries' \subseteq DOMAIN disk'
        /\ writes' = <<>> \/ \E a \in Awaiters : Persist(<<>>, a)
    BY <1>5, <2>1, ReplayTyped, NothingYet DEF Restart, Replay, Awaiters
  <2>3. Small(entries')
    BY <2>1, <2>2, LessIsSmall
  <2>4. \A i \in DOMAIN writes' : Small(writes'[i].entries)
    BY <2>2, <2>3, NothingYet, PersistSmall
  <2> QED
    BY <2>1, <2>3, <2>4 DEF SmallInv, Small
<1>6. CASE Age \/ UNCHANGED vars
  BY <1>6 DEF Age, vars, SmallInv, Small
<1> QED
  BY <1>1, <1>2, <1>3, <1>4, <1>5, <1>6 DEF Next, SendDone

-----------------------------------------------------------------------------
(* The type invariant *)

Sets == /\ sending \subseteq Pings \X Senders
        /\ inFlight \subseteq Pings /\ todo \subseteq Pings
        /\ counted \subseteq DOMAIN entries
        /\ old \subseteq Pings /\ settled \subseteq Pings /\ written \subseteq Pings

Switches == armed \in BOOLEAN /\ replaying \in BOOLEAN

Ages == slow \in 0..Len(writes)

Lives == /\ crashes \in 0..MaxCrashes
         /\ sent \in [Pings -> SUBSET (0..MaxCrashes)]
         /\ failedIn \in [Pings -> SUBSET (0..MaxCrashes)]

TypeInv == Typed /\ SmallInv /\ Sets /\ Switches /\ Ages /\ Lives

\* What a replay goes on with is a set of pings.
LEMMA ReplayOnSets ==
  ASSUME NEW plan \in SUBSET Pings, NEW stored, NEW flying \in SUBSET Pings,
         NEW attempts \in SUBSET (Pings \X Senders), NEW ticker,
         ReplayOn(plan, stored, attempts, flying, ticker)
  PROVE  sending' \subseteq Pings \X Senders /\ inFlight' \subseteq Pings
         /\ todo' \subseteq Pings
<1>1. ASSUME NEW p \in Idle(plan, stored, flying), Attempt(p, "replay", attempts, flying)
      PROVE  sending' \subseteq Pings \X Senders /\ inFlight' \subseteq Pings
  BY <1>1 DEF Idle, Attempt, Senders
<1> QED
  BY <1>1 DEF ReplayOn

LEMMA ReplaySets ==
  ASSUME NEW stored \in Entries, NEW flying \in SUBSET Pings,
         NEW attempts \in SUBSET (Pings \X Senders), NEW failures, NEW queue,
         settled \subseteq Pings,
         Replay(stored, attempts, flying, failures, queue)
  PROVE  /\ sending' \subseteq Pings \X Senders /\ inFlight' \subseteq Pings
         /\ todo' \subseteq Pings /\ settled' \subseteq Pings
         /\ counted' \subseteq DOMAIN entries'
<1>1. DOMAIN stored \in SUBSET Pings /\ DOMAIN entries' \subseteq DOMAIN stored
  BY EntriesDef, WithoutType DEF Replay
<1>2. settled' \subseteq Pings /\ counted' \subseteq DOMAIN entries'
  BY <1>1 DEF Replay, Expired
<1>3. CASE ReplayOn(DOMAIN stored, stored, attempts, flying, FALSE)
  BY <1>1, <1>2, <1>3, ReplayOnSets
<1>4. CASE todo' = DOMAIN entries' /\ sending' = attempts /\ inFlight' = flying
  BY <1>1, <1>2, <1>4
<1> QED
  BY <1>3, <1>4 DEF Replay

LEMMA SetsStep == Typed /\ Sets /\ [Next]_vars => Sets'
<1> SUFFICES ASSUME Typed, Sets, [Next]_vars PROVE Sets'
  OBVIOUS
<1>1. /\ DOMAIN entries \subseteq Pings /\ DOMAIN disk \subseteq Pings
      /\ DOMAIN entries' \subseteq Pings /\ DOMAIN disk' \subseteq Pings
  BY TypedStep, EntriesDef DEF Typed
<1>2. CASE Deliver
  <2>1. arrived' \in Pings
    BY <1>2, DeliverTyped
  <2> QED
    BY <1>1, <1>2, <2>1 DEF Deliver, ForgetDeparted, Sets
<1>3. CASE WriteDone
  <2>1. UNCHANGED <<entries, counted, old, settled>> /\ written' \subseteq Pings
    BY <1>1, <1>3 DEF WriteDone, Sets
  <2>2. ASSUME 1 \in DOMAIN writes, writes[1].awaiter[1] = "deliver"
        PROVE  writes[1].awaiter[2] \in Pings
    <3>1. writes[1].awaiter \in Awaiters
      BY <2>2, SaveType DEF Typed
    <3> QED
      BY <2>2, <3>1 DEF Awaiters
  <2>3. /\ sending' \subseteq Pings \X Senders /\ inFlight' \subseteq Pings
        /\ todo' \subseteq Pings
    <3>1. CASE /\ 1 \in DOMAIN writes /\ writes[1].awaiter[1] = "deliver"
               /\ Attempt(writes[1].awaiter[2], "deliver", sending, inFlight)
               /\ UNCHANGED todo
      BY <2>2, <3>1 DEF Attempt, Senders, Sets
    <3>2. CASE ReplayOn(todo, entries, sending, inFlight, armed)
      BY <3>2, ReplayOnSets DEF Sets
    <3>3. CASE UNCHANGED <<sending, inFlight, todo>>
      BY <3>3 DEF Sets
    <3> QED
      BY <1>3, <3>1, <3>2, <3>3 DEF WriteDone, Landing
  <2> QED
    BY <2>1, <2>3 DEF Sets
<1>4. ASSUME NEW p \in Pings, NEW by \in Senders, SendOk(p, by) \/ SendFailed(p, by)
      PROVE  Sets'
  <2>1. /\ sending' \subseteq Pings \X Senders /\ inFlight' \subseteq Pings
        /\ UNCHANGED <<todo, old, written>>
    BY <1>4 DEF SendOk, SendFailed, EndAttempt, Sets
  <2>2. settled' \subseteq Pings
    BY <1>4 DEF SendOk, SendFailed, CountFailure, Sets
  <2>3. counted' \subseteq DOMAIN entries'
    BY <1>4 DEF SendOk, SendFailed, CountFailure, Counted, ForgetDeparted,
       Without, Sets
  <2> QED
    BY <2>1, <2>2, <2>3 DEF Sets
<1>5. CASE RetryFires
  BY <1>5, ReplaySets DEF RetryFires, Typed, Sets
<1>6. CASE Restart
  <2>1. disk' \in Entries
    BY TypedStep DEF Typed
  <2> QED
    BY <1>1, <1>6, <2>1, ReplaySets DEF Restart, Sets
<1>7. CASE Age
  BY <1>1, <1>7 DEF Age, memory, history, Sets
<1>8. CASE UNCHANGED vars
  BY <1>8 DEF vars, memory, history, Sets
<1> QED
  BY <1>2, <1>3, <1>4, <1>5, <1>6, <1>7, <1>8 DEF Next, SendDone

LEMMA ReplayOnSwitches ==
  ASSUME NEW plan, NEW stored, NEW flying, NEW attempts, NEW ticker \in BOOLEAN,
         ReplayOn(plan, stored, attempts, flying, ticker)
  PROVE  Switches'
BY Zenon DEF ReplayOn, Rearm, Switches

LEMMA SwitchesStep == Switches /\ [Next]_vars => Switches'
<1> SUFFICES ASSUME Switches, [Next]_vars PROVE Switches'
  OBVIOUS
<1>1. ASSUME NEW stored, NEW attempts, NEW flying, NEW failures, NEW queue,
             Replay(stored, attempts, flying, failures, queue)
      PROVE  Switches'
  <2>1. CASE replaying' = TRUE /\ armed' = FALSE
    BY <2>1 DEF Switches
  <2>2. CASE ReplayOn(DOMAIN stored, stored, attempts, flying, FALSE)
    BY <2>2, ReplayOnSwitches
  <2> QED
    BY <1>1, <2>1, <2>2, Zenon DEF Replay
<1>2. CASE WriteDone
  <2>1. CASE UNCHANGED <<armed, replaying>>
    BY <2>1 DEF Switches
  <2>2. CASE ReplayOn(todo, entries, sending, inFlight, armed)
    BY <2>2, ReplayOnSwitches DEF Switches
  <2> QED
    BY <1>2, <2>1, <2>2, Zenon DEF WriteDone
<1>3. ASSUME NEW p \in Pings, NEW by \in Senders, SendOk(p, by) \/ SendFailed(p, by)
      PROVE  Switches'
  <2>1. armed' = armed \/ armed' = (armed \/ Arms(p))
    BY <1>3, Zenon DEF SendOk, SendFailed
  <2>2. replaying' = replaying
    BY <1>3 DEF SendOk, SendFailed, EndAttempt
  <2> QED
    BY <2>1, <2>2, Zenon DEF Switches
<1>4. CASE RetryFires \/ Restart
  BY <1>1, <1>4, Zenon DEF RetryFires, Restart
<1>5. CASE Deliver \/ Age \/ UNCHANGED vars
  BY <1>5 DEF Deliver, Age, vars, memory, Switches
<1> QED
  BY <1>2, <1>3, <1>4, <1>5 DEF Next, SendDone

LEMMA AgesStep == Typed /\ Ages /\ [Next]_vars => Ages'
<1> SUFFICES ASSUME Typed, Ages, [Next]_vars PROVE Ages'
  OBVIOUS
<1>1. Len(writes) \in Nat /\ Len(writes') \in Nat
  BY TypedStep, LenProperties DEF Typed
<1>2. ASSUME NEW awaiter \in Awaiters, Persist(writes, awaiter)
      PROVE  Len(writes') = Len(writes) + 1
  <2>1. entries' \in Entries /\ DOMAIN writes' = 1..(Len(writes) + 1)
    BY <1>2, TypedStep, PersistAppends DEF Typed
  <2>2. DOMAIN writes' = 1..Len(writes')
    BY TypedStep, LenProperties DEF Typed
  <2>3. Len(writes) + 1 \in 1..Len(writes') /\ Len(writes') \in 1..(Len(writes) + 1)
    <3>1. Len(writes) + 1 \in 1..(Len(writes) + 1)
      BY <1>1
    <3>2. Len(writes') \in 1..Len(writes')
      BY <1>1, <2>1, <2>2, <3>1
    <3> QED
      BY <2>1, <2>2, <3>1, <3>2
  <2> QED
    BY <1>1, <2>3
<1>3. ASSUME NEW before, NEW left, left \in 0..Len(writes') \/ before = FALSE,
             Aging(before, left)
      PROVE  Ages'
  BY <1>1, <1>3 DEF Aging, Ages
<1>4. CASE Deliver
  <2>1. <<"deliver", arrived'>> \in Awaiters
    BY <1>4, DeliverTyped DEF Awaiters
  <2> QED
    BY <1>1, <1>2, <1>4, <2>1 DEF Deliver, Ages
<1>5. CASE WriteDone
  <2>1. /\ 1 \in DOMAIN writes
        /\ writes' = SubSeq(writes, 1, 0) \o SubSeq(writes, 2, Len(writes))
        /\ Aging(armed, IF 1 <= slow THEN slow - 1 ELSE slow)
    BY <1>5 DEF WriteDone, Landing
  <2>2. /\ writes' \in Seq(Saves) /\ Len(writes) \in Nat \ {0}
        /\ DOMAIN writes' = 1..(Len(writes) - 1)
    BY <2>1, LandingShifts DEF Typed
  <2>3. DOMAIN writes' = 1..Len(writes')
    BY <2>2, LenProperties
  <2>4. Len(writes') = Len(writes) - 1
    <3>1. CASE Len(writes) = 1
      <4>1. 1 \notin 1..Len(writes')
        BY <2>2, <2>3, <3>1
      <4> QED
        BY <1>1, <3>1, <4>1
    <3>2. CASE Len(writes) > 1
      <4>1. Len(writes) - 1 \in 1..Len(writes')
        BY <2>2, <2>3, <3>2
      <4>2. Len(writes') \in 1..(Len(writes) - 1)
        BY <1>1, <2>2, <2>3, <4>1
      <4> QED
        BY <1>1, <4>1, <4>2
    <3> QED
      BY <2>2, <3>1, <3>2
  <2>5. (IF 1 <= slow THEN slow - 1 ELSE slow) \in 0..Len(writes')
    BY <1>1, <2>2, <2>4 DEF Ages
  <2> QED
    BY <1>3, <2>1, <2>5
<1>6. ASSUME NEW p \in Pings, NEW by \in Senders, SendOk(p, by) \/ SendFailed(p, by)
      PROVE  Ages'
  <2>1. slow \in 0..Len(writes')
    <3>1. \E a \in Awaiters : Persist(writes, a)
      BY <1>6, SendTyped DEF Awaiters
    <3> QED
      BY <1>1, <1>2, <3>1 DEF Ages
  <2>2. CASE SendOk(p, by)
    BY <2>1, <2>2 DEF SendOk, Ages
  <2>3. CASE SendFailed(p, by)
    BY <1>3, <2>1, <2>3 DEF SendFailed
  <2> QED
    BY <1>6, <2>2, <2>3
<1>7. CASE RetryFires \/ Restart
  BY <1>3, <1>7 DEF RetryFires, Restart
<1>8. CASE Age \/ UNCHANGED vars
  BY <1>8 DEF Age, vars, memory, Ages
<1> QED
  BY <1>4, <1>5, <1>6, <1>7, <1>8 DEF Next, SendDone

LEMMA LivesStep == Lives /\ [Next]_vars => Lives'
<1> SUFFICES ASSUME Lives, [Next]_vars PROVE Lives'
  OBVIOUS
<1> USE BoundsAssumption DEF Lives
<1>1. ASSUME NEW p \in Pings, NEW by \in Senders, SendOk(p, by)
      PROVE  Lives'
  <2>1. /\ sent' = [sent EXCEPT ![p] = @ \cup {crashes}]
        /\ UNCHANGED <<crashes, failedIn>>
    BY <1>1 DEF SendOk, EndAttempt
  <2> QED
    BY <2>1
<1>2. ASSUME NEW p \in Pings, NEW by \in Senders, SendFailed(p, by)
      PROVE  Lives'
  <2>1. /\ failedIn' = [failedIn EXCEPT ![p] = @ \cup {crashes}]
        /\ UNCHANGED <<crashes, sent>>
    BY <1>2 DEF SendFailed, EndAttempt
  <2> QED
    BY <2>1
<1>3. CASE Restart
  BY <1>3 DEF Restart
<1>4. CASE UNCHANGED <<crashes, sent, failedIn>>
  BY <1>4
<1> QED
  BY <1>1, <1>2, <1>3, <1>4 DEF Next, SendDone, Deliver, WriteDone, RetryFires,
     Age, vars, history

\* The type invariant: the queue in memory, the file and every save that waits
\* are lists of at most MaxEntries entries, none of which has used up its
\* attempts; what the outbox remembers of its sends and failures is of pings,
\* and the failures it remembers of pings it still holds (forgetDepartedEntries).
THEOREM OutboxTypeCorrect == Spec => []TypeOK
<1>1. Init => TypeInv
  <2> SUFFICES ASSUME Init PROVE SmallInv /\ Sets /\ Switches /\ Ages /\ Lives
    BY TypedInit DEF TypeInv
  <2>1. DOMAIN <<>> = {} /\ Len(<<>>) = 0 /\ Cardinality({}) = 0
    BY NothingYet, FS_EmptySet
  <2>2. SmallInv
    BY <2>1, BoundsAssumption DEF Init, SmallInv, Small
  <2>3. Sets /\ Switches
    BY DEF Init, Sets, Switches
  <2>4. Ages /\ Lives
    BY <2>1, BoundsAssumption DEF Init, Ages, Lives
  <2> QED
    BY <2>2, <2>3, <2>4
<1>2. TypeInv /\ [Next]_vars => TypeInv'
  BY TypedStep, SmallStep, SetsStep, SwitchesStep, AgesStep, LivesStep
  DEF TypeInv
<1>3. TypeInv => TypeOK
  <2> SUFFICES ASSUME TypeInv PROVE TypeOK
    OBVIOUS
  <2>1. {armed, replaying} \subseteq BOOLEAN
    BY Zenon DEF TypeInv, Switches
  <2> QED
    BY <2>1 DEF TypeInv, Typed, SmallInv, Small, Sets, Ages, Lives, TypeOK
<1> QED
  BY <1>1, <1>2, <1>3, PTL DEF Spec
=============================================================================
