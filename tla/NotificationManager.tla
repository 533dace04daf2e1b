------------------------- MODULE NotificationManager -------------------------
(* The notifications of sessions (src/notifications/notification-manager.ts) *)
(* and the channel that reaches the operator off the dashboard: Telegram or  *)
(* the hub, behind the deferral of completions while agents still work       *)
(* (telegram-completion-defer.ts, server/backend/backend-notifications.ts).  *)
(*                                                                           *)
(* An alert is one trigger.  It repeats on the dashboard while it waits for  *)
(* input, and climbs to the phone when it is left unanswered.  PENDING,      *)
(* ACKNOWLEDGED and IDLE are left in the call that enters them.              *)
(*                                                                           *)
(* Times are ticks of a clock that stops at a horizon; a timer fires at its  *)
(* time or at any moment after it.                                           *)
EXTENDS Integers

CONSTANTS
  Sessions,
  EscalationMs,
  PhoneDelays,       \* the values the setting phoneEscalationMs takes
  RecheckMs,
  MaxAlerts,         \* bound on the alerts of a session
  LastInput,         \* bound on the time of the last input
  Horizon,           \* bound on the time
  Nothing            \* null

VARIABLES
  now,
  entry,             \* _entries
  timer,             \* entry.timer: the handle of the escalation timer
  ticking,           \* the escalation timers that exist
  phone,             \* entry.phoneTimer
  typed,             \* _lastOperatorActivityMs
  phoneMs,           \* _phoneEscalationMs
  telegramOn,        \* Telegram is enabled and configured, or is not
  hub,               \* a hub is connected
  agents,            \* the session has active agents
  notable,           \* the session is in a state it notifies of
  deferred,          \* pendingCompletions
  held,              \* unsentHubAlertBySessionId
  \* history
  alert,             \* the number of the alerts of the session's states
  answered,          \* the alerts acknowledged while their session asked for them
  telegrams, frames  \* the alerts sent by Telegram, and to the hub, and how often

channel  == <<deferred, held, telegrams, frames>>
timers   == <<timer, ticking, phone>>
settings == <<typed, phoneMs, telegramOn, hub, agents>>
asks     == <<notable, alert, answered>>
notifyVars == <<now, entry, timers, settings, channel, asks>>

Alerts     == 1..MaxAlerts
Categories == {"waiting", "complete", "question-answered"}
States     == {"DELIVERED", "ESCALATED", "ESCALATED_PHONE"}
AlertEntries ==
  [state : States, category : Categories, reached : BOOLEAN, since : Nat]

\* The delay of a configuration is positive (src/shared/contracts/config.ts:25).
ASSUME TimesAssumption ==
  /\ {EscalationMs, RecheckMs} \cup PhoneDelays \subseteq Nat \ {0}
  /\ PhoneDelays # {}
  /\ {LastInput, Horizon, MaxAlerts} \subseteq Nat
ASSUME NothingAssumption == Nothing \notin AlertEntries /\ Nothing \notin Int

Never == [s \in Sessions |-> Nothing]
None  == [s \in Sessions |-> [a \in Alerts |-> 0]]

NotifyInit ==
  /\ now = 0 /\ typed = Nothing /\ hub = FALSE
  /\ phoneMs \in PhoneDelays /\ telegramOn \in BOOLEAN
  /\ entry = Never /\ timer = Never /\ phone = Never
  /\ deferred = Never /\ held = Never
  /\ ticking = [s \in Sessions |-> {}]
  /\ agents = [s \in Sessions |-> FALSE]
  /\ notable = [s \in Sessions |-> FALSE]
  /\ alert = [s \in Sessions |-> 0]
  /\ answered = [s \in Sessions |-> {}]
  /\ telegrams = None /\ frames = None

-----------------------------------------------------------------------------
(* The off-dashboard channel. *)

CanEscalate == telegramOn \/ hub

\* A completion waits while the session's agents work.
Waits(category, working) == category = "complete" /\ working

\* schedule and cancel of the deferral: the last delivery is the one kept.
Defer(s, a, isWaiting) ==
  [deferred EXCEPT ![s] =
     IF ~isWaiting THEN Nothing
     ELSE [alert |-> a, due |-> IF @ = Nothing THEN now + RecheckMs ELSE @.due]]

\* Mutant: what a hub was sent is held for the next.
HeldAlways(s, a) == [held EXCEPT ![s] = a]

\* Without a hub or Telegram an alert is held for the next hub.
Held(s, a) == IF hub \/ telegramOn THEN held ELSE [held EXCEPT ![s] = a]

Once(count, s, a) == [count EXCEPT ![s][a] = @ + 1]

\* deliverOffDashboard sends: Telegram and the hub are both told.
Sent(s, a) ==
  /\ telegrams' = IF telegramOn THEN Once(telegrams, s, a) ELSE telegrams
  /\ frames' = IF hub THEN Once(frames, s, a) ELSE frames
  /\ held' = Held(s, a)

\* The channel: what must wait is deferred, and anything else ends a deferral.
DeliverOffDashboard(s, a, category) ==
  LET isWaiting == Waits(category, agents[s]) IN
  /\ deferred' = Defer(s, a, isWaiting)
  /\ \/ isWaiting /\ UNCHANGED <<held, telegrams, frames>>
     \/ ~isWaiting /\ Sent(s, a)

-----------------------------------------------------------------------------
(* The timers of an entry. *)

Cleared(s) == ticking[s] \ {timer[s]}

\* The escalation timer of an entry of this category, its predecessor cleared.
RearmTick(s, isArmed) ==
  LET due == now + EscalationMs IN
  /\ timer' = [timer EXCEPT ![s] = IF isArmed THEN due ELSE Nothing]
  /\ ticking' = [ticking EXCEPT ![s] = IF isArmed THEN Cleared(s) \cup {due}
                                   ELSE Cleared(s)]

\* _armPhoneEscalation: whether it arms a phone timer that is not armed.
ArmsPhone(e) ==
  e.category # "question-answered" /\ ~e.reached /\ CanEscalate

\* Entering DELIVERED, with the handle of a phone timer that may be armed.
Phoned(e, handle) ==
  IF handle = Nothing /\ ArmsPhone(e) THEN now + phoneMs ELSE handle

\* The entry and its timers are gone.
Forget(s) ==
  /\ entry' = [entry EXCEPT ![s] = Nothing]
  /\ phone' = [phone EXCEPT ![s] = Nothing]
  /\ timer' = [timer EXCEPT ![s] = Nothing]
  /\ ticking' = [ticking EXCEPT ![s] = Cleared(s)]

-----------------------------------------------------------------------------
(* What a session tells. *)

Listens == now <= LastInput

\* trigger, through PENDING to DELIVERED.
Trigger(s, category) ==
  LET e == [state |-> "DELIVERED", category |-> category, reached |-> FALSE,
            since |-> now]
  IN /\ entry' = [entry EXCEPT ![s] = e]
     /\ phone' = [phone EXCEPT ![s] = Phoned(e, Nothing)]
     /\ RearmTick(s, category = "waiting")

\* Mutant: a change of state leaves the deferral.
ChangeCancelsNothing(s) == deferred

\* noteStateChange
ChangeCancels(s) == [deferred EXCEPT ![s] = Nothing]

\* 'notification-state-change' to ACKNOWLEDGED or IDLE: what was held for a hub
\* is dropped with the entry.  Without an entry nothing is emitted, and a
\* frame that is held stays.
Dropped(s) == [held EXCEPT ![s] = IF entry[s] = Nothing THEN @ ELSE Nothing]

\* The session changes its state: the deferral ends, the alert of a state that
\* is left is acknowledged, and that of one that is entered is triggered.
StateChange(s) ==
  /\ Listens
  /\ deferred' = ChangeCancels(s)
  /\ held' = IF notable[s] THEN Dropped(s) ELSE held
  /\ \/ /\ notable[s] /\ notable' = [notable EXCEPT ![s] = FALSE]
        /\ Forget(s) /\ UNCHANGED alert
     \/ /\ notable' = [notable EXCEPT ![s] = TRUE]
        /\ alert[s] < MaxAlerts /\ alert' = [alert EXCEPT ![s] = @ + 1]
        /\ \E category \in {"waiting", "complete"} : Trigger(s, category)
  /\ UNCHANGED <<now, settings, telegrams, frames, answered>>

\* The manager of the session answered a question: the operator is told of it
\* on the dashboard.
QuestionAnswered(s) ==
  /\ Listens
  /\ Trigger(s, "question-answered")
  /\ UNCHANGED <<now, settings, channel, asks>>

\* acknowledge: the alert was seen, or its session removed.
Acknowledge(s) ==
  /\ Listens /\ entry[s] # Nothing
  /\ Forget(s) /\ held' = Dropped(s)
  /\ answered' = [answered EXCEPT ![s] =
                    IF notable[s] THEN @ \cup {alert[s]} ELSE @]
  /\ UNCHANGED <<now, settings, notable, deferred, telegrams, frames, alert>>

\* sendDeferred, once the timer of the deferral is gone.
SendDeferred(s, working) ==
  \/ /\ Waits("complete", working)
     /\ deferred' = [deferred EXCEPT ![s].due = now + RecheckMs]
     /\ UNCHANGED <<entry, phone, held, telegrams, frames>>
  \/ /\ ~Waits("complete", working)
     /\ deferred' = [deferred EXCEPT ![s] = Nothing]
     /\ Sent(s, deferred[s].alert)
     /\ IF entry[s] = Nothing THEN UNCHANGED <<entry, phone>>
        ELSE /\ entry' = [entry EXCEPT ![s].reached = TRUE]
             /\ phone' = [phone EXCEPT ![s] = Nothing]

\* The timer of a deferral.
DeferralFires(s) ==
  /\ deferred[s] # Nothing /\ now >= deferred[s].due
  /\ SendDeferred(s, agents[s])
  /\ UNCHANGED <<now, timer, ticking, settings, asks>>

\* agents-change: a deferral is looked at again.
AgentsChange(s) ==
  /\ Listens
  /\ agents' = [agents EXCEPT ![s] = ~@]
  /\ IF deferred[s] = Nothing
       THEN UNCHANGED <<channel, entry, phone>>
       ELSE SendDeferred(s, ~agents[s])
  /\ UNCHANGED <<now, timer, ticking, typed, phoneMs, telegramOn, hub, asks>>

-----------------------------------------------------------------------------
(* The operator, the settings and the hub. *)

OperatorTypes ==
  /\ Listens
  /\ typed' = now
  /\ UNCHANGED <<now, entry, timers, phoneMs, telegramOn, hub, agents, channel,
                 asks>>

UpdateSettings ==
  /\ Listens
  /\ phoneMs' \in PhoneDelays
  /\ UNCHANGED <<now, entry, timers, typed, telegramOn, hub, agents, channel,
                 asks>>

\* Mutant: a hub that connects finds no alert to arm.
ArmsNone(s) == phone[s]

\* armPendingPhoneEscalations
ArmsPending(s) ==
  LET e == entry[s] IN
  IF /\ phone[s] = Nothing /\ e # Nothing
     /\ e.state \in {"DELIVERED", "ESCALATED"}
     /\ e.category # "question-answered" /\ ~e.reached
    THEN IF e.since + phoneMs > now THEN e.since + phoneMs ELSE now
    ELSE phone[s]

\* A hub that connects is sent what was held for it.
HubConnects ==
  /\ Listens /\ ~hub /\ hub' = TRUE
  /\ frames' = [s \in Sessions |-> [a \in Alerts |->
                 frames[s][a] + IF held[s] = a THEN 1 ELSE 0]]
  /\ held' = Never
  /\ phone' = [s \in Sessions |-> ArmsPending(s)]
  /\ UNCHANGED <<now, entry, timer, ticking, typed, phoneMs, telegramOn, agents,
                 deferred, telegrams, asks>>

HubLeaves ==
  /\ Listens /\ hub /\ hub' = FALSE
  /\ UNCHANGED <<now, entry, timers, typed, phoneMs, telegramOn, agents, channel,
                 asks>>

-----------------------------------------------------------------------------
(* Timers. *)

Ticks == [DELIVERED |-> "ESCALATED", ESCALATED |-> "DELIVERED",
          ESCALATED_PHONE |-> "DELIVERED"]

\* escalation_tick: an alert that waits is delivered again.  A timer that is
\* not the entry's own would fire all the same.
EscalationFires(s) ==
  \E due \in ticking[s] :
    LET e  == entry[s]
        to == Ticks[e.state]
        handle == IF to = "DELIVERED" THEN Phoned(e, phone[s]) ELSE phone[s]
        next == now + EscalationMs
        again == to = "ESCALATED" \/ e.category = "waiting"
    IN /\ now >= due /\ e # Nothing
       /\ entry' = [entry EXCEPT ![s].state = to]
       /\ phone' = [phone EXCEPT ![s] = handle]
       /\ timer' = [timer EXCEPT ![s] = IF again THEN next ELSE Nothing]
       /\ ticking' = [ticking EXCEPT ![s] = (@ \ {due})
                                          \cup IF again THEN {next} ELSE {}]
       /\ UNCHANGED <<now, settings, channel, asks>>

IdleFor == now - typed

DecidePhoneEscalation(e) ==
  IF typed = Nothing THEN "escalate"
  ELSE IF typed < e.since \/ IdleFor >= phoneMs THEN "escalate"
  ELSE IF typed >= e.since + phoneMs THEN "seen" ELSE "wait"

\* phone_escalation, to ESCALATED_PHONE.
EscalatePhone(s) ==
  LET e == entry[s] IN
  /\ entry' = [entry EXCEPT ![s].state = "ESCALATED_PHONE", ![s].reached = TRUE]
  /\ phone' = [phone EXCEPT ![s] = Nothing]
  /\ RearmTick(s, e.category = "waiting")
  /\ DeliverOffDashboard(s, alert[s], e.category)

\* The phone timer: the alert climbs, was seen, or waits for the operator to
\* stop typing.
PhoneFires(s) ==
  /\ phone[s] # Nothing /\ now >= phone[s]
  /\ LET decision == DecidePhoneEscalation(entry[s]) IN
     \/ /\ decision = "wait"
        /\ phone' = [phone EXCEPT ![s] = now + phoneMs - IdleFor]
        /\ UNCHANGED <<entry, timer, ticking, channel>>
     \/ /\ decision = "seen"
        /\ phone' = [phone EXCEPT ![s] = Nothing]
        /\ entry' = [entry EXCEPT ![s].reached = TRUE]
        /\ UNCHANGED <<timer, ticking, channel>>
     \/ decision = "escalate" /\ EscalatePhone(s)
  /\ UNCHANGED <<now, settings, asks>>

Tick == /\ now < Horizon /\ now' = now + 1
        /\ UNCHANGED <<entry, timers, settings, channel, asks>>

TimerFires(s) == EscalationFires(s) \/ PhoneFires(s) \/ DeferralFires(s)

NotifyNext ==
  \/ OperatorTypes \/ UpdateSettings \/ HubConnects \/ HubLeaves \/ Tick
  \/ \E s \in Sessions :
       \/ StateChange(s) \/ QuestionAnswered(s) \/ Acknowledge(s)
       \/ AgentsChange(s) \/ TimerFires(s)

NotifySpec == NotifyInit /\ [][NotifyNext]_notifyVars

\* Time passes and timers fire.
NotifyFairness ==
  /\ WF_notifyVars(Tick)
  /\ \A s \in Sessions : /\ WF_notifyVars(EscalationFires(s))
                         /\ WF_notifyVars(PhoneFires(s)) /\ WF_notifyVars(DeferralFires(s))

NotifyFairSpec == NotifySpec /\ NotifyFairness

-----------------------------------------------------------------------------
(* Properties *)

NotifyTypeOK ==
  /\ now \in 0..Horizon /\ typed \in (0..Horizon) \cup {Nothing}
  /\ phoneMs \in PhoneDelays /\ {telegramOn, hub} \subseteq BOOLEAN
  /\ entry \in [Sessions -> AlertEntries \cup {Nothing}]
  /\ timer \in [Sessions -> Nat \cup {Nothing}]
  /\ phone \in [Sessions -> Nat \cup {Nothing}]
  /\ \A s \in Sessions : phone[s] # Nothing =>
       /\ entry[s] # Nothing /\ ~entry[s].reached
       /\ entry[s].category # "question-answered"
  /\ ticking \in [Sessions -> SUBSET Nat]
  /\ agents \in [Sessions -> BOOLEAN] /\ notable \in [Sessions -> BOOLEAN]
  /\ alert \in [Sessions -> 0..MaxAlerts]
  /\ answered \in [Sessions -> SUBSET Alerts]
  /\ deferred \in [Sessions -> [alert : Alerts, due : Nat] \cup {Nothing}]
  /\ held \in [Sessions -> Alerts \cup {Nothing}]
  /\ {telegrams, frames} \subseteq [Sessions -> [Alerts -> Nat]]

\* The handle of an entry is its only escalation timer: none is overwritten
\* while it is armed, and none outlives its entry.  It is armed exactly while
\* the entry waits for input, so that it repeats until it is answered.
RepeatsUntilAnswered ==
  \A s \in Sessions :
    /\ ticking[s] = {timer[s]} \ {Nothing}
    /\ (timer[s] # Nothing) <=> /\ entry[s] # Nothing
                                /\ entry[s].category = "waiting"

\* An alert makes at most one message by each way, however it climbs, is
\* deferred, is held for a hub or repeats.
OneMessagePerAlert ==
  \A s \in Sessions, a \in Alerts : telegrams[s][a] <= 1 /\ frames[s][a] <= 1

\* A message is held only while there is neither hub nor Telegram, so that none
\* goes by both ways at different times; and what is held is not the alert whose
\* phone timer or deferral is still to come.
HeldForHubOnly ==
  \A s \in Sessions : held[s] # Nothing =>
    /\ ~hub /\ ~telegramOn
    /\ held[s] = alert[s] => phone[s] = Nothing /\ deferred[s] = Nothing

\* One escalation timer and one message: the types, RepeatsUntilAnswered,
\* OneMessagePerAlert and HeldForHubOnly of every state.
AlertsKeptApart ==
  NotifyTypeOK /\ RepeatsUntilAnswered /\ OneMessagePerAlert /\ HeldForHubOnly

Messages(s, a) == telegrams[s][a] + frames[s][a]
Least(S) == CHOOSE x \in S : \A y \in S : x <= y

\* An alert climbs to the phone only when it has been left for the delay, and
\* when nothing was typed in that delay, unless it was before the alert.
WaitsForTyping ==
  \A s \in Sessions :
    entry[s] # Nothing /\ entry'[s] # Nothing
      /\ entry'[s].state = "ESCALATED_PHONE" /\ entry[s].state # "ESCALATED_PHONE"
      => /\ now >= entry[s].since + Least(PhoneDelays)
         /\ typed # Nothing /\ typed >= entry[s].since => IdleFor >= phoneMs

Asked(s, a) == a = alert[s] /\ notable[s]

\* An alert that its session has moved on from is told of only if it was answered
\* while the session still asked: nothing that lapsed by itself is told late, by a
\* deferral that outlives its state or to a hub that connects later.
NoneLapsedIsTold ==
  \A s \in Sessions, a \in Alerts :
    Messages(s, a)' > Messages(s, a) => Asked(s, a) \/ a \in answered[s]

\* The phone is disturbed in time: no alert climbs while the operator types,
\* and none that lapsed unanswered is told of once its session has moved on.
PhoneInTime == [][WaitsForTyping /\ NoneLapsedIsTold]_notifyVars

\* The phone is told of what the session asks for now, never of an alert that
\* the session itself has moved on from.
TellsOfLast ==
  \A s \in Sessions, a \in Alerts :
    Messages(s, a)' > Messages(s, a) => Asked(s, a)
ToldOfLast == [][TellsOfLast]_notifyVars

\* The phone is told only of an alert that nobody has answered or seen.
TellsOfUnanswered ==
  \A s \in Sessions, a \in Alerts :
    Messages(s, a)' > Messages(s, a) => entry[s] # Nothing
SilentOnceAnswered == [][TellsOfUnanswered]_notifyVars

Unanswered(s, a) ==
  entry[s] # Nothing /\ alert[s] = a /\ entry[s].category # "question-answered"
Seen(s) == entry[s] # Nothing /\ entry[s].reached /\ typed # Nothing
             /\ typed >= entry[s].since

\* Once a hub stays connected, or Telegram is on, an alert that is left reaches
\* the phone, unless the operator typed on after it, and unless the agents of a
\* finished session never end.
TellsPhone ==
  \A s \in Sessions, a \in Alerts :
    (telegramOn \/ <>[]hub) /\ <>[](~agents[s])
      => (Unanswered(s, a) ~> (Messages(s, a) > 0 \/ ~Unanswered(s, a) \/ Seen(s)))
=============================================================================
