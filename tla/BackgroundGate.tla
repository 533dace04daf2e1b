---------------------------- MODULE BackgroundGate ----------------------------
(***************************************************************************)
(* The background gate of a session: a turn that ends while background     *)
(* agents or shells still run is not shown as complete.  The "ready" is    *)
(* held, and released when the background work has gone and stayed gone    *)
(* for a settle window (session-background-tracking.ts, gate-release.ts);  *)
(* what runs in the background is what the task registry counts            *)
(* (agent-tracker.ts) from hooks that come late, twice or not at all.      *)
(*                                                                         *)
(* Time is a tick; an entry of a registry map is the ticks it has left,    *)
(* and goes at the tick its time is up (every reader of the registry reaps *)
(* first).  The timer may be late, never early.  Left out: teammates and   *)
(* their idle names, monitors (they never gate), scheduled wake-ups, and   *)
(* compaction.                                                             *)
(***************************************************************************)
EXTENDS Naturals, FiniteSets, FiniteSetsExt

CONSTANTS
  Agents, Shells,     \* ids of sub-agents and of background shell commands
  None,               \* "not there": no held ready, no timer, no map entry
  AgentTtl,           \* ticks a counted agent or a declared list lives
  ShellTtl,           \* ticks a declared or launched shell lives
  Delivery,           \* ticks a settled shell's follow-up prompt may take
  Settle,             \* ticks of quiet before a held ready is released
  MaxSignals          \* signals the session receives (bounds the runs)

ASSUME GateTimes == /\ {AgentTtl, ShellTtl, Delivery, Settle} \subseteq Nat \ {0}
                    /\ Delivery <= ShellTtl   \* ten seconds, and an hour
                    /\ MaxSignals \in Nat
ASSUME GateIds == /\ IsFiniteSet(Agents) /\ IsFiniteSet(Shells)
                  /\ Agents \cap Shells = {}

VARIABLES
  st,         \* the session's state
  reg,        \* the task registry
  gate,       \* the held ready, its age, the quiet time and the timer
  onHold,     \* a ready in the status source's conflict window
  signals,    \* signals received (bounds the runs)
  fresh,      \* history: a prompt, activity or new work since the ready was held
  calm,       \* history: ticks since background work was seen or stopped
  sinceLaunch,\* history: ticks since a shell went to the background, until its
              \* follow-up is delivered
  accounted   \* history: the shells a list has accounted for, since they were
              \* launched and since the last prompt
gateVars == <<st, reg, gate, onHold, signals, fresh, calm, sinceLaunch, accounted>>

Ids == Agents \cup Shells
Live == {"IDLE", "RUNNING", "WAITING", "COMPLETE"}
ASSUME NoneIsApart == None \notin Nat \cup {"hook", "title"} \cup Live
Left(n) == {None} \cup 1..n

----------------------------------------------------------------------------
(* The task registry. *)

EmptyRegistry ==
  [counted |-> [a \in Agents |-> None], observed |-> {},
   orphans |-> [a \in Agents |-> None],
   list |-> {}, listLeft |-> None, seen |-> [s \in Shells |-> None], idle |-> {},
   launched |-> [s \in Shells |-> None], undelivered |-> [s \in Shells |-> None]]

Present(m) == {k \in DOMAIN m : m[k] # None}

\* Entries of Claude's own list that still gate: not idle, not past their life.
DeclaredActive(r) ==
  {i \in r.list \ r.idle : IF i \in Shells THEN r.seen[i] # None
                                           ELSE r.listLeft # None}

ActiveCount(r) ==
  LET counted == Cardinality(Present(r.counted))
      declared == Cardinality(DeclaredActive(r)) + Cardinality(Present(r.undelivered))
  IN  IF counted > declared THEN counted ELSE declared

NoteAgentStart(r, a) ==
  [r EXCEPT !.counted[a] = AgentTtl, !.idle = @ \ {a}, !.observed = @ \cup {a}]

StopOutcome(r, a) == IF r.counted[a] # None THEN "removed"
                     ELSE IF a \in r.observed THEN "duplicate" ELSE "orphan"

NoteAgentStop(r, a) ==
  [r EXCEPT !.counted[a] = None, !.observed = @ \cup {a},
            !.orphans[a] = IF StopOutcome(r, a) = "orphan" THEN AgentTtl ELSE @]

\* Launched shells that Claude's list no longer shows.
Settled(r, l) == Present(r.launched) \ l

\* Claude's list replaces the one before.  A launched shell that is not on it
\* has settled: its follow-up prompt is still to come.  A list that shows
\* nothing active clears the counted agents.  (The code remembers when it first
\* saw a shell for as long as lists name it, past its life too; the model then
\* forgets, and counts it for another life.)
ReconcileDeclared(r, l) ==
  LET settled == Settled(r, l)
      new == [r EXCEPT !.list = l, !.listLeft = AgentTtl, !.idle = @ \cap l,
                !.seen = [s \in Shells |-> IF s \notin l THEN None
                            ELSE IF @[s] = None THEN ShellTtl ELSE @[s]],
                !.launched = [s \in Shells |-> IF s \in settled THEN None ELSE @[s]],
                !.undelivered = [s \in Shells |-> IF s \in settled THEN Delivery
                                                                   ELSE @[s]]]
  IN  IF DeclaredActive(new) = {}
      THEN [new EXCEPT !.counted = [a \in Agents |-> None]] ELSE new

\* A tick: entries come one nearer to their end and go when it is reached.
Older(n) == IF n = None \/ n = 1 THEN None ELSE n - 1
Aged(m) == [k \in DOMAIN m |-> Older(m[k])]
AgedRegistry(r) ==
  [r EXCEPT !.counted = Aged(@), !.orphans = Aged(@), !.listLeft = Older(@),
            !.seen = Aged(@), !.launched = Aged(@), !.undelivered = Aged(@)]

\* Ticks to the next entry that ends, and never more than the shortest life.
Lives(r) ==
  {n \in {r.counted[a] : a \in Agents} \cup {r.undelivered[s] : s \in Shells}
         \cup {r.seen[s] : s \in (r.list \ r.idle) \cap Shells}
         \cup (IF r.list \ r.idle \subseteq Shells THEN {} ELSE {r.listLeft}) : n # None}
\* Mutant of RecheckIn: a gated ready is not looked at again until a hook comes.
NeverRechecks(r) == None
RecheckIn(r) == Min(Lives(r) \cup {AgentTtl, ShellTtl})

----------------------------------------------------------------------------
(* The gate. *)

NoGate == [held |-> None, conf |-> None, age |-> 0, quiet |-> None,
           timer |-> None, moved |-> FALSE]

SmallerOf(a, b) == IF a < b THEN a ELSE b

\* decideGateRelease.  g.moved: activity was noted after the ready was held.
Decision(g, cur, active) ==
  CASE cur # g.held \/ g.moved -> "cancel"
    [] cur = g.held /\ ~g.moved /\ active > 0 -> "gated"
    [] cur = g.held /\ ~g.moved /\ active = 0 /\ SmallerOf(g.quiet, g.age) < Settle -> "wait"
    [] OTHER -> "release"

\* evaluateGateHeldReady: what becomes of the gate and of the session's state.
Evaluated(g, cur, r) ==
  LET active == ActiveCount(r)
      now == IF active = 0 /\ g.quiet = None THEN [g EXCEPT !.quiet = 0] ELSE g
  IN  IF g.held = None THEN [gate |-> g, st |-> cur]
      ELSE CASE Decision(now, cur, active) = "cancel" -> [gate |-> NoGate, st |-> cur]
             [] Decision(now, cur, active) = "gated" ->
                  [gate |-> [g EXCEPT !.quiet = None, !.timer = RecheckIn(r)], st |-> cur]
             [] Decision(now, cur, active) = "wait" ->
                  [gate |-> [now EXCEPT !.timer = Settle - SmallerOf(now.quiet, now.age)],
                   st |-> cur]
             [] Decision(now, cur, active) = "release" ->
                  [gate |-> NoGate, st |-> "COMPLETE"]

\* The registry becomes r, and the gate is looked at (withAgentCount).
WithAgentCount(r, g) ==
  LET e == Evaluated(g, st, r)
  IN  reg' = r /\ gate' = e.gate /\ st' = e.st

----------------------------------------------------------------------------
(* Hooks and signals. *)

Hears == signals < MaxSignals /\ st \in Live /\ signals' = signals + 1

\* subagent-start: a held ready is dropped, the turn will end again.
SubagentStarts(a) ==
  /\ Hears
  /\ reg' = NoteAgentStart(reg, a) /\ gate' = NoGate /\ fresh' = TRUE
  /\ UNCHANGED <<st, onHold>>

\* subagent-stop.  A stop heard twice changes nothing; another one starts the
\* quiet time over.
\* Mutant of StopSeen: the quiet time goes on over the stop of an agent.
StopUnseen(a) == gate
StopSeen(a) == IF gate.held = None \/ StopOutcome(reg, a) = "duplicate"
               THEN gate ELSE [gate EXCEPT !.quiet = None]
SubagentStops(a) ==
  /\ Hears
  /\ \/ /\ StopOutcome(reg, a) # "duplicate"
        /\ WithAgentCount(NoteAgentStop(reg, a), StopSeen(a))
     \/ StopOutcome(reg, a) = "duplicate" /\ UNCHANGED <<reg, gate, st>>
  /\ UNCHANGED <<onHold, fresh>>

\* The same with Claude's list in the payload, which is applied after it.  The
\* look at the gate in between never releases: the quiet time is new.
SubagentStopsListing(a, l) ==
  /\ Hears
  /\ WithAgentCount(ReconcileDeclared(NoteAgentStop(reg, a), l), StopSeen(a))
  /\ UNCHANGED <<onHold, fresh>>

\* task-created and task-completed, for the task an agent works on.
TaskCreated(a) ==
  /\ Hears
  /\ reg' = [reg EXCEPT !.idle = @ \ {a}] /\ gate' = NoGate /\ fresh' = TRUE
  /\ UNCHANGED <<st, onHold>>
TaskCompleted(a) ==
  /\ Hears
  /\ WithAgentCount([reg EXCEPT !.idle = @ \cup {a}, !.counted[a] = None], gate)
  /\ UNCHANGED <<onHold, fresh>>

\* background-task-launched: a shell command went to the background.  Its id is
\* new: no list has named it.
ShellLaunched(s) ==
  /\ Hears /\ reg.seen[s] = None
  /\ WithAgentCount([reg EXCEPT !.launched[s] = ShellTtl, !.undelivered[s] = None], gate)
  /\ UNCHANGED <<onHold, fresh>>

\* The Stop hook: Claude's list is applied at once, the ready waits in the
\* status source's conflict window and is not replaced there.  One that carries
\* no list (a StopFailure may not) leaves the registry as it is.
StopHook(l) ==
  /\ Hears
  /\ WithAgentCount(ReconcileDeclared(reg, l), gate)
  /\ onHold' = "hook"
  /\ UNCHANGED fresh
BareStopHook ==
  /\ Hears
  /\ onHold' = "hook"
  /\ UNCHANGED <<st, reg, gate, fresh>>

\* The terminal title goes idle, or Claude says that it waits for a prompt: a
\* ready of low confidence.
TitleReady ==
  /\ Hears
  /\ onHold = None /\ onHold' = "title"
  /\ UNCHANGED <<st, reg, gate, fresh>>

\* _onStatus: the ready leaves the conflict window.
Completes(conf) == st = "RUNNING" \/ (st \in {"WAITING", "IDLE"} /\ conf = "hook")
OrphanGate == onHold = "hook" /\ Present(reg.orphans) # {}
ReadyResolves ==
  LET held == [held |-> st, conf |-> onHold, age |-> 0, quiet |-> None,
               timer |-> None, moved |-> FALSE]
      free == ActiveCount(reg) = 0 /\ ~OrphanGate
  IN  /\ onHold # None /\ st \in Live
      /\ onHold' = None
      /\ \/ Completes(onHold) /\ free /\ st' = "COMPLETE" /\ UNCHANGED <<gate, fresh>>
         \/ Completes(onHold) /\ ~free
            /\ gate' = Evaluated(held, st, reg).gate /\ fresh' = FALSE /\ UNCHANGED st
         \/ ~Completes(onHold) /\ UNCHANGED <<st, gate, fresh>>
      /\ UNCHANGED <<reg, signals>>

\* noteStatus of anything but a ready, then the signal's own transition.
Active(to) ==
  LET g == IF gate.held = None THEN gate ELSE [gate EXCEPT !.moved = TRUE]
      e == Evaluated(g, st, reg)
  IN  /\ gate' = e.gate /\ st' = to
      /\ onHold' = None /\ fresh' = TRUE
Working == Hears /\ Active("RUNNING") /\ UNCHANGED reg
AwaitingInput == Hears /\ Active("WAITING") /\ UNCHANGED reg

\* The resume hook (a prompt): notified shells are delivered, the held ready,
\* the turn's evidence and Claude's list are dropped, then it is activity.  A
\* ready whose timer is late may still be released first; the session runs anyway.
Prompt(notified) ==
  /\ Hears
  /\ reg' = [reg EXCEPT !.observed = {}, !.orphans = EmptyRegistry.orphans,
               !.list = {}, !.listLeft = None,
               !.launched = [s \in Shells |-> IF s \in notified THEN None ELSE @[s]],
               !.undelivered = [s \in Shells |-> IF s \in notified THEN None ELSE @[s]]]
  /\ gate' = NoGate /\ st' = "RUNNING" /\ onHold' = None /\ fresh' = TRUE

\* The operator answers a prompt (user_input) or dismisses a card.
OperatorMoves ==
  /\ Hears
  /\ st \in {"WAITING", "COMPLETE"}
  /\ st' = IF st = "WAITING" THEN "RUNNING" ELSE "IDLE"
  /\ UNCHANGED <<reg, gate, onHold, fresh>>

\* The process exits: everything detection knows is dropped.  A restart finds
\* an idle session.
Exits == /\ Hears
         /\ st' = "DONE" /\ reg' = EmptyRegistry /\ gate' = NoGate
         /\ onHold' = None /\ fresh' = TRUE
Restarts == st = "DONE" /\ st' = "IDLE" /\ UNCHANGED <<reg, gate, onHold, signals, fresh>>

----------------------------------------------------------------------------
(* Time. *)

Settles(n) == IF n = None THEN None ELSE SmallerOf(n + 1, Settle)
EntriesAge ==
  /\ reg' = AgedRegistry(reg)
  /\ gate' = [gate EXCEPT !.age = IF gate.held = None THEN 0 ELSE SmallerOf(@ + 1, Settle),
                          !.quiet = Settles(@),
                          !.timer = IF @ = None \/ @ = 0 THEN @ ELSE @ - 1]
  /\ UNCHANGED <<st, onHold, signals, fresh>>

GateTimerFires ==
  /\ gate.timer = 0
  /\ WithAgentCount(reg, [gate EXCEPT !.timer = None])
  /\ UNCHANGED <<onHold, signals, fresh>>

\* History: the last time background work was counted, or an agent stopped whose
\* start was never heard; how long ago a shell was launched; and whether a list
\* accounted for it.
CalmFollows(isTick) ==
  calm' = IF \/ ActiveCount(reg) > 0 \/ ActiveCount(reg') > 0
             \/ \E a \in Agents : reg.orphans[a] = None /\ reg'.orphans[a] # None
          THEN 0 ELSE IF isTick THEN SmallerOf(calm + 1, Settle) ELSE calm
Longer(n) == IF n = None THEN None ELSE SmallerOf(n + 1, Delivery)

GateInit ==
  /\ st = "IDLE" /\ reg = EmptyRegistry /\ gate = NoGate
  /\ onHold = None /\ signals = 0
  /\ fresh = TRUE /\ calm = Settle
  /\ sinceLaunch = EmptyRegistry.launched /\ accounted = {}

Heard(A) == A /\ UNCHANGED <<sinceLaunch, accounted>> /\ CalmFollows(FALSE)

\* Steps that leave the launched shells alone, and those that bring a list.
Hook ==
  \/ \E a \in Agents : SubagentStarts(a) \/ TaskCreated(a) \/ TaskCompleted(a)
                       \/ SubagentStops(a)
  \/ BareStopHook \/ TitleReady \/ Working \/ AwaitingInput \/ OperatorMoves
Lists(l) == StopHook(l) \/ \E a \in Agents : SubagentStopsListing(a, l)
Listed(l) == /\ Lists(l) /\ UNCHANGED sinceLaunch /\ CalmFollows(FALSE)
             /\ accounted' = Shells

Launched(s) == /\ ShellLaunched(s) /\ CalmFollows(FALSE)
               /\ sinceLaunch' = [sinceLaunch EXCEPT ![s] = 0]
               /\ accounted' = accounted \ {s}
Prompted(d) == /\ Prompt(d) /\ CalmFollows(FALSE)
               /\ sinceLaunch' = [s \in Shells |-> IF s \in d THEN None
                                                ELSE sinceLaunch[s]]
               /\ accounted' = {}
Ended == /\ Exits /\ CalmFollows(FALSE)
         /\ sinceLaunch' = EmptyRegistry.launched /\ accounted' = {}
TimePasses == /\ EntriesAge /\ CalmFollows(TRUE)
              /\ sinceLaunch' = [s \in Shells |-> Longer(sinceLaunch[s])]
              /\ UNCHANGED accounted

GateNext ==
  \/ \E l \in SUBSET Ids : Listed(l)
  \/ Heard(Hook) \/ Heard(Restarts) \/ Heard(ReadyResolves) \/ Heard(GateTimerFires)
  \/ \E s \in Shells : Launched(s)
  \/ \E d \in SUBSET Shells : Prompted(d)
  \/ Ended \/ TimePasses

GateSpec == GateInit /\ [][GateNext]_gateVars
GateFairSpec == /\ GateSpec /\ WF_gateVars(TimePasses)
                /\ WF_gateVars(Heard(GateTimerFires)) /\ WF_gateVars(Heard(ReadyResolves))

----------------------------------------------------------------------------
(* Properties. *)

\* The type invariant: registry entries within their lives, a gate that is
\* empty or holds the ready of a live session.
GateType ==
  [held : {None} \cup Live, conf : {None, "hook", "title"}, age : 0..Settle,
   quiet : {None} \cup 0..Settle, timer : {None} \cup Nat, moved : BOOLEAN]
RegistryType ==
  [counted : [Agents -> Left(AgentTtl)], observed : SUBSET Agents,
   orphans : [Agents -> Left(AgentTtl)], list : SUBSET Ids, listLeft : Left(AgentTtl),
   seen : [Shells -> Left(ShellTtl)], idle : SUBSET Agents,
   launched : [Shells -> Left(ShellTtl)], undelivered : [Shells -> Left(Delivery)]]
GateTypeOK ==
  /\ st \in Live \cup {"DONE"}
  /\ reg \in RegistryType
  /\ gate \in GateType
  /\ onHold \in {None, "hook", "title"}
  /\ signals \in 0..MaxSignals
  /\ fresh \in BOOLEAN /\ calm \in 0..Settle
  /\ sinceLaunch \in [Shells -> {None} \cup 0..Delivery] /\ accounted \subseteq Shells

\* A ready is never held without a timer that will look at it again, whatever
\* hooks come between: else the card says Running for ever (armGateTimer).
HeldIsTimed == gate.held # None => gate.timer # None
HeldIsWatched == GateTypeOK /\ HeldIsTimed

Released == gate.held # None /\ st = gate.held /\ st # "COMPLETE" /\ st' = "COMPLETE"
            /\ gate' = NoGate

\* A release completes the turn whose ready was held: no prompt, no activity and
\* no new agent came after it (the hazard at gate-release.ts:31).
ReleaseIsCurrent == Released => ~fresh

\* A release comes a whole settle window after the last background work was
\* counted or stopped, by whichever path it ended (gateQuietSince).
QuietBeforeRelease == Released => calm = Settle

\* A turn is not completed, at once or from the gate, while a shell it launched
\* is owed its follow-up: its prompt may still come (CHANGELOG.md:168).  This
\* holds of shells that a list accounted for.
Completed == st # "COMPLETE" /\ st' = "COMPLETE"
NotBeforeFollowUp ==
  Completed => \A s \in accounted' : sinceLaunch'[s] \in {None, Delivery}

\* The same of every shell: fails in the code.  A Stop without a list completes
\* the turn of a shell that was launched just before.
NotBeforeFollowUpAnyhow ==
  [][Completed => \A s \in Shells : sinceLaunch'[s] \in {None, Delivery}]_gateVars

\* A turn that is shown as complete is the last one, has been quiet for long
\* enough and is owed nothing: the three of every step.
CompletesInTime ==
  [][ReleaseIsCurrent /\ QuietBeforeRelease /\ NotBeforeFollowUp]_gateVars

\* A turn whose ready is held ends on the card, unless something newer is heard:
\* agents and lists whose end is never heard run out and the timer finds it.
HeldTurnEnds == (gate.held = "RUNNING" /\ st = "RUNNING") ~> (st # "RUNNING" \/ fresh)
=============================================================================
