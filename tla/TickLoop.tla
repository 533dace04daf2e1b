------------------------------ MODULE TickLoop ------------------------------
(* The loop that ticks a lane (createTickLoop in                            *)
(* src/server/lanes/lane-runner.ts): the first tick, the recurring ones, the *)
(* retries of a failed tick, a refresh by the operator, a tick asked for     *)
(* when a list arrives, and a stop at any await.                             *)
(*                                                                           *)
(* Time is left out: a back-off and a rate limit are in force until a step   *)
(* ends them, in either order: the back-off of a failure is capped, and the   *)
(* rate limit that came with it is not.                                      *)
EXTENDS Integers

CONSTANTS
  Lanes,           \* the kinds of lane: the options their loops are made with
  MaxQuick,        \* QUICK_RETRY_DELAYS_MS.length
  MaxRefreshes,    \* bound on the refreshes by the operator
  MaxFailures      \* bound on failureStreak

VARIABLES
  lane,            \* fixed when the loop is made
  start,           \* where start() is
  stopped,
  phase,           \* tickPhase, and which await the tick is in
  rerun,           \* tickPhase is running-rerun-queued
  sched,           \* the back-off, the rate limit, and what was announced
  recurring,       \* the interval is armed
  asked,           \* history: a tick was asked for and none began since
  refreshes        \* history: the refreshes of the operator

vars == <<lane, start, stopped, phase, rerun, sched, recurring, asked, refreshes>>

ASSUME LanesAssumption ==
  Lanes \subseteq [quickRetries : BOOLEAN, beforeTick : BOOLEAN, delayed : BOOLEAN]
ASSUME BoundsAssumption == {MaxQuick, MaxRefreshes, MaxFailures} \subseteq Nat

QuickRetries  == lane.quickRetries  \* a failed tick is retried by its own timer
HasBeforeTick == lane.beforeTick    \* a refresh reads something first, or fails
IsDelayed     == lane.delayed       \* the first tick waits for a timer

Schedules ==
  [backoff : BOOLEAN, limited : BOOLEAN,
   retryTimer : BOOLEAN,        \* retryTimer # null
   announced : BOOLEAN,         \* nextAttemptAt # null
   failures : 0..MaxFailures, quick : 0..MaxQuick]

Unscheduled == [backoff |-> FALSE, limited |-> FALSE, retryTimer |-> FALSE,
                announced |-> FALSE, failures |-> 0, quick |-> 0]

Init ==
  /\ lane \in Lanes
  /\ start = "none" /\ stopped = FALSE /\ phase = "idle" /\ rerun = FALSE
  /\ sched = Unscheduled /\ recurring = FALSE
  /\ asked = FALSE /\ refreshes = 0

-----------------------------------------------------------------------------
(* Ticks. *)

\* Whether runTick goes on, with no tick running.
Admits(trigger, sc) ==
  /\ ~stopped
  /\ trigger = "interval" => ~sc.backoff
  /\ trigger = "manual"   => ~sc.limited

\* The schedule of a tick whose body begins.
Begun(sc) == [sc EXCEPT !.retryTimer = FALSE, !.announced = FALSE]

BeginBody ==
  /\ phase' = "body" /\ asked' = FALSE
  /\ sched' = Begun(sched)

\* A tick of this trigger, when none is running: its body, or nothing.
RunTick(trigger, sc) ==
  IF Admits(trigger, sc)
    THEN phase' = "body" /\ asked' = FALSE /\ sched' = Begun(sc)
    ELSE phase' = "idle" /\ asked' = asked /\ sched' = sc

\* Mutant: start is not told that the tick ended.
StartGoesOnNever == UNCHANGED <<start, recurring>>

\* What awaits the first tick arms the recurring ones: start itself whether it
\* was stopped or not, the timer of a delayed start only when it was not.
StartGoesOn ==
  \/ /\ start = "first" /\ start' = "done" /\ recurring' = TRUE
  \/ /\ start = "delayed" /\ start' = "done" /\ recurring' = ~stopped
  \/ start \notin {"first", "delayed"} /\ UNCHANGED <<start, recurring>>

\* Mutant: the tick that was asked for is admitted by the back-off of before the
\* tick that ends.
RerunsTooEarly(sc) ==
  IF rerun /\ Admits("interval", sched)
    THEN phase' = "body" /\ asked' = FALSE /\ sched' = Begun(sc)
    ELSE phase' = "idle" /\ asked' = asked /\ sched' = sc

\* finally: a tick that was asked for meanwhile follows.
Reruns(sc) ==
  IF rerun THEN RunTick("interval", sc)
  ELSE phase' = "idle" /\ asked' = asked /\ sched' = sc

\* The running tick ends with this schedule.
EndTick(sc) == rerun' = FALSE /\ Reruns(sc) /\ StartGoesOn

\* Mutant: only a quick retry has a timer.
AttemptQuick(sc) ==
  [sc EXCEPT !.backoff = TRUE, !.announced = TRUE,
             !.retryTimer = QuickRetries /\ ~stopped /\ sc.quick < MaxQuick]

\* scheduleAttempt
Attempt(sc) ==
  [sc EXCEPT !.backoff = TRUE, !.announced = TRUE,
             !.retryTimer = QuickRetries /\ ~stopped]

Counted(n, bound) == IF n < bound THEN n + 1 ELSE n

\* nextRetrySchedule and what follows it.
Failed(isLimited) ==
  Attempt([sched EXCEPT
    !.failures = Counted(@, MaxFailures),
    !.quick = IF QuickRetries /\ ~isLimited THEN Counted(@, MaxQuick) ELSE @,
    !.limited = @ \/ isLimited])

\* A refresh has asked how long the rate limit lasts.
RateLimitRead ==
  /\ phase = "asking"
  /\ \/ stopped /\ EndTick(sched)
     \/ ~stopped /\ EndTick(Attempt([sched EXCEPT !.limited = TRUE]))
     \/ /\ ~stopped /\ HasBeforeTick
        /\ phase' = "before" /\ UNCHANGED <<start, rerun, sched, recurring, asked>>
     \/ /\ ~stopped /\ ~HasBeforeTick
        /\ BeginBody /\ UNCHANGED <<start, rerun, recurring>>
  /\ UNCHANGED <<stopped, refreshes>>

\* beforeTick succeeded, or did not.
BeforeTickDone ==
  /\ phase = "before"
  /\ \/ EndTick(sched)
     \/ ~stopped /\ BeginBody /\ UNCHANGED <<start, rerun, recurring>>
  /\ UNCHANGED <<stopped, refreshes>>

BodyDone ==
  /\ phase = "body"
  /\ \/ stopped /\ EndTick(sched)
     \/ ~stopped /\ EndTick(Unscheduled)
     \/ ~stopped /\ \E isLimited \in BOOLEAN : EndTick(Failed(isLimited))
  /\ UNCHANGED <<stopped, refreshes>>

-----------------------------------------------------------------------------
(* What starts a tick. *)

Start ==
  /\ start = "none" /\ ~stopped /\ start' = "prelude"
  /\ UNCHANGED <<stopped, phase, rerun, sched, recurring, asked, refreshes>>

\* The first tick, which start, or its timer, awaits.
FirstTick(awaiting, after) ==
  IF phase = "idle" /\ Admits("interval", sched)
    THEN BeginBody /\ start' = awaiting /\ UNCHANGED recurring
    ELSE start' = "done" /\ recurring' = after /\ UNCHANGED <<phase, sched, asked>>

\* The state was loaded.  A stop meanwhile is not looked for.
PreludeDone ==
  /\ start = "prelude"
  /\ \/ /\ IsDelayed /\ start' = "waiting"
        /\ UNCHANGED <<phase, sched, recurring, asked>>
     \/ ~IsDelayed /\ FirstTick("first", TRUE)
  /\ UNCHANGED <<stopped, rerun, refreshes>>

FirstTimerFires ==
  /\ start = "waiting"
  /\ \/ /\ stopped /\ start' = "done"
        /\ UNCHANGED <<phase, sched, recurring, asked>>
     \/ ~stopped /\ FirstTick("delayed", TRUE)
  /\ UNCHANGED <<stopped, rerun, refreshes>>

\* An interval that finds a tick running, or a back-off, does nothing.
IntervalFires ==
  /\ recurring /\ phase = "idle" /\ Admits("interval", sched)
  /\ BeginBody
  /\ UNCHANGED <<start, stopped, rerun, recurring, refreshes>>

\* The retry timer is spent whether its tick runs or finds another.
RetryFires ==
  /\ sched.retryTimer /\ ~sched.backoff
  /\ LET spent == [sched EXCEPT !.retryTimer = FALSE] IN
       IF phase = "idle" THEN RunTick("retry", spent)
       ELSE sched' = spent /\ UNCHANGED <<phase, asked>>
  /\ UNCHANGED <<start, stopped, rerun, recurring, refreshes>>

Refresh ==
  /\ refreshes < MaxRefreshes /\ refreshes' = refreshes + 1
  /\ phase = "idle" /\ Admits("manual", sched)
  /\ phase' = "asking"
  /\ UNCHANGED <<start, stopped, rerun, sched, recurring, asked>>

\* tickSoon: a list arrived.
TickSoon ==
  /\ ~stopped /\ start \notin {"none", "prelude"}
  /\ \/ /\ phase # "idle" /\ rerun' = TRUE /\ asked' = TRUE
        /\ UNCHANGED <<phase, sched>>
     \/ /\ phase = "idle" /\ Admits("interval", sched)
        /\ BeginBody /\ UNCHANGED rerun
     \/ /\ phase = "idle" /\ ~Admits("interval", sched) /\ asked' = TRUE
        /\ UNCHANGED <<phase, sched, rerun>>
  /\ UNCHANGED <<start, stopped, recurring, refreshes>>

BackoffEnds ==
  /\ sched.backoff /\ sched' = [sched EXCEPT !.backoff = FALSE]
  /\ UNCHANGED <<start, stopped, phase, rerun, recurring, asked, refreshes>>

RateLimitEnds ==
  /\ sched.limited /\ sched' = [sched EXCEPT !.limited = FALSE]
  /\ UNCHANGED <<start, stopped, phase, rerun, recurring, asked, refreshes>>

Stop ==
  /\ ~stopped /\ stopped' = TRUE
  /\ sched' = Unscheduled /\ recurring' = FALSE
  /\ start' = IF start = "waiting" THEN "done" ELSE start
  /\ UNCHANGED <<phase, rerun, asked, refreshes>>

Next ==
  /\ \/ Start \/ PreludeDone \/ FirstTimerFires \/ IntervalFires \/ RetryFires
     \/ Refresh \/ TickSoon \/ RateLimitRead \/ BeforeTickDone \/ BodyDone
     \/ BackoffEnds \/ RateLimitEnds \/ Stop
  /\ UNCHANGED lane

Spec == Init /\ [][Next]_vars

\* Timers fire, back-offs end and what is awaited comes.
Fairness ==
  /\ WF_vars(PreludeDone /\ UNCHANGED lane)
  /\ WF_vars(FirstTimerFires /\ UNCHANGED lane)
  /\ WF_vars(IntervalFires /\ UNCHANGED lane)
  /\ WF_vars(RetryFires /\ UNCHANGED lane)
  /\ WF_vars(RateLimitRead /\ UNCHANGED lane)
  /\ WF_vars(BeforeTickDone /\ UNCHANGED lane)
  /\ WF_vars(BodyDone /\ UNCHANGED lane)
  /\ WF_vars(BackoffEnds /\ UNCHANGED lane)

FairSpec == Spec /\ Fairness

-----------------------------------------------------------------------------
(* Properties *)

TypeOK ==
  /\ lane \in Lanes
  /\ start \in {"none", "prelude", "first", "waiting", "delayed", "done"}
  /\ phase \in {"idle", "asking", "before", "body"}
  /\ {stopped, rerun, recurring, asked} \subseteq BOOLEAN
  /\ sched \in Schedules /\ refreshes \in 0..MaxRefreshes
  /\ rerun => phase # "idle"

\* A stop at any await is final for a loop whose first tick is delayed: the
\* running tick ends, no other begins, and no timer that ticks is left or armed
\* later.  (A stop during the prelude is followed by the first timer, which then
\* does nothing.)
StopIsFinal ==
  stopped => ~recurring /\ ~sched.retryTimer /\ ~sched.announced

\* A body begins: when none ran, or as what was asked for during the tick that
\* ends in the same step.  Only the operator's own tick comes of an await.
Reran      == rerun /\ ~rerun'
Begins     == phase' = "body" /\ (phase # "body" \/ Reran)
ByOperator == phase \in {"asking", "before"} /\ ~Reran

\* A tick never begins once the loop is stopped.  One of the operator never
\* begins under a rate limit, however long what comes first was awaited; and any
\* other, also one that was asked for during a tick and follows it, never under a
\* back-off, that which the tick before it has just set included.
BeginsOnlyWhenFree ==
  [][Begins => /\ ~stopped
               /\ IF ByOperator THEN ~sched'.limited ELSE ~sched'.backoff]_vars

\* An attempt that was announced for a time has a timer that makes it: nothing
\* that ran meanwhile has used the timer up.
RetryKept ==
  QuickRetries /\ phase = "idle" /\ sched.announced => sched.retryTimer

\* The types, and that a stop is final and an announced retry is kept, for the
\* lanes whose loops see to it: a loop that ticks when it starts arms its
\* interval after a stop, and a refresh that reads first spends the retry.
StopsAndRetries ==
  TypeOK /\ (IsDelayed => StopIsFinal) /\ (~HasBeforeTick => RetryKept)

\* A tick that was asked for, even during a tick or a back-off, comes.
AskedIsServed == asked ~> (~asked \/ stopped)
=============================================================================
