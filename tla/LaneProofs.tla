------------------------------ MODULE LaneProofs -----------------------------
(* The loop that ticks a lane: a tick begins only when it may, a stop is     *)
(* final and an announced retry keeps its timer, for any lanes and any       *)
(* bounds on failures and refreshes.  And the community lane that such a     *)
(* loop ticks: no question is lost, for any questions, pollers and runs.     *)
EXTENDS TickLoop, CommunityLane, FiniteSetTheorems, TLAPS

-----------------------------------------------------------------------------
(* The tick loop. *)

\* A refresh that waits found no rate limit, and what is awaited sets none.
RefreshFree == phase \in {"asking", "before"} => ~sched.limited

\* After a stop nothing is announced; with a delayed first tick start awaits
\* none itself, so nothing arms the interval again.
Halts ==
  /\ stopped => ~sched.retryTimer /\ ~sched.announced
  /\ IsDelayed => start # "first"
  /\ IsDelayed /\ stopped => ~recurring

\* An attempt stays announced into a refresh, whose end announces it again; the
\* body of a tick clears it.
Announced ==
  /\ phase = "before" => HasBeforeTick
  /\ phase = "body" => ~sched.announced
  /\ ~HasBeforeTick => RetryKept

LoopInv == TypeOK /\ RefreshFree /\ Halts /\ Announced

\* What the invariant is for: the property the model checker runs.
LEMMA InvStops == LoopInv => StopsAndRetries
BY DEF LoopInv, Halts, Announced, StopsAndRetries, StopIsFinal

\* Initially the loop is idle and nothing is scheduled.
LEMMA InitInv == Init => LoopInv
<1> SUFFICES ASSUME Init PROVE LoopInv
  OBVIOUS
<1> USE DEF Init, Unscheduled
<1>1. 0 \in 0..MaxFailures /\ 0 \in 0..MaxQuick /\ 0 \in 0..MaxRefreshes
  BY BoundsAssumption
<1>2. TypeOK
  BY <1>1 DEF TypeOK, Schedules
<1>3. RefreshFree /\ Halts /\ Announced
  BY DEF RefreshFree, Halts, Announced, RetryKept
<1> QED
  BY <1>2, <1>3 DEF LoopInv

\* A schedule that the steps below make is a schedule.
LEMMA SchedulesClosed ==
  ASSUME NEW sc \in Schedules
  PROVE  /\ Begun(sc) \in Schedules
         /\ ~Begun(sc).announced /\ ~Begun(sc).retryTimer
         /\ Begun(sc).limited = sc.limited /\ Begun(sc).backoff = sc.backoff
BY DEF Begun, Schedules

\* An attempt is announced, with a timer where the lane has one.
LEMMA AttemptMade ==
  ASSUME NEW sc \in Schedules, QuickRetries \in BOOLEAN, stopped \in BOOLEAN
  PROVE  /\ Attempt(sc) \in Schedules
         /\ Attempt(sc).backoff /\ Attempt(sc).announced
         /\ Attempt(sc).retryTimer = (QuickRetries /\ ~stopped)
BY DEF Attempt, Schedules

\* The options of a lane are either on or off.
LEMMA LaneTyped ==
  ASSUME LoopInv
  PROVE  /\ QuickRetries \in BOOLEAN /\ HasBeforeTick \in BOOLEAN
         /\ IsDelayed \in BOOLEAN
         /\ stopped \in BOOLEAN /\ rerun \in BOOLEAN
         /\ recurring \in BOOLEAN /\ asked \in BOOLEAN
BY LanesAssumption DEF LoopInv, TypeOK, QuickRetries, HasBeforeTick, IsDelayed

\* A tick whose body begins unstopped keeps the invariant.
LEMMA BeginBodyInv ==
  ASSUME LoopInv, ~stopped, BeginBody, UNCHANGED <<lane, stopped>>,
         rerun' = rerun \/ rerun' = FALSE,
         start' \in {"none", "prelude", "first", "waiting", "delayed", "done"},
         IsDelayed => start' # "first",
         recurring' \in BOOLEAN, refreshes' = refreshes
  PROVE  LoopInv'
<1> USE DEF LoopInv, BeginBody
<1>1. sched \in Schedules
  BY DEF TypeOK
<1>2. sched' \in Schedules /\ ~sched'.announced /\ ~sched'.retryTimer
      /\ sched'.limited = sched.limited /\ sched'.backoff = sched.backoff
  BY <1>1, SchedulesClosed
<1>3. TypeOK'
  BY <1>2, LaneTyped DEF TypeOK
<1>4. RefreshFree'
  BY <1>2 DEF RefreshFree
<1>5. Halts'
  BY <1>2, LaneTyped DEF Halts, IsDelayed
<1>6. Announced'
  BY <1>2 DEF Announced, RetryKept, QuickRetries, HasBeforeTick
<1> QED
  BY <1>3, <1>4, <1>5, <1>6

\* The schedule a running tick may end with.
Ends(sc) ==
  /\ sc \in Schedules
  /\ stopped => ~sc.retryTimer /\ ~sc.announced
  /\ ~HasBeforeTick /\ QuickRetries /\ sc.announced => sc.retryTimer

\* The end of a tick, and of what awaited it, keeps the invariant.
LEMMA EndTickInv ==
  ASSUME LoopInv, NEW sc, Ends(sc), EndTick(sc),
         UNCHANGED <<lane, stopped, refreshes>>
  PROVE  LoopInv'
<1> USE DEF LoopInv
<1>1. /\ sched' \in Schedules
      /\ phase' \in {"idle", "body"} /\ rerun' = FALSE /\ asked' \in BOOLEAN
      /\ phase' = "body" => ~stopped /\ ~sched'.announced /\ ~sched'.retryTimer
      /\ phase' = "idle" => sched' = sc
  BY SchedulesClosed, LaneTyped DEF EndTick, Reruns, RunTick, Admits, Ends
<1>2. /\ start' \in {"none", "prelude", "first", "waiting", "delayed", "done"}
      /\ recurring' \in BOOLEAN
      /\ IsDelayed => start' # "first"
      /\ IsDelayed /\ stopped => ~recurring'
  <2>1. CASE start = "first" /\ start' = "done" /\ recurring' = TRUE
    BY <2>1 DEF Halts
  <2>2. CASE start = "delayed" /\ start' = "done" /\ recurring' = ~stopped
    <3>1. recurring' \in BOOLEAN /\ (stopped => ~recurring')
      BY <2>2, LaneTyped, Zenon
    <3> QED
      BY <2>2, <3>1
  <2>3. CASE UNCHANGED <<start, recurring>>
    BY <2>3, LaneTyped DEF TypeOK, Halts
  <2> QED
    BY <2>1, <2>2, <2>3 DEF EndTick, StartGoesOn
<1>3. TypeOK'
  BY <1>1, <1>2, LaneTyped DEF TypeOK
<1>4. RefreshFree'
  BY <1>1 DEF RefreshFree
<1>5. Halts'
  BY <1>1, <1>2 DEF Halts, IsDelayed, Ends
<1>6. Announced'
  BY <1>1 DEF Announced, RetryKept, QuickRetries, HasBeforeTick, Ends
<1> QED
  BY <1>3, <1>4, <1>5, <1>6

\* A failed tick ends with an attempt announced.
LEMMA FailedEnds ==
  ASSUME LoopInv, ~stopped, NEW isLimited \in BOOLEAN
  PROVE  Ends(Failed(isLimited))
<1> DEFINE sc == [sched EXCEPT
             !.failures = Counted(@, MaxFailures),
             !.quick = IF QuickRetries /\ ~isLimited THEN Counted(@, MaxQuick) ELSE @,
             !.limited = @ \/ isLimited]
<1>1. sched \in Schedules
  BY DEF LoopInv, TypeOK
<1>2. /\ Counted(sched.failures, MaxFailures) \in 0..MaxFailures
      /\ Counted(sched.quick, MaxQuick) \in 0..MaxQuick
  BY <1>1, BoundsAssumption DEF Counted, Schedules
<1>3. (sched.limited \/ isLimited) \in BOOLEAN
  BY <1>1 DEF Schedules
<1>4. sc \in Schedules
  BY <1>1, <1>2, <1>3 DEF Schedules
<1>5. Failed(isLimited) = Attempt(sc)
  BY DEF Failed
<1> HIDE DEF sc
<1> QED
  BY <1>4, <1>5, AttemptMade, LaneTyped DEF Ends

\* The steps of a running tick.
LEMMA TickInv ==
  ASSUME LoopInv, RateLimitRead \/ BeforeTickDone \/ BodyDone, UNCHANGED lane
  PROVE  LoopInv'
<1> USE DEF LoopInv
<1>1. sched \in Schedules
  BY DEF TypeOK
<1>2. CASE RateLimitRead
  <2>1. CASE stopped /\ EndTick(sched)
    <3>1. Ends(sched)
      BY <1>1, <2>1 DEF Ends, RefreshFree, Halts
    <3> QED
      BY <1>2, <2>1, <3>1, EndTickInv DEF RateLimitRead
  <2>2. CASE ~stopped /\ EndTick(Attempt([sched EXCEPT !.limited = TRUE]))
    <3>1. [sched EXCEPT !.limited = TRUE] \in Schedules
      BY <1>1 DEF Schedules
    <3>2. Ends(Attempt([sched EXCEPT !.limited = TRUE]))
      BY <2>2, <3>1, AttemptMade, LaneTyped DEF Ends
    <3> QED
      BY <1>2, <2>2, <3>2, EndTickInv DEF RateLimitRead
  <2>3. CASE /\ ~stopped /\ HasBeforeTick
             /\ phase' = "before" /\ UNCHANGED <<start, rerun, sched, recurring, asked>>
    BY <1>2, <2>3
    DEF RateLimitRead, TypeOK, RefreshFree, Halts, Announced, RetryKept,
        IsDelayed, HasBeforeTick, QuickRetries
  <2>4. CASE /\ ~stopped /\ ~HasBeforeTick
             /\ BeginBody /\ UNCHANGED <<start, rerun, recurring>>
    BY <1>2, <2>4, BeginBodyInv, LaneTyped DEF RateLimitRead, TypeOK, Halts
  <2> QED
    BY <1>2, <2>1, <2>2, <2>3, <2>4 DEF RateLimitRead
<1>3. CASE BeforeTickDone
  <2>1. CASE EndTick(sched)
    <3>1. HasBeforeTick
      BY <1>3 DEF BeforeTickDone, Announced
    <3>2. Ends(sched)
      BY <1>1, <3>1 DEF Ends, RefreshFree, Halts
    <3> QED
      BY <1>3, <2>1, <3>2, EndTickInv DEF BeforeTickDone
  <2>2. CASE ~stopped /\ BeginBody /\ UNCHANGED <<start, rerun, recurring>>
    BY <1>3, <2>2, BeginBodyInv, LaneTyped DEF BeforeTickDone, TypeOK, Halts
  <2> QED
    BY <1>3, <2>1, <2>2 DEF BeforeTickDone
<1>4. CASE BodyDone
  <2>1. CASE stopped /\ EndTick(sched)
    <3>1. Ends(sched)
      BY <1>1, <2>1 DEF Ends, RefreshFree, Halts
    <3> QED
      BY <1>4, <2>1, <3>1, EndTickInv DEF BodyDone
  <2>2. CASE ~stopped /\ EndTick(Unscheduled)
    <3>1. 0 \in 0..MaxFailures /\ 0 \in 0..MaxQuick
      BY BoundsAssumption
    <3>2. Ends(Unscheduled)
      BY <2>2, <3>1 DEF Ends, Unscheduled, Schedules
    <3> QED
      BY <1>4, <2>2, <3>2, EndTickInv DEF BodyDone
  <2>3. ASSUME NEW isLimited \in BOOLEAN, ~stopped, EndTick(Failed(isLimited))
        PROVE  LoopInv'
    BY <1>4, <2>3, FailedEnds, EndTickInv DEF BodyDone
  <2> QED
    BY <1>4, <2>1, <2>2, <2>3 DEF BodyDone
<1> QED
  BY <1>2, <1>3, <1>4

\* The retry timer is spent; what it starts announces nothing.
LEMMA RetryInv ==
  ASSUME LoopInv, RetryFires, UNCHANGED lane
  PROVE  LoopInv'
<1> USE DEF LoopInv
<1> DEFINE spent == [sched EXCEPT !.retryTimer = FALSE]
<1>1. sched \in Schedules /\ ~stopped /\ sched.retryTimer
  BY DEF TypeOK, Halts, RetryFires
<1>2. /\ spent \in Schedules /\ ~spent.retryTimer
      /\ spent.limited = sched.limited /\ spent.backoff = sched.backoff
      /\ spent.announced = sched.announced
  BY <1>1 DEF Schedules
<1>3. \/ phase = "idle" /\ RunTick("retry", spent)
      \/ phase # "idle" /\ sched' = spent /\ UNCHANGED <<phase, asked>>
  BY DEF RetryFires
<1> HIDE DEF spent
<1>4. CASE phase = "idle" /\ RunTick("retry", spent)
  <2>1. /\ phase' = "body" /\ asked' = FALSE
        /\ sched' \in Schedules /\ ~sched'.announced /\ ~sched'.retryTimer
        /\ sched'.limited = sched.limited /\ sched'.backoff = sched.backoff
    BY <1>1, <1>2, <1>4, SchedulesClosed DEF RunTick, Admits
  <2> QED
    BY <1>1, <2>1, LaneTyped
    DEF RetryFires, TypeOK, RefreshFree, Halts, Announced, RetryKept,
        IsDelayed, HasBeforeTick, QuickRetries
<1>5. CASE phase # "idle" /\ sched' = spent /\ UNCHANGED <<phase, asked>>
  BY <1>1, <1>2, <1>5, LaneTyped
  DEF RetryFires, TypeOK, RefreshFree, Halts, Announced, RetryKept,
      IsDelayed, HasBeforeTick, QuickRetries
<1> QED
  BY <1>3, <1>4, <1>5

\* A back-off and a rate limit end by themselves; a stop clears the schedule.
LEMMA ScheduleInv ==
  ASSUME LoopInv, BackoffEnds \/ RateLimitEnds \/ Stop, UNCHANGED lane
  PROVE  LoopInv'
<1> USE DEF LoopInv
<1>1. sched \in Schedules
  BY DEF TypeOK
<1>2. CASE BackoffEnds \/ RateLimitEnds
  <2>1. /\ sched' \in Schedules
        /\ ~sched.limited => ~sched'.limited
        /\ sched'.announced = sched.announced
        /\ sched'.retryTimer = sched.retryTimer
    BY <1>1, <1>2 DEF BackoffEnds, RateLimitEnds, Schedules
  <2> QED
    BY <1>2, <2>1
    DEF BackoffEnds, RateLimitEnds, TypeOK, RefreshFree, Halts, Announced, RetryKept,
        IsDelayed, HasBeforeTick, QuickRetries
<1>3. CASE Stop
  <2>1. 0 \in 0..MaxFailures /\ 0 \in 0..MaxQuick
    BY BoundsAssumption
  <2>2. sched' \in Schedules /\ ~sched'.limited /\ ~sched'.announced /\ ~sched'.retryTimer
    BY <1>3, <2>1 DEF Stop, Unscheduled, Schedules
  <2> QED
    BY <1>3, <2>2
    DEF Stop, TypeOK, RefreshFree, Halts, Announced, RetryKept,
        IsDelayed, HasBeforeTick, QuickRetries
<1> QED
  BY <1>2, <1>3

\* Whatever starts a tick, or asks for one.
LEMMA StartsInv ==
  ASSUME LoopInv, UNCHANGED lane,
         \/ Start \/ PreludeDone \/ FirstTimerFires \/ IntervalFires
         \/ Refresh \/ TickSoon
  PROVE  LoopInv'
<1> USE DEF LoopInv
<1> DEFINE Same == UNCHANGED <<lane, stopped, phase, sched, refreshes>>
<1>1. ASSUME Same, rerun' = rerun \/ phase # "idle", rerun' \in BOOLEAN,
             asked' \in BOOLEAN, recurring' \in BOOLEAN,
             start' \in {"none", "prelude", "first", "waiting", "delayed", "done"},
             IsDelayed => start' # "first",
             IsDelayed /\ stopped => ~recurring'
      PROVE  LoopInv'
  BY <1>1
  DEF TypeOK, RefreshFree, Halts, Announced, RetryKept,
      IsDelayed, HasBeforeTick, QuickRetries
<1>2. CASE Start
  BY <1>1, <1>2, LaneTyped DEF Start, TypeOK, Halts
<1>3. CASE PreludeDone
  <2>1. CASE IsDelayed /\ start' = "waiting" /\ UNCHANGED <<phase, sched, recurring, asked>>
    BY <1>1, <1>3, <2>1, LaneTyped DEF PreludeDone, TypeOK, Halts
  <2>2. CASE ~IsDelayed /\ FirstTick("first", TRUE)
    <3>1. CASE /\ phase = "idle" /\ Admits("interval", sched)
               /\ BeginBody /\ start' = "first" /\ UNCHANGED recurring
      BY <1>3, <2>2, <3>1, BeginBodyInv, LaneTyped DEF PreludeDone, Admits
    <3>2. CASE start' = "done" /\ recurring' = TRUE /\ UNCHANGED <<phase, sched, asked>>
      BY <1>1, <1>3, <2>2, <3>2, LaneTyped DEF PreludeDone
    <3> QED
      BY <2>2, <3>1, <3>2 DEF FirstTick
  <2> QED
    BY <1>3, <2>1, <2>2 DEF PreludeDone
<1>4. CASE FirstTimerFires
  <2>1. CASE stopped /\ start' = "done" /\ UNCHANGED <<phase, sched, recurring, asked>>
    BY <1>1, <1>4, <2>1, LaneTyped DEF FirstTimerFires, Halts
  <2>2. CASE ~stopped /\ FirstTick("delayed", TRUE)
    <3>1. CASE /\ phase = "idle" /\ Admits("interval", sched)
               /\ BeginBody /\ start' = "delayed" /\ UNCHANGED recurring
      BY <1>4, <2>2, <3>1, BeginBodyInv, LaneTyped DEF FirstTimerFires
    <3>2. CASE start' = "done" /\ recurring' = TRUE /\ UNCHANGED <<phase, sched, asked>>
      BY <1>1, <1>4, <2>2, <3>2, LaneTyped DEF FirstTimerFires
    <3> QED
      BY <2>2, <3>1, <3>2 DEF FirstTick
  <2> QED
    BY <1>4, <2>1, <2>2 DEF FirstTimerFires
<1>5. CASE IntervalFires
  BY <1>5, BeginBodyInv, LaneTyped DEF IntervalFires, Admits, TypeOK, Halts
<1>6. CASE Refresh
  BY <1>6, LaneTyped, BoundsAssumption
  DEF Refresh, Admits, TypeOK, RefreshFree, Halts, Announced, RetryKept,
      IsDelayed, HasBeforeTick, QuickRetries
<1>7. CASE TickSoon
  <2>1. CASE phase = "idle" /\ Admits("interval", sched) /\ BeginBody /\ UNCHANGED rerun
    BY <1>7, <2>1, BeginBodyInv, LaneTyped DEF TickSoon, TypeOK, Halts
  <2>2. CASE phase # "idle" /\ rerun' = TRUE /\ asked' = TRUE /\ UNCHANGED <<phase, sched>>
    BY <1>1, <1>7, <2>2, LaneTyped DEF TickSoon, TypeOK, Halts
  <2>3. CASE phase = "idle" /\ asked' = TRUE /\ UNCHANGED <<phase, sched, rerun>>
    BY <1>1, <1>7, <2>3, LaneTyped DEF TickSoon, TypeOK, Halts
  <2> QED
    BY <1>7, <2>1, <2>2, <2>3 DEF TickSoon
<1> QED
  BY <1>2, <1>3, <1>4, <1>5, <1>6, <1>7

\* Every step keeps the invariant.
LEMMA StepInv == LoopInv /\ [Next]_vars => LoopInv'
<1> SUFFICES ASSUME LoopInv, [Next]_vars PROVE LoopInv'
  OBVIOUS
<1>1. CASE Next
  BY <1>1, TickInv, RetryInv, ScheduleInv, StartsInv DEF Next
<1>2. CASE UNCHANGED vars
  BY <1>2
  DEF vars, LoopInv, TypeOK, RefreshFree, Halts, Announced, RetryKept,
      IsDelayed, HasBeforeTick, QuickRetries
<1> QED
  BY <1>1, <1>2

\* What a step that begins a tick finds.
MayBegin ==
  ~stopped /\ IF ByOperator THEN ~sched'.limited ELSE ~sched'.backoff

\* A tick that follows another in the same step was asked for, and is refused by
\* the back-off that the other one leaves.
LEMMA EndBegins ==
  ASSUME NEW sc \in Schedules, EndTick(sc), phase' = "body"
  PROVE  rerun /\ ~rerun' /\ ~stopped /\ ~sched'.backoff
BY SchedulesClosed DEF EndTick, Reruns, RunTick, Admits

\* A body that begins has the back-off and the rate limit it found.
LEMMA BodyFinds ==
  ASSUME LoopInv, BeginBody
  PROVE  sched'.limited = sched.limited /\ sched'.backoff = sched.backoff
BY SchedulesClosed DEF LoopInv, TypeOK, BeginBody

\* A step that begins a tick may: the operator's own found no rate limit before
\* what it awaited, and the rest is refused by the back-off.
LEMMA StepBegins == LoopInv /\ [Next]_vars => (Begins => MayBegin)
<1> SUFFICES ASSUME LoopInv, [Next]_vars, Begins PROVE MayBegin
  OBVIOUS
<1>1. /\ sched \in Schedules /\ phase' = "body"
      /\ phase # "body" \/ (rerun /\ ~rerun')
      /\ phase \in {"asking", "before"} => ~sched.limited
      /\ LoopInv
  BY DEF LoopInv, TypeOK, RefreshFree, Begins, Reran
<1>2. ASSUME NEW sc \in Schedules, EndTick(sc)
      PROVE  MayBegin
  BY <1>1, <1>2, EndBegins DEF MayBegin, ByOperator, Reran
<1>3. ASSUME BeginBody, ~stopped, phase \in {"asking", "before"}, rerun' = rerun
      PROVE  MayBegin
  BY <1>1, <1>3, BodyFinds DEF MayBegin, ByOperator, Reran
<1>4. ASSUME BeginBody, phase = "idle", Admits("interval", sched)
      PROVE  MayBegin
  BY <1>4, BodyFinds DEF MayBegin, ByOperator, Reran, Admits
<1>5. CASE RateLimitRead
  <2>1. Attempt([sched EXCEPT !.limited = TRUE]) \in Schedules
    <3>1. [sched EXCEPT !.limited = TRUE] \in Schedules
      BY <1>1 DEF Schedules
    <3> QED
      BY <3>1, AttemptMade, LaneTyped
  <2> QED
    BY <1>1, <1>2, <1>3, <1>5, <2>1 DEF RateLimitRead
<1>6. CASE BeforeTickDone
  BY <1>1, <1>2, <1>3, <1>6 DEF BeforeTickDone
<1>7. CASE BodyDone
  <2>1. CASE stopped /\ EndTick(sched)
    BY <1>1, <1>2, <2>1
  <2>2. CASE EndTick(Unscheduled)
    <3>1. 0 \in 0..MaxFailures /\ 0 \in 0..MaxQuick
      BY BoundsAssumption
    <3>2. Unscheduled \in Schedules
      BY <3>1 DEF Unscheduled, Schedules
    <3> QED
      BY <1>2, <2>2, <3>2
  <2>3. ASSUME NEW isLimited \in BOOLEAN, ~stopped, EndTick(Failed(isLimited))
        PROVE  MayBegin
    BY <1>2, <2>3, FailedEnds DEF Ends
  <2> QED
    BY <1>7, <2>1, <2>2, <2>3 DEF BodyDone
<1>8. CASE RetryFires
  <2> DEFINE spent == [sched EXCEPT !.retryTimer = FALSE]
  <2>1. spent \in Schedules /\ ~spent.backoff /\ ~stopped
    BY <1>1, <1>8 DEF RetryFires, Schedules, LoopInv, Halts
  <2>2. phase = "idle" /\ RunTick("retry", spent)
    BY <1>1, <1>8 DEF RetryFires
  <2> HIDE DEF spent
  <2>3. sched' = Begun(spent)
    BY <1>1, <2>2 DEF RunTick
  <2>4. ~sched'.backoff
    BY <2>1, <2>3, SchedulesClosed
  <2> QED
    BY <2>1, <2>2, <2>4 DEF MayBegin, ByOperator
<1>9. CASE PreludeDone \/ FirstTimerFires
  BY <1>1, <1>4, <1>9 DEF PreludeDone, FirstTimerFires, FirstTick
<1>10. CASE IntervalFires \/ TickSoon
  BY <1>1, <1>4, <1>10 DEF IntervalFires, TickSoon
<1>11. CASE \/ Start \/ Refresh \/ BackoffEnds \/ RateLimitEnds \/ Stop
            \/ UNCHANGED vars
  BY <1>1, <1>11 DEF Start, Refresh, BackoffEnds, RateLimitEnds, Stop, vars
<1> QED
  BY <1>5, <1>6, <1>7, <1>8, <1>9, <1>10, <1>11 DEF Next

\* The types hold, a stop is final and an announced retry is kept, wherever the
\* loop sees to it.
THEOREM LoopStops == Spec => []StopsAndRetries
<1>1. Spec => []LoopInv
  BY InitInv, StepInv, PTL DEF Spec
<1> QED
  BY <1>1, InvStops, PTL

\* No tick begins after a stop, none of the operator under a rate limit, and no
\* other under a back-off: not even one that was asked for during the tick that
\* sets it.
THEOREM BeginsWhenFree == Spec => BeginsOnlyWhenFree
<1>1. Spec => []LoopInv
  BY InitInv, StepInv, PTL DEF Spec
<1>2. LoopInv /\ [Next]_vars
        => [Begins => ~stopped /\ IF ByOperator THEN ~sched'.limited ELSE ~sched'.backoff]_vars
  BY StepBegins DEF MayBegin
<1> QED
  BY <1>1, <1>2, PTL DEF Spec, BeginsOnlyWhenFree

-----------------------------------------------------------------------------
(* The community lane: the inductive invariant. *)

Holds == {"up", "stopping"}    \* a poller that has entries to answer for

\* Nothing is asked, run or saved before a poller is up, and of one that is
\* dead only a judge and the save that follows it are left.
TidyPoller(pl) ==
  /\ Cardinality(pl.runs) <= MaxRuns
  /\ pl.life \notin Holds => pl.runs = {} /\ pl.rows = {} /\ pl.aside = {}
  /\ pl.life \in {"unmade", "starting"} => pl.judging = {} /\ ~pl.saves
  /\ pl.life = "up" => \A q \in Questions : pl.entries[q] \in Running => q \in pl.runs

AllTidy == \A p \in Pollers : TidyPoller(pollers[p])

\* Pollers follow each other: those before the last made are dead, and the
\* runner has none while the last one stops.
InOrder ==
  /\ \A p, r \in Pollers : p < r /\ pollers[r].life # "unmade" => pollers[p].life = "dead"
  /\ poller # 0 => pollers[poller].life \in {"starting", "up"}
  /\ \A p \in Pollers :
       /\ pollers[p].life \in {"starting", "up"} => poller = p
       /\ pollers[p].life = "stopping" => poller = 0 /\ p < MaxPollers

\* What these entries must show: nothing told as saved or set aside is lost.
Keeps(entries, told, no, put) ==
  /\ \A q \in told \ no : entries[q] # "none"
  /\ \A q \in put : entries[q] = "aside"

\* The same of what a poller has yet to save before it tells.
Owes(pl, no) == Keeps(pl.entries, pl.rows, no, pl.aside)

\* No poller is left with a judge to hear, nor with a save when it is dead.
QuietPoller(pl) ==
  /\ pl.life \in {"stopping", "dead"} => pl.judging = {}
  /\ pl.life = "dead" => ~pl.saves

Quiet == \A p \in Pollers : QuietPoller(pollers[p])

Kept ==
  /\ Keeps(file, acked, dropped, setAside) /\ Keeps(loaded, acked, dropped, setAside)
  /\ \A p \in Pollers :
       /\ Owes(pollers[p], dropped)
       /\ pollers[p].life \in Holds => Keeps(pollers[p].entries, acked, dropped, setAside)

LaneInv ==
  /\ CommunityTypeOK /\ AllTidy /\ InOrder
  /\ ~overtaken => Quiet /\ Kept

-----------------------------------------------------------------------------
(* Dispatching. *)

\* A poller goes on: what it showed it still shows, researched or waiting.
Carried(pl, next) ==
  /\ next \in PollerStates /\ TidyPoller(next)
  /\ next.life = pl.life /\ next.judging = pl.judging
  /\ next.rows = pl.rows /\ next.aside = pl.aside
  /\ \A q \in Questions :
       /\ pl.entries[q] # "none" => next.entries[q] # "none"
       /\ pl.entries[q] = "aside" => next.entries[q] = "aside"

LEMMA CommunityConstants ==
  /\ MaxRuns \in Nat \ {0} /\ MaxPollers \in Nat \ {0} /\ MaxEvents \in Nat
  /\ Discord \subseteq Questions /\ IsFiniteSet(Questions)
  /\ Pollers \subseteq Nat \ {0} /\ 1 \in Pollers
  /\ \A S \in SUBSET Questions : IsFiniteSet(S) /\ Cardinality(S) \in Nat
BY LaneBounds, QuestionsAssumption, FS_Subset, FS_CardinalityType DEF Pollers

\* As many are selected as are free, of those that wait.
LEMMA SelectionsFit ==
  ASSUME NEW pl \in PollerStates, Cardinality(pl.runs) <= MaxRuns,
         NEW s \in Selections(pl)
  PROVE  /\ s \in SUBSET Questions
         /\ \A q \in s : pl.entries[q] \in Queued
         /\ pl.runs \cup s \in SUBSET Questions
         /\ Cardinality(pl.runs \cup s) <= MaxRuns
<1> DEFINE waiting == {q \in Questions : pl.entries[q] \in Queued}
<1>1. /\ s \in SUBSET waiting /\ waiting \in SUBSET Questions
      /\ pl.runs \in SUBSET Questions
      /\ Cardinality(s) = (IF Cardinality(waiting) < FreeSlots(pl)
                             THEN Cardinality(waiting) ELSE FreeSlots(pl))
  BY DEF Selections, PollerStates
<1>2. /\ Cardinality(s) \in Nat /\ Cardinality(pl.runs) \in Nat
      /\ Cardinality(waiting) \in Nat /\ MaxRuns \in Nat
      /\ IsFiniteSet(s) /\ IsFiniteSet(pl.runs)
  BY <1>1, CommunityConstants
<1> HIDE DEF waiting
<1>3. Cardinality(s) <= MaxRuns - Cardinality(pl.runs)
  BY <1>1, <1>2 DEF FreeSlots
<1>4. /\ Cardinality(pl.runs \cup s)
           = Cardinality(pl.runs) + Cardinality(s) - Cardinality(pl.runs \cap s)
      /\ Cardinality(pl.runs \cap s) \in Nat
  BY <1>1, <1>2, FS_Union, CommunityConstants
<1>5. Cardinality(pl.runs \cup s) <= MaxRuns
  <2>1. Cardinality(pl.runs \cup s) \in Int
    BY <1>2, <1>4
  <2> QED
    BY <1>2, <1>3, <1>4, <2>1
<1> QED
  BY <1>1, <1>5 DEF waiting

\* dispatchRuns starts what it selects, and hides nothing.
LEMMA Dispatches ==
  ASSUME NEW pl \in PollerStates, TidyPoller(pl), pl.life \notin {"unmade", "starting"},
         NEW next \in Dispatched(pl)
  PROVE  Carried(pl, next) /\ next.saves = pl.saves
<1>1. CASE next = pl
  BY <1>1 DEF Carried
<1>2. CASE next # pl
  <2>1. /\ ~IsStopped(pl)
        /\ \E s \in Selections(pl) :
             next = [pl EXCEPT !.runs = @ \cup s,
                       !.entries = [q \in Questions |-> IF q \in s THEN Marked(@[q]) ELSE @[q]]]
    BY <1>2 DEF Dispatched
  <2>2. PICK s \in Selections(pl) :
          next = [pl EXCEPT !.runs = @ \cup s,
                    !.entries = [q \in Questions |-> IF q \in s THEN Marked(@[q]) ELSE @[q]]]
    BY <2>1
  <2>3. pl.life = "up"
    BY <2>1 DEF IsStopped, PollerStates
  <2>4. /\ s \in SUBSET Questions /\ pl.runs \cup s \in SUBSET Questions
        /\ \A q \in s : pl.entries[q] \in Queued
        /\ Cardinality(pl.runs \cup s) <= MaxRuns
    BY SelectionsFit DEF TidyPoller
  <2> DEFINE marked == [q \in Questions |-> IF q \in s THEN Marked(pl.entries[q])
                                                       ELSE pl.entries[q]]
  <2>5. /\ marked \in [Questions -> Statuses]
        /\ \A q \in s : marked[q] \in Running
        /\ \A q \in Questions \ s : marked[q] = pl.entries[q]
    BY <2>4 DEF PollerStates, Marked, Statuses, Running
  <2> HIDE DEF marked
  <2>6. next = [pl EXCEPT !.runs = pl.runs \cup s, !.entries = marked]
    BY <2>2 DEF marked, PollerStates
  <2>7. next \in PollerStates
    BY <2>4, <2>5, <2>6 DEF PollerStates
  <2>8. /\ next.life = pl.life /\ next.judging = pl.judging /\ next.rows = pl.rows
        /\ next.aside = pl.aside /\ next.saves = pl.saves
        /\ next.runs = pl.runs \cup s /\ next.entries = marked
    BY <2>6 DEF PollerStates
  <2>9. TidyPoller(next)
    BY <2>3, <2>4, <2>5, <2>8 DEF TidyPoller, Holds
  <2>10. ASSUME NEW q \in Questions
         PROVE  /\ pl.entries[q] # "none" => next.entries[q] # "none"
                /\ pl.entries[q] = "aside" => next.entries[q] = "aside"
    BY <2>4, <2>5, <2>8 DEF Queued, Running
  <2> QED
    BY <2>7, <2>8, <2>9, <2>10 DEF Carried
<1> QED
  BY <1>1, <1>2

\* A poller is none the worse for a save that it owes.
LEMMA SavesLater ==
  ASSUME NEW pl, NEW next, Carried(pl, next), pl.life \notin {"unmade", "starting"},
         NEW b \in BOOLEAN
  PROVE  Carried(pl, [next EXCEPT !.saves = b])
<1> DEFINE owing == [next EXCEPT !.saves = b]
<1>1. next \in PollerStates
  BY DEF Carried
<1>2. /\ owing \in PollerStates /\ owing.life = next.life /\ owing.judging = next.judging
      /\ owing.rows = next.rows /\ owing.aside = next.aside
      /\ owing.runs = next.runs /\ owing.entries = next.entries
  BY <1>1 DEF PollerStates
<1> HIDE DEF owing
<1>3. TidyPoller(owing)
  BY <1>2 DEF Carried, TidyPoller
<1>4. Carried(pl, owing)
  BY <1>2, <1>3 DEF Carried
<1> QED
  BY <1>4 DEF owing

LEMMA TicksOn ==
  ASSUME NEW p \in Pollers, NEW pl \in PollerStates, TidyPoller(pl),
         pl.life \notin {"unmade", "starting"}, TickGoesOn(p, pl)
  PROVE  \E next : pollers' = [pollers EXCEPT ![p] = next] /\ Carried(pl, next)
<1>1. PICK next \in Dispatched(pl) :
        pollers' = [pollers EXCEPT ![p] = [next EXCEPT !.saves = TRUE]]
  BY DEF TickGoesOn
<1>2. Carried(pl, [next EXCEPT !.saves = TRUE])
  BY Dispatches, SavesLater
<1> QED
  BY <1>1, <1>2

LEMMA CarriedKeeps ==
  ASSUME NEW pl, NEW next, Carried(pl, next),
         NEW told \in SUBSET Questions, NEW no, NEW put \in SUBSET Questions,
         Keeps(pl.entries, told, no, put)
  PROVE  Keeps(next.entries, told, no, put)
BY DEF Carried, Keeps

-----------------------------------------------------------------------------
(* Steps of one poller. *)

LEMMA TypedPollers ==
  ASSUME LaneInv, NEW p \in Pollers
  PROVE  pollers[p] \in PollerStates /\ TidyPoller(pollers[p])
BY DEF LaneInv, CommunityTypeOK, AllTidy

\* Two pollers never have entries to answer for at a time.
LEMMA OneHolds ==
  ASSUME LaneInv, NEW p \in Pollers, NEW r \in Pollers,
         pollers[p].life \in Holds, pollers[r].life \in Holds
  PROVE  p = r
<1>1. p < r \/ r < p \/ p = r
  BY CommunityConstants
<1> QED
  BY <1>1 DEF LaneInv, InOrder, Holds

\* What a step of one poller owes the invariant: that poller's own part of it.
LEMMA PollerMoves ==
  ASSUME LaneInv, NEW p \in Pollers, NEW pl \in PollerStates, TidyPoller(pl),
         pollers' = [pollers EXCEPT ![p] = pl],
         \/ pl.life = pollers[p].life
         \/ pollers[p].life = "starting" /\ pl.life = "up",
         UNCHANGED <<poller, file, loaded, acked, overtaken>>,
         setAside' \subseteq setAside, dropped \subseteq dropped',
         dropped' \subseteq Questions, events' \in 0..MaxEvents,
         ~overtaken =>
           /\ QuietPoller(pl) /\ Owes(pl, dropped')
           /\ pl.life \in Holds => Keeps(pl.entries, acked, dropped', setAside')
  PROVE  LaneInv'
<1>1. /\ pollers \in [Pollers -> PollerStates]
      /\ pollers' \in [Pollers -> PollerStates]
      /\ pollers'[p] = pl
      /\ \A r \in Pollers \ {p} : pollers'[r] = pollers[r]
  BY DEF LaneInv, CommunityTypeOK
<1>2. CommunityTypeOK'
  BY <1>1 DEF LaneInv, CommunityTypeOK
<1>3. AllTidy'
  BY <1>1 DEF LaneInv, AllTidy
<1>4. \A r \in Pollers :
        \/ pollers'[r].life = pollers[r].life
        \/ pollers[r].life = "starting" /\ pollers'[r].life = "up"
  BY <1>1
<1>5. InOrder'
  <2>1. InOrder /\ poller' = poller
    BY DEF LaneInv
  <2>2. \A q, r \in Pollers : q < r /\ pollers'[r].life # "unmade" => pollers'[q].life = "dead"
    BY <2>1, <1>4 DEF InOrder
  <2>3. poller' # 0 => pollers'[poller'].life \in {"starting", "up"}
    <3>1. CASE poller = p
      BY <3>1, <1>1, <2>1 DEF InOrder
    <3>2. CASE poller # p /\ poller # 0
      <4>1. poller \in Pollers
        BY <3>2 DEF LaneInv, CommunityTypeOK, Pollers
      <4> QED
        BY <3>2, <4>1, <1>1, <2>1 DEF InOrder
    <3> QED
      BY <3>1, <3>2, <2>1
  <2>4. \A r \in Pollers :
          /\ pollers'[r].life \in {"starting", "up"} => poller' = r
          /\ pollers'[r].life = "stopping" => poller' = 0 /\ r < MaxPollers
    BY <2>1, <1>4 DEF InOrder
  <2> QED
    BY <2>2, <2>3, <2>4 DEF InOrder
<1>6. ASSUME ~overtaken
      PROVE  Quiet' /\ Kept'
  <2>1. Quiet /\ Kept
    BY <1>6 DEF LaneInv
  <2>2. Quiet'
    BY <1>1, <1>6, <2>1 DEF Quiet
  <2>3. \A entries : Keeps(entries, acked, dropped, setAside)
                       => Keeps(entries, acked', dropped', setAside')
    BY DEF Keeps
  <2>4. \A r \in Pollers \ {p} : Owes(pollers'[r], dropped')
    BY <1>1, <2>1 DEF Kept, Owes, Keeps
  <2>5. \A r \in Pollers \ {p} :
          pollers'[r].life \in Holds
            => Keeps(pollers'[r].entries, acked', dropped', setAside')
    BY <1>1, <2>1, <2>3 DEF Kept
  <2>6. /\ Keeps(file', acked', dropped', setAside')
        /\ Keeps(loaded', acked', dropped', setAside')
    BY <2>1, <2>3 DEF Kept
  <2>7. Owes(pollers'[p], dropped')
        /\ (pollers'[p].life \in Holds
              => Keeps(pollers'[p].entries, acked', dropped', setAside'))
    BY <1>1, <1>6
  <2>8. \A r \in Pollers :
          /\ Owes(pollers'[r], dropped')
          /\ pollers'[r].life \in Holds
               => Keeps(pollers'[r].entries, acked', dropped', setAside')
    BY <2>4, <2>5, <2>7
  <2> QED
    BY <2>2, <2>6, <2>8 DEF Kept
<1> QED
  BY <1>2, <1>3, <1>5, <1>6 DEF LaneInv

\* While no judge was overtaken, the poller's own part of the invariant.
LEMMA OwnPart ==
  ASSUME LaneInv, ~overtaken, NEW p \in Pollers
  PROVE  /\ QuietPoller(pollers[p]) /\ Owes(pollers[p], dropped)
         /\ pollers[p].life \in Holds
              => Keeps(pollers[p].entries, acked, dropped, setAside)
BY DEF LaneInv, Quiet, Kept

\* A step that carries a poller's entries on, whatever else it did to them.
LEMMA CarriedMoves ==
  ASSUME LaneInv, NEW p \in Pollers, NEW pl \in PollerStates, NEW next,
         Carried(pl, next), pl.life = pollers[p].life,
         pollers' = [pollers EXCEPT ![p] = next],
         UNCHANGED <<poller, file, loaded, acked, overtaken>>,
         setAside' \subseteq setAside, dropped \subseteq dropped',
         dropped' \subseteq Questions, events' \in 0..MaxEvents,
         ~overtaken =>
           /\ pl.life # "dead" /\ (pl.life = "stopping" => pl.judging = {})
           /\ Owes(pl, dropped')
           /\ pl.life \in Holds => Keeps(pl.entries, acked, dropped', setAside')
  PROVE  LaneInv'
<1>1. /\ next \in PollerStates /\ TidyPoller(next) /\ next.life = pl.life
      /\ next.judging = pl.judging /\ next.rows = pl.rows /\ next.aside = pl.aside
  BY DEF Carried
<1>2. /\ acked \in SUBSET Questions /\ setAside' \in SUBSET Questions
      /\ pl.rows \in SUBSET Questions /\ pl.aside \in SUBSET Questions
  BY DEF LaneInv, CommunityTypeOK, PollerStates
<1>3. ASSUME ~overtaken
      PROVE  /\ QuietPoller(next) /\ Owes(next, dropped')
             /\ next.life \in Holds => Keeps(next.entries, acked, dropped', setAside')
  <2>1. QuietPoller(next)
    BY <1>1, <1>3 DEF QuietPoller
  <2>2. Owes(next, dropped')
    BY <1>1, <1>2, <1>3, CarriedKeeps DEF Owes
  <2>3. next.life \in Holds => Keeps(next.entries, acked, dropped', setAside')
    BY <1>1, <1>2, <1>3, CarriedKeeps
  <2> QED
    BY <2>1, <2>2, <2>3
<1> QED
  BY <1>1, <1>3, PollerMoves

-----------------------------------------------------------------------------
(* Each action keeps the invariant. *)

FirstPollers ==
  [p \in Pollers |-> IF p = 1 THEN [Unmade EXCEPT !.life = "starting"] ELSE Unmade]

\* Before anything is done the first poller is to start and the rest are unmade.
LEMMA FirstPollersAre ==
  /\ Empty \in [Questions -> Statuses]
  /\ FirstPollers \in [Pollers -> PollerStates]
  /\ \A p \in Pollers :
       /\ FirstPollers[p].life = (IF p = 1 THEN "starting" ELSE "unmade")
       /\ FirstPollers[p].rows = {} /\ FirstPollers[p].aside = {}
       /\ TidyPoller(FirstPollers[p]) /\ QuietPoller(FirstPollers[p])
<1> DEFINE first == [Unmade EXCEPT !.life = "starting"]
<1>1. Empty \in [Questions -> Statuses]
  BY DEF Empty, Statuses
<1>2. /\ Unmade \in PollerStates /\ Unmade.life = "unmade"
      /\ Unmade.runs = {} /\ Unmade.rows = {} /\ Unmade.aside = {}
      /\ Unmade.judging = {} /\ Unmade.saves = FALSE
  BY <1>1 DEF Unmade, PollerStates
<1>3. /\ first \in PollerStates /\ first.life = "starting"
      /\ first.runs = {} /\ first.rows = {} /\ first.aside = {}
      /\ first.judging = {} /\ first.saves = FALSE
  BY <1>1 DEF Unmade, PollerStates
<1>4. FirstPollers = [p \in Pollers |-> IF p = 1 THEN first ELSE Unmade]
  BY DEF FirstPollers
<1> HIDE DEF first
<1>5. Cardinality({}) <= MaxRuns
  BY FS_EmptySet, CommunityConstants
<1>6. /\ TidyPoller(first) /\ TidyPoller(Unmade)
      /\ QuietPoller(first) /\ QuietPoller(Unmade)
  BY <1>2, <1>3, <1>5 DEF TidyPoller, QuietPoller, Holds
<1> QED
  BY <1>1, <1>2, <1>3, <1>4, <1>6

\* As the server begins, the invariant asks only that the file keeps its word.
Fresh ==
  /\ AllTidy /\ InOrder /\ Quiet
  /\ \A p \in Pollers : pollers[p].life \notin Holds /\ \A no : Owes(pollers[p], no)

LEMMA FreshServer == pollers = FirstPollers /\ poller = 1 => Fresh
<1> SUFFICES ASSUME pollers = FirstPollers, poller = 1 PROVE Fresh
  OBVIOUS
<1>1. poller = 1 /\ 1 \in Pollers /\ \A p \in Pollers : p \in Nat /\ p >= 1
  BY CommunityConstants
<1>2. \A p \in Pollers : pollers[p].life = (IF p = 1 THEN "starting" ELSE "unmade")
  BY FirstPollersAre
<1>3. InOrder
  <2>1. \A p, r \in Pollers : p < r => pollers[r].life = "unmade"
    BY <1>1, <1>2
  <2>2. pollers[poller].life \in {"starting", "up"}
    BY <1>1, <1>2
  <2>3. \A p \in Pollers : /\ pollers[p].life \in {"starting", "up"} => poller = p
                           /\ pollers[p].life # "stopping"
    BY <1>1, <1>2
  <2> QED
    BY <2>1, <2>2, <2>3 DEF InOrder
<1>4. AllTidy /\ Quiet
  BY FirstPollersAre DEF AllTidy, Quiet
<1>5. \A p \in Pollers : /\ pollers[p].life \notin Holds
                         /\ \A no : Owes(pollers[p], no)
  BY <1>2, FirstPollersAre DEF Holds, Owes, Keeps
<1> QED
  BY <1>3, <1>4, <1>5 DEF Fresh

LEMMA FreshAgain == pollers' = FirstPollers /\ poller' = 1 => Fresh'
<1>1. (pollers = FirstPollers /\ poller = 1 => Fresh)'
  BY FreshServer, PTL
<1> QED
  BY <1>1

LEMMA CommunityBegins == CommunityInit => LaneInv
<1> SUFFICES ASSUME CommunityInit PROVE LaneInv
  OBVIOUS
<1>1. pollers = FirstPollers /\ poller = 1
  BY DEF CommunityInit, FirstPollers
<1>2. CommunityTypeOK
  <2>1. poller \in 0..MaxPollers /\ events \in 0..MaxEvents
    BY CommunityConstants DEF CommunityInit
  <2>2. overtaken \in BOOLEAN
    BY Zenon DEF CommunityInit
  <2>3. {acked, dropped, setAside} \subseteq SUBSET Questions
    BY DEF CommunityInit
  <2> QED
    BY <1>1, <2>1, <2>2, <2>3, FirstPollersAre DEF CommunityInit, CommunityTypeOK
<1>3. Keeps(file, acked, dropped, setAside) /\ Keeps(loaded, acked, dropped, setAside)
  BY DEF CommunityInit, Keeps
<1> QED
  BY <1>1, <1>2, <1>3, FreshServer DEF Fresh, LaneInv, Kept

LEMMA LoadKeeps ==
  ASSUME LaneInv, NEW p \in Pollers, Load(p)
  PROVE  LaneInv'
<1> DEFINE pl == [pollers[p] EXCEPT !.life = "up", !.entries = RequeueInterrupted(loaded)]
<1>1. /\ pollers[p].life = "starting" /\ pollers[p] \in PollerStates
      /\ TidyPoller(pollers[p]) /\ loaded \in [Questions -> Statuses]
  BY TypedPollers DEF Load, LaneInv, CommunityTypeOK
<1>2. /\ RequeueInterrupted(loaded) \in [Questions -> Statuses]
      /\ \A q \in Questions :
           /\ RequeueInterrupted(loaded)[q] \notin Running
           /\ loaded[q] # "none" => RequeueInterrupted(loaded)[q] # "none"
           /\ loaded[q] = "aside" => RequeueInterrupted(loaded)[q] = "aside"
  BY <1>1 DEF RequeueInterrupted, Statuses, Running
<1>3. /\ pl \in PollerStates /\ pl.life = "up" /\ pl.entries = RequeueInterrupted(loaded)
      /\ pl.runs = pollers[p].runs /\ pl.rows = pollers[p].rows
      /\ pl.aside = pollers[p].aside
  BY <1>1, <1>2 DEF PollerStates
<1>4. pollers' = [pollers EXCEPT ![p] = pl]
  BY DEF Load
<1> HIDE DEF pl
<1>5. pl.runs = {} /\ pl.rows = {} /\ pl.aside = {}
  BY <1>1, <1>3 DEF TidyPoller, Holds
<1>6. TidyPoller(pl)
  <2>1. Cardinality(pl.runs) <= MaxRuns
    BY <1>1, <1>3 DEF TidyPoller
  <2> QED
    BY <2>1, <1>2, <1>3, <1>5 DEF TidyPoller, Holds
<1>7. UNCHANGED <<poller, file, loaded, acked, dropped, setAside, overtaken, events>>
  BY DEF Load
<1>8. dropped' \subseteq Questions /\ events' \in 0..MaxEvents /\ acked \in SUBSET Questions
      /\ setAside \in SUBSET Questions
  BY <1>7 DEF LaneInv, CommunityTypeOK
<1>9. ASSUME ~overtaken
      PROVE  /\ QuietPoller(pl) /\ Owes(pl, dropped')
             /\ pl.life \in Holds => Keeps(pl.entries, acked, dropped', setAside')
  <2>1. Keeps(loaded, acked, dropped, setAside)
    BY <1>9 DEF LaneInv, Kept
  <2>2. Keeps(pl.entries, acked, dropped', setAside')
    BY <2>1, <1>2, <1>3, <1>7, <1>8 DEF Keeps
  <2>3. QuietPoller(pl) /\ Owes(pl, dropped')
    BY <1>3, <1>5 DEF QuietPoller, Owes, Keeps
  <2> QED
    BY <2>2, <2>3
<1> QED
  BY <1>1, <1>3, <1>4, <1>6, <1>7, <1>8, <1>9, PollerMoves

\* The runner's poller, and what it has.
LEMMA RunnersPoller ==
  ASSUME LaneInv, poller # 0
  PROVE  /\ poller \in Pollers /\ pollers[poller] \in PollerStates
         /\ TidyPoller(pollers[poller])
  <1>1. poller \in Pollers
    BY DEF LaneInv, CommunityTypeOK, Pollers
  <1> QED
    BY <1>1, TypedPollers

LEMMA AcceptRowsKeeps ==
  ASSUME LaneInv, NEW q \in Questions, AcceptRows(q)
  PROVE  LaneInv'
<1> DEFINE p == poller
           old == pollers[p]
           shown == [old.entries EXCEPT ![q] = IF @ = "none" THEN "pending" ELSE @]
           pl == [old EXCEPT !.rows = @ \cup {q}, !.entries = shown]
<1>1. /\ p \in Pollers /\ old \in PollerStates /\ TidyPoller(old) /\ old.life = "up"
  BY RunnersPoller DEF AcceptRows
<1>2. pollers' = [pollers EXCEPT ![p] = pl]
  BY <1>1 DEF AcceptRows, PollerStates
<1>3. /\ shown \in [Questions -> Statuses] /\ shown[q] # "none"
      /\ \A r \in Questions :
           /\ shown[r] = old.entries[r] \/ (shown[r] = "pending" /\ old.entries[r] = "none")
  BY <1>1 DEF PollerStates, Statuses
<1> HIDE DEF shown
<1>4. /\ pl \in PollerStates /\ pl.life = "up" /\ pl.entries = shown
      /\ pl.runs = old.runs /\ pl.rows = old.rows \cup {q}
      /\ pl.aside = old.aside
  BY <1>1, <1>3 DEF PollerStates
<1>5. UNCHANGED <<poller, file, loaded, acked, dropped, setAside, overtaken, events>>
  BY DEF AcceptRows
<1>6. /\ dropped' \subseteq Questions /\ events' \in 0..MaxEvents
      /\ acked \in SUBSET Questions /\ setAside \in SUBSET Questions
      /\ old.rows \in SUBSET Questions /\ old.aside \in SUBSET Questions
  BY <1>5, <1>1 DEF LaneInv, CommunityTypeOK, PollerStates
<1> HIDE DEF pl
<1>7. TidyPoller(pl)
  BY <1>1, <1>3, <1>4 DEF TidyPoller, Holds, Running
<1>8. ASSUME ~overtaken
      PROVE  /\ QuietPoller(pl) /\ Owes(pl, dropped')
             /\ pl.life \in Holds => Keeps(pl.entries, acked, dropped', setAside')
  <2>1. Owes(old, dropped) /\ Keeps(old.entries, acked, dropped, setAside)
    BY <1>8, <1>1, OwnPart DEF Holds
  <2>2. Keeps(pl.entries, acked, dropped', setAside')
    BY <2>1, <1>3, <1>4, <1>5, <1>6 DEF Keeps
  <2>3. Owes(pl, dropped')
    BY <2>1, <1>3, <1>4, <1>5, <1>6 DEF Owes, Keeps
  <2>4. QuietPoller(pl)
    BY <1>4 DEF QuietPoller
  <2> QED
    BY <2>2, <2>3, <2>4
<1> QED
  BY <1>1, <1>2, <1>4, <1>5, <1>6, <1>7, <1>8, PollerMoves

\* What is admitted was pending, and is queued or called no question.
LEMMA AdmittedIs ==
  ASSUME NEW entries \in [Questions -> Statuses], NEW keys, NEW isQuestion
  PROVE  /\ Admitted(entries, keys, isQuestion) \in [Questions -> Statuses]
         /\ \A q \in Questions :
              /\ Admitted(entries, keys, isQuestion)[q] \in Running => entries[q] \in Running
              /\ entries[q] # "none" /\ (q \notin keys \/ q \in isQuestion)
                   => Admitted(entries, keys, isQuestion)[q] # "none"
              /\ entries[q] = "aside" => Admitted(entries, keys, isQuestion)[q] = "aside"
BY DEF Admitted, Statuses, Running

LEMMA CarriedOn ==
  ASSUME NEW a, NEW b, NEW c, Carried(a, b), Carried(b, c)
  PROVE  Carried(a, c)
BY DEF Carried

LEMMA TickKeeps ==
  ASSUME LaneInv, NEW p \in Pollers, Tick(p)
  PROVE  LaneInv'
<1> DEFINE old == pollers[p]
           forum == Questions \ Discord
           entries == Admitted(old.entries, Pending(old.entries, forum), forum)
           candidates == Pending(entries, Discord)
           admitted == [old EXCEPT !.entries = entries]
           asking == [admitted EXCEPT !.judging = candidates]
<1>1. old \in PollerStates /\ TidyPoller(old) /\ old.life = "up"
  BY TypedPollers DEF Tick
<1>2. /\ entries \in [Questions -> Statuses]
      /\ \A q \in Questions :
           /\ entries[q] \in Running => old.entries[q] \in Running
           /\ old.entries[q] # "none" => entries[q] # "none"
           /\ old.entries[q] = "aside" => entries[q] = "aside"
  <2>1. old.entries \in [Questions -> Statuses]
    BY <1>1 DEF PollerStates
  <2> DEFINE keys == Pending(old.entries, forum)
  <2>2. keys \subseteq forum
    BY DEF Pending
  <2>3. entries = Admitted(old.entries, keys, forum)
    OBVIOUS
  <2> HIDE DEF entries, keys, forum
  <2> QED
    BY <2>1, <2>2, <2>3, AdmittedIs
<1>3. candidates \in SUBSET Discord
  BY DEF Pending
<1>4. /\ UNCHANGED <<poller, file, loaded, acked, dropped, setAside, overtaken, events>>
      /\ \/ pollers' = [pollers EXCEPT ![p] = asking]
         \/ TickGoesOn(p, admitted)
  BY DEF Tick
<1> HIDE DEF entries, candidates
<1>5. /\ admitted \in PollerStates /\ admitted.life = "up" /\ admitted.entries = entries
      /\ admitted.runs = old.runs /\ admitted.rows = old.rows /\ admitted.aside = old.aside
      /\ admitted.judging = old.judging
  BY <1>1, <1>2 DEF PollerStates
<1>6. /\ asking \in PollerStates /\ asking.life = "up" /\ asking.entries = entries
      /\ asking.runs = old.runs /\ asking.rows = old.rows /\ asking.aside = old.aside
  BY <1>1, <1>2, <1>3 DEF PollerStates
<1> HIDE DEF admitted, asking
<1>7. TidyPoller(admitted) /\ TidyPoller(asking)
  BY <1>1, <1>2, <1>5, <1>6 DEF TidyPoller, Holds
<1>8. Carried(old, admitted)
  BY <1>1, <1>2, <1>5, <1>7 DEF Carried
<1>9. /\ dropped' \subseteq Questions /\ events' \in 0..MaxEvents
      /\ acked \in SUBSET Questions /\ setAside \in SUBSET Questions
      /\ old.rows \in SUBSET Questions /\ old.aside \in SUBSET Questions
  BY <1>4, <1>1 DEF LaneInv, CommunityTypeOK, PollerStates
<1>10. CASE pollers' = [pollers EXCEPT ![p] = asking]
  <2>1. ASSUME ~overtaken
        PROVE  /\ QuietPoller(asking) /\ Owes(asking, dropped')
               /\ asking.life \in Holds => Keeps(asking.entries, acked, dropped', setAside')
    <3>1. Owes(old, dropped) /\ Keeps(old.entries, acked, dropped, setAside)
      BY <2>1, <1>1, OwnPart DEF Holds
    <3>2. Keeps(asking.entries, acked, dropped', setAside')
      BY <3>1, <1>2, <1>4, <1>6, <1>9 DEF Keeps
    <3>3. Owes(asking, dropped')
      BY <3>1, <1>2, <1>4, <1>6, <1>9 DEF Owes, Keeps
    <3> QED
      BY <3>2, <3>3, <1>6 DEF QuietPoller
  <2> QED
    BY <1>1, <1>4, <1>6, <1>7, <1>9, <1>10, <2>1, PollerMoves
<1>11. CASE TickGoesOn(p, admitted)
  <2>1. PICK next : pollers' = [pollers EXCEPT ![p] = next] /\ Carried(admitted, next)
    BY <1>5, <1>7, <1>11, TicksOn
  <2>2. Carried(old, next)
    BY <1>8, <2>1, CarriedOn
  <2>3. ASSUME ~overtaken
        PROVE  /\ old.life # "dead" /\ (old.life = "stopping" => old.judging = {})
               /\ Owes(old, dropped')
               /\ old.life \in Holds => Keeps(old.entries, acked, dropped', setAside')
    BY <2>3, <1>1, <1>4, OwnPart DEF Holds
  <2> QED
    BY <1>1, <1>4, <1>9, <2>1, <2>2, <2>3, CarriedMoves
<1> QED
  BY <1>4, <1>10, <1>11

LEMMA JudgeAnswersKeeps ==
  ASSUME LaneInv, NEW p \in Pollers, JudgeAnswers(p)
  PROVE  LaneInv'
<1> DEFINE old == pollers[p]
           judged == old.judging
           idle == [old EXCEPT !.judging = {}]
<1>1. /\ old \in PollerStates /\ TidyPoller(old) /\ judged # {}
      /\ judged \in SUBSET Questions
  BY TypedPollers, CommunityConstants DEF JudgeAnswers, PollerStates
<1>2. old.life \notin {"unmade", "starting"}
  BY <1>1 DEF TidyPoller
<1>3. ~overtaken => old.life = "up"
  BY <1>1, <1>2, OwnPart DEF QuietPoller, PollerStates
<1>4. UNCHANGED <<poller, file, loaded, acked, setAside, overtaken, events>>
  BY DEF JudgeAnswers
<1>5. PICK answer, no :
        /\ TickGoesOn(p, [idle EXCEPT !.entries = answer])
        /\ dropped' = dropped \cup no /\ no \in SUBSET Questions
        /\ answer \in [Questions -> Statuses]
        /\ \A q \in Questions :
             /\ answer[q] \in Running => old.entries[q] \in Running
             /\ old.entries[q] # "none" /\ q \notin no => answer[q] # "none"
             /\ old.entries[q] = "aside" => answer[q] = "aside"
  <2>1. old.entries \in [Questions -> Statuses]
    BY <1>1 DEF PollerStates
  <2>2. CASE TickGoesOn(p, idle) /\ UNCHANGED dropped
    <3>1. idle = [idle EXCEPT !.entries = old.entries]
      BY <1>1 DEF PollerStates
    <3>2. TickGoesOn(p, [idle EXCEPT !.entries = old.entries])
      BY <2>2, <3>1
    <3> DEFINE answer == old.entries
               no == {}
    <3>3. TickGoesOn(p, [idle EXCEPT !.entries = answer])
      BY <3>2
    <3>4. /\ answer \in [Questions -> Statuses]
          /\ \A q \in Questions :
               /\ answer[q] \in Running => old.entries[q] \in Running
               /\ old.entries[q] # "none" /\ q \notin no => answer[q] # "none"
               /\ old.entries[q] = "aside" => answer[q] = "aside"
      BY <2>1
    <3>5. dropped' = dropped \cup no /\ no \in SUBSET Questions
      BY <2>2
    <3> HIDE DEF answer, no, idle
    <3> QED
      BY <3>3, <3>4, <3>5
  <2>3. ASSUME NEW isQuestion \in SUBSET judged,
               TickGoesOn(p, [idle EXCEPT !.entries = Admitted(@, judged, isQuestion)]),
               dropped' = dropped \cup (judged \ isQuestion)
        PROVE  \E answer, no :
                 /\ TickGoesOn(p, [idle EXCEPT !.entries = answer])
                 /\ dropped' = dropped \cup no /\ no \in SUBSET Questions
                 /\ answer \in [Questions -> Statuses]
                 /\ \A q \in Questions :
                      /\ answer[q] \in Running => old.entries[q] \in Running
                      /\ old.entries[q] # "none" /\ q \notin no => answer[q] # "none"
                      /\ old.entries[q] = "aside" => answer[q] = "aside"
    <3> DEFINE answer == Admitted(old.entries, judged, isQuestion)
               no == judged \ isQuestion
    <3>1. idle.entries = old.entries
      BY <1>1 DEF PollerStates
    <3>2. [idle EXCEPT !.entries = Admitted(@, judged, isQuestion)]
            = [idle EXCEPT !.entries = answer]
      BY <3>1, <1>1 DEF PollerStates
    <3>3. TickGoesOn(p, [idle EXCEPT !.entries = answer])
      BY <2>3, <3>2
    <3>4. /\ answer \in [Questions -> Statuses]
          /\ \A q \in Questions :
               /\ answer[q] \in Running => old.entries[q] \in Running
               /\ old.entries[q] # "none" /\ q \notin no => answer[q] # "none"
               /\ old.entries[q] = "aside" => answer[q] = "aside"
      BY <2>1, AdmittedIs
    <3>5. dropped' = dropped \cup no /\ no \in SUBSET Questions
      BY <1>1, <2>3
    <3> QED
      BY <3>3, <3>4, <3>5
  <2> QED
    BY <2>2, <2>3 DEF JudgeAnswers
<1> DEFINE pl == [idle EXCEPT !.entries = answer]
<1>6. /\ pl \in PollerStates /\ pl.life = old.life /\ pl.entries = answer
      /\ pl.runs = old.runs /\ pl.rows = old.rows /\ pl.aside = old.aside
      /\ pl.judging = {}
  BY <1>1, <1>5 DEF PollerStates
<1>7. TickGoesOn(p, pl)
  BY <1>5
<1> HIDE DEF pl
<1>8. TidyPoller(pl)
  BY <1>1, <1>2, <1>5, <1>6 DEF TidyPoller
<1>9. PICK next : pollers' = [pollers EXCEPT ![p] = next] /\ Carried(pl, next)
  BY <1>2, <1>6, <1>7, <1>8, TicksOn
<1>10. /\ dropped' \subseteq Questions /\ dropped \subseteq dropped' /\ events' \in 0..MaxEvents
       /\ acked \in SUBSET Questions /\ setAside \in SUBSET Questions
       /\ old.rows \in SUBSET Questions /\ old.aside \in SUBSET Questions
  BY <1>4, <1>5, <1>1 DEF LaneInv, CommunityTypeOK, PollerStates
<1>11. ASSUME ~overtaken
       PROVE  /\ pl.life # "dead" /\ (pl.life = "stopping" => pl.judging = {})
              /\ Owes(pl, dropped')
              /\ pl.life \in Holds => Keeps(pl.entries, acked, dropped', setAside')
  <2>1. Owes(old, dropped) /\ Keeps(old.entries, acked, dropped, setAside)
    BY <1>3, <1>11, OwnPart DEF Holds
  <2>2. Keeps(pl.entries, acked, dropped', setAside')
    BY <2>1, <1>4, <1>5, <1>6, <1>10 DEF Keeps
  <2>3. Owes(pl, dropped')
    BY <2>1, <1>5, <1>6, <1>10 DEF Owes, Keeps
  <2> QED
    BY <2>2, <2>3, <1>3, <1>6, <1>11
<1> QED
  BY <1>4, <1>6, <1>9, <1>10, <1>11, CarriedMoves

LEMMA EntryFromRunIs ==
  ASSUME NEW entry \in Statuses, NEW outcome \in {"ready", "error", "timeout"}
  PROVE  /\ EntryFromRun(entry, outcome) \in Statuses \ Running
         /\ entry # "none" => EntryFromRun(entry, outcome) # "none"
         /\ entry = "aside" => EntryFromRun(entry, outcome) = "aside"
BY DEF EntryFromRun, Statuses, Running

\* A poller that stops only lets its run go; another takes the result.
LEMMA FinishRunKeeps ==
  ASSUME LaneInv, NEW p \in Pollers, NEW q \in Questions, FinishRun(p, q)
  PROVE  LaneInv'
<1> DEFINE old == pollers[p]
           left == [old EXCEPT !.runs = @ \ {q}]
<1>1. /\ old \in PollerStates /\ TidyPoller(old) /\ q \in old.runs
      /\ UNCHANGED <<poller, file, loaded, acked, dropped, setAside, overtaken, events>>
  BY TypedPollers DEF FinishRun
<1>2. old.life \in {"up", "stopping"}
  BY <1>1 DEF TidyPoller, Holds
<1>3. /\ left \in PollerStates /\ left.life = old.life /\ left.entries = old.entries
      /\ left.runs = old.runs \ {q} /\ left.judging = old.judging
      /\ left.rows = old.rows /\ left.aside = old.aside /\ left.saves = old.saves
  BY <1>1 DEF PollerStates
<1>4. Cardinality(left.runs) <= MaxRuns
  <2>1. old.runs \in SUBSET Questions /\ IsFiniteSet(old.runs)
    BY <1>1, CommunityConstants DEF PollerStates
  <2>2. /\ Cardinality(left.runs) <= Cardinality(old.runs)
        /\ Cardinality(left.runs) \in Nat /\ Cardinality(old.runs) \in Nat
    BY <1>3, <2>1, FS_Subset, FS_CardinalityType
  <2>3. Cardinality(old.runs) <= MaxRuns /\ MaxRuns \in Nat
    BY <1>1, CommunityConstants DEF TidyPoller
  <2> QED
    BY <2>2, <2>3
<1>5. PICK outcome \in {"ready", "error", "timeout"} :
        IF IsStopped(left) THEN pollers' = [pollers EXCEPT ![p] = left]
        ELSE \E next \in Dispatched([left EXCEPT !.entries[q] = EntryFromRun(@, outcome)]) :
               pollers' = [pollers EXCEPT ![p] =
                 [next EXCEPT !.saves = @ \/ left.entries[q] \in Running]]
  BY DEF FinishRun
<1>6. /\ dropped' \subseteq Questions /\ events' \in 0..MaxEvents
      /\ acked \in SUBSET Questions /\ setAside \in SUBSET Questions
      /\ old.rows \in SUBSET Questions /\ old.aside \in SUBSET Questions
  BY <1>1 DEF LaneInv, CommunityTypeOK, PollerStates
<1> HIDE DEF left
<1>7. CASE IsStopped(left)
  <2>1. old.life = "stopping" /\ pollers' = [pollers EXCEPT ![p] = left]
    BY <1>2, <1>3, <1>5, <1>7 DEF IsStopped
  <2>2. TidyPoller(left)
    BY <1>3, <1>4, <2>1 DEF TidyPoller, Holds
  <2>3. ASSUME ~overtaken
        PROVE  /\ QuietPoller(left) /\ Owes(left, dropped')
               /\ left.life \in Holds => Keeps(left.entries, acked, dropped', setAside')
    <3>1. QuietPoller(old) /\ Owes(old, dropped) /\ Keeps(old.entries, acked, dropped, setAside)
      BY <2>1, <2>3, OwnPart DEF Holds
    <3> QED
      BY <3>1, <1>1, <1>3 DEF QuietPoller, Owes
  <2> QED
    BY <1>1, <1>3, <1>6, <2>1, <2>2, <2>3, PollerMoves
<1>8. CASE ~IsStopped(left)
  <2>1. old.life = "up"
    BY <1>2, <1>3, <1>8 DEF IsStopped
  <2> DEFINE result == EntryFromRun(old.entries[q], outcome)
             pl == [left EXCEPT !.entries = [old.entries EXCEPT ![q] = result]]
  <2>2. old.entries[q] \in Statuses /\ old.entries \in [Questions -> Statuses]
    BY <1>1 DEF PollerStates
  <2>3. /\ result \in Statuses \ Running
        /\ old.entries[q] # "none" => result # "none"
        /\ old.entries[q] = "aside" => result = "aside"
    BY <2>2, EntryFromRunIs
  <2>4. [left EXCEPT !.entries[q] = EntryFromRun(@, outcome)] = pl
    BY <1>3 DEF PollerStates
  <2> HIDE DEF result
  <2>5. /\ pl \in PollerStates /\ pl.life = "up" /\ pl.judging = old.judging
        /\ pl.entries = [old.entries EXCEPT ![q] = result]
        /\ pl.runs = left.runs /\ pl.rows = old.rows /\ pl.aside = old.aside
    BY <1>3, <2>1, <2>2, <2>3 DEF PollerStates
  <2>6. PICK next \in Dispatched(pl) :
          pollers' = [pollers EXCEPT ![p] =
            [next EXCEPT !.saves = @ \/ left.entries[q] \in Running]]
    BY <1>5, <1>8, <2>4
  <2> HIDE DEF pl
  <2>7. TidyPoller(pl)
    BY <1>1, <1>3, <1>4, <2>1, <2>2, <2>3, <2>5 DEF TidyPoller, Holds
  <2>8. Carried(pl, next)
    BY <2>5, <2>7, Dispatches
  <2> DEFINE owing == next.saves \/ left.entries[q] \in Running
  <2>9. owing \in BOOLEAN
    <3>1. next.saves \in BOOLEAN
      BY Zenon, <2>8 DEF Carried, PollerStates
    <3> QED
      BY Zenon, <3>1
  <2>10. [next EXCEPT !.saves = @ \/ left.entries[q] \in Running]
           = [next EXCEPT !.saves = owing]
    BY <2>8 DEF Carried, PollerStates
  <2> HIDE DEF owing
  <2>11. Carried(pl, [next EXCEPT !.saves = owing])
    BY <2>5, <2>8, <2>9, SavesLater
  <2>12. ASSUME ~overtaken
         PROVE  /\ pl.life # "dead" /\ (pl.life = "stopping" => pl.judging = {})
                /\ Owes(pl, dropped')
                /\ pl.life \in Holds => Keeps(pl.entries, acked, dropped', setAside')
    <3>1. Owes(old, dropped) /\ Keeps(old.entries, acked, dropped, setAside)
      BY <2>1, <2>12, OwnPart DEF Holds
    <3>2. \A r \in Questions :
            /\ old.entries[r] # "none" => pl.entries[r] # "none"
            /\ old.entries[r] = "aside" => pl.entries[r] = "aside"
      BY <2>2, <2>3, <2>5
    <3>3. Keeps(pl.entries, acked, dropped', setAside')
      BY <3>1, <3>2, <1>1, <1>6 DEF Keeps
    <3>4. Owes(pl, dropped')
      BY <3>1, <3>2, <1>1, <1>6, <2>5 DEF Owes, Keeps
    <3> QED
      BY <3>3, <3>4, <2>5
  <2> QED
    BY <1>1, <1>6, <2>1, <2>5, <2>6, <2>10, <2>11, <2>12, CarriedMoves
<1> QED
  BY <1>7, <1>8

LEMMA SetAsideKeeps ==
  ASSUME LaneInv, NEW q \in Questions, SetAside(q)
  PROVE  LaneInv'
<1> DEFINE p == poller
           old == pollers[p]
           put == [old.entries EXCEPT ![q] = "aside"]
           pl == [old EXCEPT !.entries = put]
           told == [pl EXCEPT !.aside = old.aside \cup {q}]
<1>1. /\ p \in Pollers /\ old \in PollerStates /\ TidyPoller(old) /\ old.life = "up"
      /\ UNCHANGED <<poller, file, loaded, acked, dropped, setAside, overtaken>>
      /\ events' = events + 1 /\ events < MaxEvents
  BY RunnersPoller DEF SetAside, Happens
<1>2. /\ put \in [Questions -> Statuses] /\ put[q] = "aside"
      /\ \A r \in Questions \ {q} : put[r] = old.entries[r]
  BY <1>1 DEF PollerStates, Statuses
<1>3. [old EXCEPT !.entries[q] = "aside"] = pl
  BY <1>1 DEF PollerStates
<1> HIDE DEF put
<1>4. /\ pl \in PollerStates /\ pl.life = "up" /\ pl.entries = put
      /\ pl.runs = old.runs /\ pl.rows = old.rows /\ pl.aside = old.aside
      /\ pl.judging = old.judging
  BY <1>1, <1>2 DEF PollerStates
<1>5. /\ told \in PollerStates /\ told.life = "up" /\ told.entries = put
      /\ told.runs = old.runs /\ told.rows = old.rows
      /\ told.aside = old.aside \cup {q} /\ told.judging = old.judging
  BY <1>1, <1>2, <1>4 DEF PollerStates
<1>6. PICK next \in Dispatched(pl) :
        pollers' = [pollers EXCEPT ![p] = [next EXCEPT !.aside = @ \cup {q}]]
  BY <1>3 DEF SetAside
<1> HIDE DEF pl, told
<1>7. TidyPoller(pl)
  BY <1>1, <1>2, <1>4 DEF TidyPoller, Holds, Running
<1>8. Carried(pl, next)
  BY <1>4, <1>7, Dispatches
<1> DEFINE new == [next EXCEPT !.aside = @ \cup {q}]
<1>9. Carried(told, new)
  <2>1. next \in PollerStates /\ next.aside = old.aside
    BY <1>4, <1>8 DEF Carried
  <2>2. /\ new \in PollerStates /\ new.life = next.life /\ new.judging = next.judging
        /\ new.rows = next.rows /\ new.aside = old.aside \cup {q}
        /\ new.runs = next.runs /\ new.entries = next.entries
    BY <2>1 DEF PollerStates
  <2> HIDE DEF new
  <2>3. TidyPoller(new)
    BY <1>4, <1>8, <2>2 DEF Carried, TidyPoller, Holds
  <2> QED
    BY <1>4, <1>5, <1>8, <2>2, <2>3 DEF Carried
<1>10. /\ dropped' \subseteq Questions
       /\ acked \in SUBSET Questions /\ setAside \in SUBSET Questions
       /\ old.rows \in SUBSET Questions /\ old.aside \in SUBSET Questions
  BY <1>1 DEF LaneInv, CommunityTypeOK, PollerStates
<1>11. events' \in 0..MaxEvents
  BY <1>1, CommunityConstants DEF LaneInv, CommunityTypeOK
<1>12. ASSUME ~overtaken
       PROVE  /\ told.life # "dead" /\ (told.life = "stopping" => told.judging = {})
              /\ Owes(told, dropped')
              /\ told.life \in Holds => Keeps(told.entries, acked, dropped', setAside')
  <2>1. Owes(old, dropped) /\ Keeps(old.entries, acked, dropped, setAside)
    BY <1>12, <1>1, OwnPart DEF Holds
  <2>2. Keeps(told.entries, acked, dropped', setAside')
    BY <2>1, <1>1, <1>2, <1>5, <1>10 DEF Keeps
  <2>3. Owes(told, dropped')
    BY <2>1, <1>1, <1>2, <1>5, <1>10 DEF Owes, Keeps
  <2> QED
    BY <2>2, <2>3, <1>5
<1> QED
  BY <1>1, <1>5, <1>6, <1>9, <1>10, <1>11, <1>12, CarriedMoves

LEMMA RerunKeeps ==
  ASSUME LaneInv, NEW q \in Questions, Rerun(q)
  PROVE  LaneInv'
<1> DEFINE p == poller
           old == pollers[p]
           again == [old.entries EXCEPT ![q] = "queued"]
           pl == [old EXCEPT !.entries = again, !.aside = old.aside \ {q}]
<1>1. /\ p \in Pollers /\ old \in PollerStates /\ TidyPoller(old) /\ old.life = "up"
      /\ UNCHANGED <<poller, file, loaded, acked, dropped, overtaken>>
      /\ setAside' = setAside \ {q}
      /\ events' = events + 1 /\ events < MaxEvents
  BY RunnersPoller DEF Rerun, Happens
<1>2. /\ again \in [Questions -> Statuses] /\ again[q] = "queued"
      /\ \A r \in Questions \ {q} : again[r] = old.entries[r]
  BY <1>1 DEF PollerStates, Statuses
<1>3. [old EXCEPT !.entries[q] = "queued", !.aside = @ \ {q}] = pl
  BY <1>1 DEF PollerStates
<1> HIDE DEF again
<1>4. /\ pl \in PollerStates /\ pl.life = "up" /\ pl.entries = again
      /\ pl.runs = old.runs /\ pl.rows = old.rows /\ pl.aside = old.aside \ {q}
      /\ pl.judging = old.judging
  BY <1>1, <1>2 DEF PollerStates
<1>5. PICK next \in Dispatched(pl) :
        pollers' = [pollers EXCEPT ![p] = [next EXCEPT !.saves = TRUE]]
  BY <1>3 DEF Rerun
<1> HIDE DEF pl
<1>6. TidyPoller(pl)
  BY <1>1, <1>2, <1>4 DEF TidyPoller, Holds, Running
<1>7. Carried(pl, [next EXCEPT !.saves = TRUE])
  BY <1>4, <1>6, Dispatches, SavesLater
<1>8. /\ dropped' \subseteq Questions
      /\ acked \in SUBSET Questions /\ setAside \in SUBSET Questions
      /\ old.rows \in SUBSET Questions /\ old.aside \in SUBSET Questions
  BY <1>1 DEF LaneInv, CommunityTypeOK, PollerStates
<1>9. events' \in 0..MaxEvents
  BY <1>1, CommunityConstants DEF LaneInv, CommunityTypeOK
<1>10. ASSUME ~overtaken
       PROVE  /\ pl.life # "dead" /\ (pl.life = "stopping" => pl.judging = {})
              /\ Owes(pl, dropped')
              /\ pl.life \in Holds => Keeps(pl.entries, acked, dropped', setAside')
  <2>1. Owes(old, dropped) /\ Keeps(old.entries, acked, dropped, setAside)
    BY <1>10, <1>1, OwnPart DEF Holds
  <2>2. Keeps(pl.entries, acked, dropped', setAside')
    BY <2>1, <1>1, <1>2, <1>4, <1>8 DEF Keeps
  <2>3. Owes(pl, dropped')
    BY <2>1, <1>1, <1>2, <1>4, <1>8 DEF Owes, Keeps
  <2> QED
    BY <2>2, <2>3, <1>4
<1> QED
  BY <1>1, <1>4, <1>5, <1>7, <1>8, <1>9, <1>10, CarriedMoves

\* A save writes the entries of the poller, and tells what it was to tell.
LEMMA SaveKeeps ==
  ASSUME LaneInv, NEW p \in Pollers, Save(p)
  PROVE  LaneInv'
<1> DEFINE old == pollers[p]
<1>1. old \in PollerStates /\ TidyPoller(old) /\ pollers \in [Pollers -> PollerStates]
  BY TypedPollers DEF LaneInv, CommunityTypeOK
<1>2. PICK ok \in BOOLEAN :
        \/ SaveRows(p, ok) /\ UNCHANGED setAside
        \/ SaveAside(p, ok) /\ UNCHANGED acked
        \/ Persist(p, ok) /\ UNCHANGED <<acked, setAside>>
  BY DEF Save
<1>3. /\ UNCHANGED <<poller, dropped, overtaken>>
      /\ loaded' = old.entries /\ file' = IF ok THEN old.entries ELSE file
      /\ events' \in 0..MaxEvents
  <2>1. Write(p, ok) /\ UNCHANGED <<poller, dropped, overtaken>>
    BY <1>2 DEF Save, SaveRows, SaveAside, Persist
  <2>2. events' = events \/ (events < MaxEvents /\ events' = events + 1)
    BY <2>1 DEF Write, Happens
  <2>3. events \in 0..MaxEvents
    BY DEF LaneInv, CommunityTypeOK
  <2> QED
    BY <2>1, <2>2, <2>3, CommunityConstants DEF Write
<1>4. PICK pl \in PollerStates :
        /\ pollers' = [pollers EXCEPT ![p] = pl]
        /\ pl.life = old.life /\ pl.entries = old.entries /\ pl.runs = old.runs
        /\ pl.judging = old.judging
        /\ pl.rows \subseteq old.rows /\ pl.aside \subseteq old.aside
        /\ ~old.saves => ~pl.saves
        /\ acked' \subseteq acked \cup old.rows
        /\ setAside' \subseteq setAside \cup old.aside
        /\ ~ok => acked' = acked /\ setAside' = setAside
        /\ old.rows # {} \/ old.aside # {} \/ old.saves
  <2>1. CASE SaveRows(p, ok) /\ UNCHANGED setAside
    <3> DEFINE pl == [old EXCEPT !.rows = {}]
    <3>1. pollers' = [pollers EXCEPT ![p] = pl]
      BY <2>1 DEF SaveRows
    <3>2. /\ pl \in PollerStates /\ pl.life = old.life /\ pl.entries = old.entries
          /\ pl.runs = old.runs /\ pl.judging = old.judging /\ pl.rows = {}
          /\ pl.aside = old.aside /\ pl.saves = old.saves
      BY <1>1 DEF PollerStates
    <3> HIDE DEF pl
    <3> QED
      BY <2>1, <3>1, <3>2 DEF SaveRows
  <2>2. CASE SaveAside(p, ok) /\ UNCHANGED acked
    <3> DEFINE pl == [old EXCEPT !.aside = {}]
    <3>1. pollers' = [pollers EXCEPT ![p] = pl]
      BY <2>2 DEF SaveAside
    <3>2. /\ pl \in PollerStates /\ pl.life = old.life /\ pl.entries = old.entries
          /\ pl.runs = old.runs /\ pl.judging = old.judging /\ pl.rows = old.rows
          /\ pl.aside = {} /\ pl.saves = old.saves
      BY <1>1 DEF PollerStates
    <3> HIDE DEF pl
    <3> QED
      BY <2>2, <3>1, <3>2 DEF SaveAside
  <2>3. CASE Persist(p, ok) /\ UNCHANGED <<acked, setAside>>
    <3> DEFINE pl == [old EXCEPT !.saves = FALSE]
    <3>1. pollers' = [pollers EXCEPT ![p] = pl] /\ old.saves
      BY <2>3 DEF Persist
    <3>2. /\ pl \in PollerStates /\ pl.life = old.life /\ pl.entries = old.entries
          /\ pl.runs = old.runs /\ pl.judging = old.judging /\ pl.rows = old.rows
          /\ pl.aside = old.aside /\ pl.saves = FALSE
      BY <1>1 DEF PollerStates
    <3> HIDE DEF pl
    <3> QED
      BY <2>3, <3>1, <3>2
  <2> QED
    BY <1>2, <2>1, <2>2, <2>3
<1>5. /\ pollers' \in [Pollers -> PollerStates] /\ pollers'[p] = pl
      /\ \A r \in Pollers \ {p} : pollers'[r] = pollers[r]
      /\ \A r \in Pollers : pollers'[r].life = pollers[r].life
  BY <1>1, <1>4
<1>6. /\ file \in [Questions -> Statuses] /\ overtaken \in BOOLEAN /\ poller \in 0..MaxPollers
      /\ acked \in SUBSET Questions /\ setAside \in SUBSET Questions
      /\ dropped \in SUBSET Questions
      /\ old.rows \in SUBSET Questions /\ old.aside \in SUBSET Questions
      /\ old.entries \in [Questions -> Statuses]
  BY <1>1 DEF LaneInv, CommunityTypeOK, PollerStates
<1>7. CommunityTypeOK'
  <2>1. file' \in [Questions -> Statuses] /\ loaded' \in [Questions -> Statuses]
    BY <1>3, <1>6
  <2>2. {acked', dropped', setAside'} \subseteq SUBSET Questions
    BY <1>3, <1>4, <1>6
  <2>3. overtaken' \in BOOLEAN /\ poller' \in 0..MaxPollers
    BY <1>3, <1>6
  <2> QED
    BY <1>3, <1>5, <2>1, <2>2, <2>3 DEF CommunityTypeOK
<1>8. AllTidy'
  <2>1. TidyPoller(pl)
    <3>1. /\ old.rows = {} => pl.rows = {}
          /\ old.aside = {} => pl.aside = {}
      BY <1>4
    <3> QED
      BY <3>1, <1>1, <1>4 DEF TidyPoller
  <2> QED
    BY <2>1, <1>5 DEF LaneInv, AllTidy
<1>9. InOrder'
  BY <1>3, <1>5, <1>6 DEF LaneInv, InOrder, Pollers
<1>10. ASSUME ~overtaken
       PROVE  Quiet' /\ Kept'
  <2>1. old.life \in Holds
    <3>1. old.life \notin {"unmade", "starting", "dead"}
      BY <1>1, <1>4, <1>10, OwnPart DEF TidyPoller, QuietPoller, Holds
    <3> QED
      BY <3>1, <1>1 DEF PollerStates, Holds
  <2>2. /\ Owes(old, dropped) /\ Keeps(old.entries, acked, dropped, setAside)
        /\ QuietPoller(old)
    BY <2>1, <1>10, OwnPart
  <2>3. Keeps(old.entries, acked', dropped', setAside')
    BY <2>2, <1>3, <1>4, <1>6 DEF Owes, Keeps
  <2>4. Keeps(file', acked', dropped', setAside')
    <3>1. CASE ok
      BY <3>1, <2>3, <1>3
    <3>2. CASE ~ok
      BY <3>2, <1>3, <1>4, <1>10 DEF LaneInv, Kept
    <3> QED
      BY <3>1, <3>2
  <2>5. Keeps(loaded', acked', dropped', setAside')
    BY <2>3, <1>3
  <2>6. Owes(pl, dropped')
    BY <2>2, <1>3, <1>4, <1>6 DEF Owes, Keeps
  <2>7. QuietPoller(pl)
    BY <2>2, <1>4 DEF QuietPoller
  <2>8. Quiet'
    BY <2>7, <1>5, <1>10 DEF LaneInv, Quiet
  <2>9. \A r \in Pollers \ {p} : pollers[r].life \notin Holds
    BY <2>1, OneHolds
  <2>10. ASSUME NEW r \in Pollers
         PROVE  /\ Owes(pollers'[r], dropped')
                /\ pollers'[r].life \in Holds
                     => Keeps(pollers'[r].entries, acked', dropped', setAside')
    <3>1. CASE r = p
      BY <3>1, <2>3, <2>6, <1>4, <1>5
    <3>2. CASE r # p
      BY <3>2, <2>9, <1>3, <1>5, <1>10, OwnPart
    <3> QED
      BY <3>1, <3>2
  <2> QED
    BY <2>4, <2>5, <2>8, <2>10 DEF Kept
<1> QED
  BY <1>3, <1>7, <1>8, <1>9, <1>10 DEF LaneInv

LEMMA RestartKeeps ==
  ASSUME LaneInv, Restart
  PROVE  LaneInv'
<1> DEFINE p == poller
           old == pollers[p]
           pl == [old EXCEPT !.life = "stopping"]
<1>1. /\ p \in Pollers /\ old \in PollerStates /\ TidyPoller(old) /\ old.life = "up"
      /\ UNCHANGED <<file, loaded, acked, dropped, setAside>>
      /\ poller' = 0 /\ p < MaxPollers
      /\ overtaken' = (overtaken \/ old.judging # {})
      /\ events' = events + 1 /\ events < MaxEvents
      /\ pollers \in [Pollers -> PollerStates]
  BY RunnersPoller DEF Restart, Happens, LaneInv, CommunityTypeOK
<1>2. pollers' = [pollers EXCEPT ![p] = pl]
  BY <1>1 DEF Restart
<1>3. /\ pl \in PollerStates /\ pl.life = "stopping" /\ pl.entries = old.entries
      /\ pl.runs = old.runs /\ pl.rows = old.rows /\ pl.aside = old.aside
      /\ pl.judging = old.judging /\ pl.saves = old.saves
  BY <1>1 DEF PollerStates
<1> HIDE DEF pl
<1>4. /\ pollers' \in [Pollers -> PollerStates] /\ pollers'[p] = pl
      /\ \A r \in Pollers \ {p} : pollers'[r] = pollers[r]
  BY <1>1, <1>2, <1>3
<1>5. CommunityTypeOK'
  <2>1. events' \in 0..MaxEvents /\ poller' \in 0..MaxPollers
    BY <1>1, CommunityConstants DEF LaneInv, CommunityTypeOK
  <2>2. overtaken' \in BOOLEAN
    BY Zenon, <1>1 DEF LaneInv, CommunityTypeOK
  <2> QED
    BY <1>1, <1>4, <2>1, <2>2 DEF LaneInv, CommunityTypeOK
<1>6. AllTidy'
  <2>1. TidyPoller(pl)
    BY <1>1, <1>3 DEF TidyPoller, Holds
  <2> QED
    BY <2>1, <1>4 DEF LaneInv, AllTidy
<1>7. InOrder'
  <2>1. InOrder /\ p # 0
    BY CommunityConstants, <1>1 DEF LaneInv
  <2>2. \A r \in Pollers \ {p} : pollers[r].life \notin {"starting", "up", "stopping"}
    BY <2>1, <1>1 DEF InOrder
  <2>3. \A q, r \in Pollers : q < r /\ pollers'[r].life # "unmade" => pollers'[q].life = "dead"
    <3> SUFFICES ASSUME NEW q \in Pollers, NEW r \in Pollers, q < r,
                        pollers'[r].life # "unmade"
                 PROVE  pollers'[q].life = "dead"
      OBVIOUS
    <3>1. pollers[r].life # "unmade"
      BY <1>1, <1>4
    <3>2. pollers[q].life = "dead"
      BY <2>1, <3>1 DEF InOrder
    <3> QED
      BY <3>2, <1>1, <1>4
  <2>4. \A r \in Pollers :
          /\ pollers'[r].life \in {"starting", "up"} => poller' = r
          /\ pollers'[r].life = "stopping" => poller' = 0 /\ r < MaxPollers
    BY <2>2, <1>1, <1>3, <1>4
  <2> QED
    BY <2>3, <2>4, <1>1 DEF InOrder
<1>8. ASSUME ~overtaken'
      PROVE  Quiet' /\ Kept'
  <2>1. ~overtaken /\ old.judging = {}
    BY <1>1, <1>8
  <2>2. Quiet /\ Kept
    BY <2>1 DEF LaneInv
  <2>3. Owes(old, dropped) /\ Keeps(old.entries, acked, dropped, setAside)
    BY <2>1, <1>1, OwnPart DEF Holds
  <2>4. QuietPoller(pl) /\ Owes(pl, dropped) /\ Keeps(pl.entries, acked, dropped, setAside)
    BY <2>1, <2>3, <1>3 DEF QuietPoller, Owes
  <2>5. Quiet'
    BY <2>2, <2>4, <1>4 DEF Quiet
  <2> QED
    BY <2>2, <2>4, <2>5, <1>1, <1>4 DEF Kept
<1> QED
  BY <1>5, <1>6, <1>7, <1>8 DEF LaneInv

LEMMA StoppedKeeps ==
  ASSUME LaneInv, NEW p \in Pollers, Stopped(p)
  PROVE  LaneInv'
<1> DEFINE old == pollers[p]
           kept == IF old.judging = {} THEN Empty ELSE old.entries
           pl == [old EXCEPT !.life = "dead", !.entries = kept]
           s == p + 1
           first == [pollers[s] EXCEPT !.life = "starting"]
<1>1. /\ old \in PollerStates /\ TidyPoller(old) /\ old.life = "stopping" /\ Drained(old)
      /\ UNCHANGED <<file, loaded, acked, dropped, setAside, overtaken, events>>
      /\ poller' = s /\ pollers \in [Pollers -> PollerStates]
  BY TypedPollers DEF Stopped, LaneInv, CommunityTypeOK
<1>2. /\ poller = 0 /\ p < MaxPollers /\ InOrder
  BY <1>1 DEF LaneInv, InOrder
<1>3. /\ p \in Nat /\ s \in Nat /\ s \in Pollers /\ s # p /\ p < s /\ s # 0
      /\ s \in 0..MaxPollers
      /\ \A r \in Pollers : r \in Nat /\ (r < s => r < p \/ r = p)
                            /\ (p < r => r = s \/ s < r) /\ r # 0
  BY <1>2, CommunityConstants DEF Pollers
<1>4. \A r \in Pollers : p < r => pollers[r].life = "unmade"
  <2> SUFFICES ASSUME NEW r \in Pollers, p < r PROVE pollers[r].life = "unmade"
    OBVIOUS
  <2> QED
    BY <1>1, <1>2 DEF InOrder
<1>5. pollers' = [pollers EXCEPT ![p] = pl, ![s] = first]
  BY <1>1, <1>3 DEF Stopped
<1>6. kept \in [Questions -> Statuses]
  BY <1>1 DEF Empty, Statuses, PollerStates
<1> HIDE DEF kept
<1>7. /\ pl \in PollerStates /\ pl.life = "dead" /\ pl.runs = {} /\ pl.rows = {}
      /\ pl.aside = {} /\ ~pl.saves /\ pl.judging = old.judging
  BY <1>1, <1>6 DEF PollerStates, Drained
<1>8. /\ pollers[s] \in PollerStates /\ TidyPoller(pollers[s]) /\ pollers[s].life = "unmade"
  BY <1>3, <1>4, TypedPollers
<1>9. /\ first \in PollerStates /\ first.life = "starting" /\ first.runs = {} /\ first.rows = {}
      /\ first.aside = {} /\ ~first.saves /\ first.judging = {}
  BY <1>8 DEF PollerStates, TidyPoller, Holds
<1> HIDE DEF pl, first
<1>10. /\ pollers' \in [Pollers -> PollerStates] /\ pollers'[p] = pl /\ pollers'[s] = first
       /\ \A r \in Pollers \ {p, s} : pollers'[r] = pollers[r]
  BY <1>1, <1>3, <1>5, <1>7, <1>9
<1>11. CommunityTypeOK'
  BY <1>1, <1>3, <1>10 DEF LaneInv, CommunityTypeOK
<1>12. AllTidy'
  <2>1. Cardinality({}) <= MaxRuns
    BY FS_EmptySet, CommunityConstants
  <2>2. TidyPoller(pl) /\ TidyPoller(first)
    BY <2>1, <1>7, <1>9 DEF TidyPoller, Holds
  <2> QED
    BY <2>2, <1>10 DEF LaneInv, AllTidy
<1>13. InOrder'
  <2>1. ASSUME NEW q \in Pollers, NEW r \in Pollers, q < r, pollers'[r].life # "unmade"
        PROVE  pollers'[q].life = "dead"
    <3>1. r = s \/ r = p \/ r < p
      BY <2>1, <1>3, <1>4, <1>10
    <3>2. q = p \/ (q < p /\ q # s)
      BY <2>1, <3>1, <1>3
    <3>3. CASE q = p
      BY <3>3, <1>7, <1>10
    <3>4. CASE q < p /\ q # s
      <4>1. pollers[q].life = "dead"
        BY <3>4, <1>1, <1>2 DEF InOrder
      <4> QED
        BY <3>4, <4>1, <1>3, <1>10
    <3> QED
      BY <3>2, <3>3, <3>4
  <2>2. pollers'[poller'].life \in {"starting", "up"}
    BY <1>1, <1>9, <1>10
  <2>3. \A r \in Pollers \ {p, s} : pollers[r].life \notin {"starting", "up", "stopping"}
    BY <1>1, <1>2, <1>3, OneHolds DEF InOrder, Holds
  <2>4. \A r \in Pollers :
          /\ pollers'[r].life \in {"starting", "up"} => poller' = r
          /\ pollers'[r].life = "stopping" => poller' = 0 /\ r < MaxPollers
    BY <2>3, <1>1, <1>7, <1>9, <1>10
  <2> QED
    BY <2>1, <2>2, <2>4 DEF InOrder
<1>14. ASSUME ~overtaken
       PROVE  Quiet' /\ Kept'
  <2>1. Quiet /\ Kept /\ old.judging = {}
    BY <1>1, <1>14, OwnPart DEF LaneInv, QuietPoller
  <2>2. QuietPoller(pl) /\ QuietPoller(first)
    BY <2>1, <1>7, <1>9 DEF QuietPoller
  <2>3. Owes(pl, dropped) /\ Owes(first, dropped)
    BY <1>7, <1>9 DEF Owes, Keeps
  <2>4. Quiet'
    BY <2>1, <2>2, <1>10 DEF Quiet
  <2>5. ASSUME NEW r \in Pollers
        PROVE  /\ Owes(pollers'[r], dropped)
               /\ pollers'[r].life \in Holds
                    => Keeps(pollers'[r].entries, acked, dropped, setAside)
    <3>1. CASE r \in {p, s}
      BY <3>1, <2>3, <1>7, <1>9, <1>10 DEF Holds
    <3>2. CASE r \notin {p, s}
      BY <3>2, <2>1, <1>10 DEF Kept
    <3> QED
      BY <3>1, <3>2
  <2> QED
    BY <2>1, <2>4, <2>5, <1>1 DEF Kept
<1> QED
  BY <1>1, <1>11, <1>12, <1>13, <1>14 DEF LaneInv

LEMMA CrashKeeps ==
  ASSUME LaneInv, Crash
  PROVE  LaneInv'
<1>1. /\ pollers' = FirstPollers /\ poller' = 1 /\ loaded' = file
      /\ UNCHANGED <<file, acked, dropped, setAside, overtaken>>
      /\ events' = events + 1 /\ events < MaxEvents
  BY DEF Crash, Happens, FirstPollers
<1>2. CommunityTypeOK'
  <2>1. poller' \in 0..MaxPollers /\ events' \in 0..MaxEvents
    BY <1>1, CommunityConstants DEF LaneInv, CommunityTypeOK
  <2> QED
    BY <1>1, <2>1, FirstPollersAre DEF LaneInv, CommunityTypeOK
<1>3. /\ AllTidy' /\ InOrder' /\ Quiet'
      /\ \A p \in Pollers : /\ pollers'[p].life \notin Holds
                            /\ \A no : Owes(pollers'[p], no)
  BY <1>1, FreshAgain DEF Fresh
<1>4. ASSUME ~overtaken
      PROVE  Kept'
  BY <1>1, <1>3, <1>4 DEF LaneInv, Kept
<1> QED
  BY <1>1, <1>2, <1>3, <1>4 DEF LaneInv

-----------------------------------------------------------------------------
(* The theorem. *)

LEMMA LaneKeeps ==
  ASSUME LaneInv, [CommunityNext]_communityVars
  PROVE  LaneInv'
<1>1. CASE UNCHANGED communityVars
  BY <1>1 DEF communityVars, LaneInv, CommunityTypeOK, AllTidy, InOrder, Quiet, Kept
<1>2. CASE CommunityNext
  BY <1>2, LoadKeeps, TickKeeps, JudgeAnswersKeeps, SaveKeeps, StoppedKeeps, FinishRunKeeps,
     AcceptRowsKeeps, SetAsideKeeps, RerunKeeps, RestartKeeps, CrashKeeps DEF CommunityNext
<1> QED
  BY <1>1, <1>2

\* All the research that runs is that of one poller.
LEMMA RunsAreOnes ==
  ASSUME LaneInv
  PROVE  FewRuns
<1> DEFINE all == UNION {Runs(p) : p \in Pollers}
<1>1. CASE \A p \in Pollers : pollers[p].runs = {}
  <2>1. all = {}
    BY <1>1 DEF Runs
  <2> QED
    BY <2>1, FS_EmptySet, CommunityConstants DEF FewRuns
<1>2. ASSUME NEW p \in Pollers, pollers[p].runs # {}
      PROVE  FewRuns
  <2>1. ASSUME NEW r \in Pollers, r # p
        PROVE  pollers[r].runs = {}
    BY <1>2, <2>1, TypedPollers, OneHolds DEF TidyPoller
  <2>2. all = {p} \X pollers[p].runs
    BY <2>1 DEF Runs
  <2>3. /\ IsFiniteSet(pollers[p].runs) /\ Cardinality(pollers[p].runs) \in Nat
        /\ Cardinality(pollers[p].runs) <= MaxRuns
    BY TypedPollers, CommunityConstants DEF PollerStates, TidyPoller
  <2>4. Cardinality(all) = Cardinality(pollers[p].runs)
    <3>1. IsFiniteSet({p}) /\ Cardinality({p}) = 1
      BY FS_Singleton
    <3>2. Cardinality({p} \X pollers[p].runs) = Cardinality({p}) * Cardinality(pollers[p].runs)
      BY <2>3, <3>1, FS_Product
    <3> HIDE DEF all
    <3> QED
      BY <2>2, <2>3, <3>1, <3>2
  <2>5. Cardinality(all) <= MaxRuns
    BY <2>3, <2>4
  <2>6. \A r1, r2 \in all : r1[2] = r2[2] => r1 = r2
    BY <2>2
  <2> HIDE DEF all
  <2> QED
    BY <2>5, <2>6 DEF FewRuns, all
<1> QED
  BY <1>1, <1>2

\* A question that the watcher was told is saved stays in the file unless a
\* judge called it none, one set aside stays so, none is researched twice at a
\* time nor more than MaxRuns, and none shows as researched with nothing left to
\* end it: over any replacements of the poller, crashes, failed writes and
\* re-runs, the first two as long as no judge answers to a poller replaced.
THEOREM NoQuestionLost == CommunitySpec => []QuestionsKept
<1>1. LaneInv => QuestionsKept
  <2> SUFFICES ASSUME LaneInv PROVE QuestionsKept
    OBVIOUS
  <2>1. CommunityTypeOK /\ FewRuns
    BY RunsAreOnes DEF LaneInv
  <2>2. RunningHasRun
    BY DEF RunningHasRun, LaneInv, AllTidy, TidyPoller
  <2>3. ~overtaken => AckedIsKept /\ AsideStays
    BY DEF LaneInv, Kept, Keeps, AckedIsKept, AsideStays
  <2> QED
    BY <2>1, <2>2, <2>3 DEF QuestionsKept
<1>2. LaneInv /\ [CommunityNext]_communityVars => LaneInv'
  BY LaneKeeps
<1> QED
  BY <1>1, <1>2, CommunityBegins, PTL DEF CommunitySpec
=============================================================================
