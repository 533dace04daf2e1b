--------------------------- MODULE LaneRunnerProofs ---------------------------
(* The lane follows its configuration, with one poller at a time, for any    *)
(* configurations, gates, numbers of pollers and requests.                   *)
EXTENDS LaneRunner, FiniteSetTheorems, TLAPS

\* Only the runner's own poller is alive, but for one that a job has told to stop.
OwnAlive ==
  /\ poller # None => Alive \subseteq {poller}
  /\ poller = None /\ job # "stopping" => Alive = {}
  /\ job = "stopping" => /\ poller = None
                         /\ \A p \in Alive : life[p] = "stopping"
                         /\ \A p, q \in Alive : p = q

\* The last job was asked for the configuration there is; without a job ahead,
\* the poller is the one it calls for, or there is none.
Current == jobs = 0 /\ job # "stopping" /\ lastKey # None /\ ~stopped
Follows ==
  /\ lastKey # None => lastKey = config
  /\ Current => IF config \in Open THEN poller # None /\ builtFor[poller] = config
                ELSE poller = None /\ Alive = {} /\ status = None

\* Each waiting job has its request.
JobsAsked == jobs <= requests

LaneInv == TypeOK /\ OwnAlive /\ Follows /\ JobsAsked

\* What the invariant is for: the property the model checker runs.
LEMMA InvFollows == LaneInv => LaneFollowsConfig
<1> SUFFICES ASSUME LaneInv PROVE LaneFollowsConfig
  OBVIOUS
<1>1. Alive = {} \/ \E p \in Alive : Alive = {p}
  BY DEF LaneInv, OwnAlive, TypeOK
<1>2. OnePollerAtATime
  <2>1. CASE Alive = {}
    BY <2>1, FS_EmptySet DEF OnePollerAtATime
  <2>2. ASSUME NEW p \in Alive, Alive = {p} PROVE OnePollerAtATime
    BY <2>2, FS_Singleton DEF OnePollerAtATime
  <2> QED
    BY <1>1, <2>1, <2>2
<1>3. RunsAsSaved /\ ClosedShowsNothing
  BY DEF LaneInv, Follows, Current, Quiet, RunsAsSaved, ClosedShowsNothing
<1> QED
  BY <1>2, <1>3 DEF LaneInv, LaneFollowsConfig

\* Initially there is no poller, and nothing was asked for.
LEMMA InitInv == Init => LaneInv
<1> SUFFICES ASSUME Init PROVE LaneInv
  OBVIOUS
<1> USE DEF Init
<1>0. 0 \in 0..MaxRequests
  BY ConfigsAssumption
<1>1. TypeOK
  BY <1>0 DEF TypeOK, Lives
<1>2. OwnAlive /\ Follows /\ JobsAsked
  BY ConfigsAssumption DEF OwnAlive, Follows, Current, JobsAsked, Alive
<1> QED
  BY <1>1, <1>2 DEF LaneInv

\* A job that asks the gate has no poller any more: it leaves the lane without
\* one, or with a new one for the configuration of that moment.
LEMMA AskGateInv ==
  ASSUME LaneInv, AskGate, poller = None, Alive = {},
         UNCHANGED <<config, lastKey, stopped, requests>>,
         jobs' \in {jobs, jobs - 1}, jobs' \in Nat
  PROVE  LaneInv'
<1> USE DEF LaneInv
<1>1. CASE GateClosed
  <2>1. TypeOK' /\ JobsAsked'
    BY <1>1, ConfigsAssumption DEF GateClosed, TypeOK, JobsAsked
  <2>2. Alive' = {}
    BY <1>1 DEF GateClosed, Alive
  <2>3. OwnAlive' /\ Follows'
    BY <1>1, <2>2 DEF GateClosed, OwnAlive, Follows, Current
  <2> QED
    BY <2>1, <2>3
<1>2. CASE CreatePoller
  <2>1. Fresh \in Unmade
    BY <1>2 DEF CreatePoller, Fresh
  <2>2. Fresh \in Pollers /\ Fresh # None
    BY <2>1, NoneIsNoPoller DEF Unmade
  <2>3. TypeOK' /\ JobsAsked'
    BY <1>2, <2>2, ConfigsAssumption DEF CreatePoller, TypeOK, JobsAsked, Lives
  <2>4. Alive' = {Fresh}
    BY <1>2, <2>2 DEF CreatePoller, Alive, TypeOK
  <2>5. OwnAlive' /\ Follows'
    BY <1>2, <2>2, <2>4 DEF CreatePoller, OwnAlive, Follows, Current, TypeOK
  <2> QED
    BY <2>3, <2>5
<1> QED
  BY <1>1, <1>2 DEF AskGate

\* A poller that stops, or has stopped, is no other one.
LEMMA StepInv == LaneInv /\ [Next]_runnerVars => LaneInv'
<1> SUFFICES ASSUME LaneInv, [Next]_runnerVars PROVE LaneInv'
  OBVIOUS
<1> USE DEF LaneInv
<1>1. CASE StartPoller
  <2>1. TypeOK' /\ JobsAsked'
    BY <1>1, ConfigsAssumption DEF StartPoller, TypeOK, JobsAsked
  <2>2. Alive' = Alive
    BY <1>1 DEF StartPoller, Alive
  <2>3. OwnAlive' /\ Follows'
    BY <1>1, <2>2 DEF StartPoller, OwnAlive, Follows, Current, TypeOK
  <2> QED
    BY <2>1, <2>3
<1>2. CASE ConfigSaved
  <2> PICK c \in Configs : config' = c /\ RestartIfConfigChanged(c)
    BY <1>2 DEF ConfigSaved
  <2>1. TypeOK' /\ JobsAsked'
    BY <1>2, ConfigsAssumption
    DEF ConfigSaved, RestartIfConfigChanged, TypeOK, JobsAsked
  <2>2. Alive' = Alive
    BY <1>2 DEF ConfigSaved, Alive
  <2>3. OwnAlive'
    BY <1>2, <2>2 DEF ConfigSaved, OwnAlive
  <2>4. CASE c = lastKey
    BY <1>2, <2>1, <2>2, <2>3, <2>4, ConfigsAssumption
    DEF ConfigSaved, RestartIfConfigChanged, Follows, Current
  <2>5. CASE c # lastKey
    BY <1>2, <2>1, <2>2, <2>3, <2>5
    DEF ConfigSaved, RestartIfConfigChanged, Follows, Current, TypeOK
  <2> QED
    BY <2>4, <2>5
<1>3. CASE StopPoller
  <2>1. TypeOK' /\ JobsAsked'
    BY <1>3 DEF StopPoller, TypeOK, JobsAsked, Lives
  <2>2. Alive' \subseteq Alive \cup {poller}
    BY <1>3 DEF StopPoller, Alive, TypeOK
  <2>3. poller = None => life' = life
    BY <1>3 DEF StopPoller
  <2>4. OwnAlive' /\ Follows'
    BY <1>3, <2>2, <2>3 DEF StopPoller, OwnAlive, Follows, Current, Alive
  <2> QED
    BY <2>1, <2>4
<1>4. CASE JobBegins
  <2>1. Alive = {}
    BY <1>4 DEF JobBegins, OwnAlive
  <2> QED
    BY <1>4, <2>1, AskGateInv DEF JobBegins, TypeOK
<1>5. CASE JobRefused
  <2>1. TypeOK' /\ JobsAsked'
    BY <1>5, ConfigsAssumption DEF JobRefused, TypeOK, JobsAsked
  <2>2. Alive' = Alive
    BY <1>5 DEF JobRefused, Alive
  <2>3. OwnAlive' /\ Follows'
    BY <1>5, <2>2 DEF JobRefused, OwnAlive, Follows, Current
  <2> QED
    BY <2>1, <2>3
<1>6. CASE JobStops
  <2>1. TypeOK' /\ JobsAsked'
    BY <1>6, ConfigsAssumption DEF JobStops, TypeOK, JobsAsked, Lives
  <2>2. Alive' \subseteq {poller} /\ life'[poller] = "stopping"
    BY <1>6 DEF JobStops, OwnAlive, Alive, TypeOK
  <2>3. OwnAlive' /\ Follows'
    BY <1>6, <2>2 DEF JobStops, OwnAlive, Follows, Current
  <2> QED
    BY <2>1, <2>3
<1>7. CASE OldStopped
  <2>1. poller = None /\ Alive = {}
    BY <1>7 DEF OldStopped, OwnAlive, Alive
  <2> QED
    BY <1>7, <2>1, AskGateInv DEF OldStopped, TypeOK
<1>8. CASE Started
  <2>1. TypeOK' /\ JobsAsked'
    BY <1>8 DEF Started, TypeOK, JobsAsked, Lives
  <2>2. Alive' = Alive
    BY <1>8 DEF Started, Alive, TypeOK
  <2>3. OwnAlive' /\ Follows'
    BY <1>8, <2>2 DEF Started, OwnAlive, Follows, Current
  <2> QED
    BY <2>1, <2>3
<1>9. ASSUME NEW p \in Pollers, Stopped(p) PROVE LaneInv'
  <2>1. TypeOK' /\ JobsAsked'
    BY <1>9 DEF Stopped, TypeOK, JobsAsked, Lives
  <2>2. Alive' \subseteq Alive /\ \A q \in Alive' : life'[q] = life[q]
    BY <1>9 DEF Stopped, Alive, TypeOK
  <2>3. OwnAlive' /\ Follows'
    BY <1>9, <2>2 DEF Stopped, OwnAlive, Follows, Current
  <2> QED
    BY <2>1, <2>3
<1>10. ASSUME NEW p \in Pollers, OnTickComplete(p) PROVE LaneInv'
  <2>1. TypeOK' /\ JobsAsked'
    BY <1>10 DEF OnTickComplete, TypeOK, JobsAsked
  <2>2. Alive' = Alive /\ p \in Alive
    BY <1>10 DEF OnTickComplete, Alive
  <2>3. OwnAlive' /\ Follows'
    BY <1>10, <2>2 DEF OnTickComplete, OwnAlive, Follows, Current
  <2> QED
    BY <2>1, <2>3
<1>11. CASE UNCHANGED runnerVars
  <2>1. Alive' = Alive
    BY <1>11 DEF runnerVars, Alive
  <2> QED
    BY <1>11, <2>1
    DEF runnerVars, TypeOK, OwnAlive, Follows, Current, JobsAsked
<1> QED
  BY <1>1, <1>2, <1>3, <1>4, <1>5, <1>6, <1>7, <1>8, <1>9, <1>10, <1>11 DEF Next

\* The lane never has two pollers, and once what was asked for is done it has
\* the one of the configuration saved last, or none when its gate is closed.
THEOREM RunnerFollows == Spec => []LaneFollowsConfig
<1>1. Spec => []LaneInv
  BY InitInv, StepInv, PTL DEF Spec
<1> QED
  BY <1>1, InvFollows, PTL
=============================================================================
