----------------------------- MODULE LaneRunner -----------------------------
(* What keeps a lane's poller in step with its configuration                 *)
(* (createLaneRunner in src/server/lanes/lane-runner.ts).  Every start or    *)
(* restart is a job of a serial queue: it stops the poller there is, asks    *)
(* the gate, and awaits the start of a new one.  A stop of the lane does not *)
(* go through the queue.                                                     *)
EXTENDS Integers, FiniteSets

CONSTANTS
  Configs,       \* the configurations of the lane, by their key
  Open,          \* those for which the gate is open
  None,          \* no configuration, no poller: null
  MaxPollers,    \* bound on the pollers that are created
  MaxRequests    \* bound on the starts and saved changes

ASSUME ConfigsAssumption ==
  /\ Open \subseteq Configs /\ None \notin Configs
  /\ MaxPollers \in Nat /\ MaxRequests \in Nat

Pollers == 1..MaxPollers

ASSUME NoneIsNoPoller == None \notin Pollers

VARIABLES
  config,        \* the configuration that was saved last
  lastKey,       \* the one the last job was asked for
  jobs,          \* the jobs that wait in restartQueue
  job,           \* where the running job is: idle, stopping, starting
  life,          \* of each poller
  builtFor,      \* the configuration each poller was created with
  poller,        \* the one of the runner
  stopped,
  status,        \* lastStatus: whose it is, or None
  requests       \* history: the starts and saved changes

runnerVars == <<config, lastKey, jobs, job, life, builtFor, poller, stopped,
                status, requests>>

Lives == {"unmade", "starting", "up", "stopping", "dead"}

Alive == {p \in Pollers : life[p] \in {"starting", "up", "stopping"}}

Init ==
  /\ config \in Configs /\ lastKey = None /\ jobs = 0 /\ job = "idle"
  /\ life = [p \in Pollers |-> "unmade"]
  /\ builtFor = [p \in Pollers |-> None]
  /\ poller = None /\ stopped = FALSE /\ status = None /\ requests = 0

-----------------------------------------------------------------------------
(* Requests. *)

StartPoller ==
  /\ requests < MaxRequests /\ requests' = requests + 1
  /\ lastKey' = config /\ jobs' = jobs + 1
  /\ UNCHANGED <<config, job, life, builtFor, poller, stopped, status>>

\* Mutant: a change is left to the job that waits or runs.
RestartIfConfigChangedOnce(c) ==
  IF c = lastKey \/ jobs > 0 \/ job # "idle" THEN UNCHANGED <<lastKey, jobs>>
  ELSE lastKey' = c /\ jobs' = jobs + 1

RestartIfConfigChanged(c) ==
  IF c = lastKey THEN UNCHANGED <<lastKey, jobs>>
  ELSE lastKey' = c /\ jobs' = jobs + 1

ConfigSaved ==
  /\ requests < MaxRequests /\ requests' = requests + 1
  /\ \E c \in Configs : config' = c /\ RestartIfConfigChanged(c)
  /\ UNCHANGED <<job, life, builtFor, poller, stopped, status>>

\* The poller is stopped beside the queue, and remembered.
StopPoller ==
  /\ ~stopped /\ stopped' = TRUE
  /\ life' = IF poller = None THEN life ELSE [life EXCEPT ![poller] = "stopping"]
  /\ UNCHANGED <<config, lastKey, jobs, job, builtFor, poller, status, requests>>

-----------------------------------------------------------------------------
(* Jobs. *)

GateClosed ==
  /\ config \notin Open
  /\ job' = "idle" /\ status' = None /\ UNCHANGED <<builtFor, life, poller>>

Unmade == {p \in Pollers : life[p] = "unmade"}

\* The poller that a job creates.
Fresh == CHOOSE p \in Unmade : TRUE

\* createPoller reads the configuration there is now.
CreatePoller ==
  /\ config \in Open /\ Unmade # {}
  /\ builtFor' = [builtFor EXCEPT ![Fresh] = config]
  /\ life' = [life EXCEPT ![Fresh] = "starting"]
  /\ poller' = Fresh /\ job' = "starting" /\ UNCHANGED status

\* The rest of a job, with no poller any more.
AskGate == GateClosed \/ CreatePoller

\* A job that found no poller to stop.
JobBegins ==
  /\ job = "idle" /\ jobs > 0 /\ jobs' = jobs - 1
  /\ ~stopped /\ poller = None
  /\ AskGate
  /\ UNCHANGED <<config, lastKey, stopped, requests>>

JobRefused ==
  /\ job = "idle" /\ jobs > 0 /\ jobs' = jobs - 1
  /\ stopped
  /\ UNCHANGED <<config, lastKey, job, life, builtFor, poller, stopped, status, requests>>

JobStops ==
  /\ job = "idle" /\ jobs > 0 /\ jobs' = jobs - 1
  /\ ~stopped /\ poller # None
  /\ life' = [life EXCEPT ![poller] = "stopping"]
  /\ poller' = None /\ job' = "stopping"
  /\ UNCHANGED <<config, lastKey, builtFor, stopped, status, requests>>

\* Mutant: a job that finds the lane stopped goes no further.
OldStoppedUnlessStopped ==
  /\ job = "stopping" /\ \A p \in Pollers : life[p] # "stopping"
  /\ ~stopped /\ AskGate
  /\ UNCHANGED <<config, lastKey, jobs, stopped, requests>>

\* The old poller has stopped; the job does not look at the lane again.
OldStopped ==
  /\ job = "stopping" /\ \A p \in Pollers : life[p] # "stopping"
  /\ AskGate
  /\ UNCHANGED <<config, lastKey, jobs, stopped, requests>>

-----------------------------------------------------------------------------
(* Pollers. *)

\* start() of the poller is over, also when it was stopped meanwhile.
Started ==
  /\ job = "starting" /\ job' = "idle"
  /\ life' = [p \in Pollers |-> IF life[p] = "starting" THEN "up" ELSE life[p]]
  /\ UNCHANGED <<config, lastKey, jobs, builtFor, poller, stopped, status, requests>>

\* stop() of the poller is over: what it tracks has drained.
Stopped(p) ==
  /\ life[p] = "stopping" /\ life' = [life EXCEPT ![p] = "dead"]
  /\ UNCHANGED <<config, lastKey, jobs, job, builtFor, poller, stopped, status, requests>>

\* onTickComplete, which a poller calls until it is stopped.
OnTickComplete(p) ==
  /\ life[p] \in {"starting", "up"} /\ status' = p
  /\ UNCHANGED <<config, lastKey, jobs, job, life, builtFor, poller, stopped, requests>>

Next ==
  \/ StartPoller \/ ConfigSaved \/ StopPoller
  \/ JobBegins \/ JobRefused \/ JobStops \/ OldStopped \/ Started
  \/ \E p \in Pollers : Stopped(p) \/ OnTickComplete(p)

Spec == Init /\ [][Next]_runnerVars

\* A job that begins goes on, and what it awaits of a poller ends.
Fairness ==
  /\ WF_runnerVars(JobBegins \/ JobRefused \/ JobStops)
  /\ WF_runnerVars(OldStopped) /\ WF_runnerVars(Started)
  /\ \A p \in Pollers : WF_runnerVars(Stopped(p))

FairSpec == Spec /\ Fairness

-----------------------------------------------------------------------------
(* Properties *)

TypeOK ==
  /\ config \in Configs /\ lastKey \in Configs \cup {None}
  /\ jobs \in 0..MaxRequests /\ job \in {"idle", "stopping", "starting"}
  /\ life \in [Pollers -> Lives] /\ builtFor \in [Pollers -> Open \cup {None}]
  /\ poller \in Pollers \cup {None} /\ stopped \in BOOLEAN
  /\ status \in Pollers \cup {None} /\ requests \in 0..MaxRequests

\* Two pollers of a lane, which write the same state file, never live at once:
\* a new one is made when the old one has drained, stop or no stop.
OnePollerAtATime == Cardinality(Alive) <= 1

Quiet == jobs = 0 /\ job = "idle" /\ lastKey # None /\ ~stopped

\* With every request served, the lane runs with the configuration that was
\* saved last, whatever was saved in between, and not at all when that one
\* closes its gate.
RunsAsSaved ==
  Quiet => IF config \in Open THEN poller # None /\ builtFor[poller] = config
           ELSE poller = None /\ Alive = {}

\* A lane whose gate is closed shows no poller's status.
ClosedShowsNothing == Quiet /\ config \notin Open => status = None

\* The types and the three above.
LaneFollowsConfig ==
  TypeOK /\ OnePollerAtATime /\ RunsAsSaved /\ ClosedShowsNothing

\* Every request is served in the end: no job waits for ever.
RequestsServed == <>[](jobs = 0 /\ job = "idle")

\* Once a stop has been awaited (the queue is idle, what was told to stop has
\* stopped) no poller of the lane goes on.
StopIsFinal == stopped /\ jobs = 0 /\ job = "idle" => \A p \in Alive : life[p] = "stopping"
=============================================================================
