-------------------------- MODULE SessionLifecycle --------------------------
(* One agent session: its state machine, the process in its pseudo-terminal *)
(* and its git worktree (src/session/sessions.ts, session-teardown.ts,      *)
(* session-worktree-lifecycle.ts, worktree-provisioning.ts).                *)
(*                                                                          *)
(* Node runs one callback at a time, so an action is the code between two   *)
(* awaits.  A start() is a pipeline of such pieces and at most one is in    *)
(* flight; every process that exits brings its own handler, which awaits    *)
(* the worktree's settlement.  The operator may act between any two pieces. *)
EXTENDS SessionStates, Naturals

CONSTANTS
  Pids,            \* identities of the processes spawned over the run
  Trees,           \* identities of the worktrees created over the run
  NoProcess,       \* ptyProcess === null
  NoTree,          \* worktreeDir === null: the project's own checkout
  Operator,        \* a kill, in endedBy
  Options,         \* what a session, and its operator, may be
  MaxRequests      \* bound on the operator's requests

ASSUME BoundsAssumption == MaxRequests \in Nat
ASSUME IdentityAssumption ==
  NoProcess \notin Pids /\ NoTree \notin Trees /\ Operator \notin Pids
ASSUME OptionsAssumption ==
  Options \subseteq {o \in [git : BOOLEAN, remote : BOOLEAN, headless : BOOLEAN,
                            requiresWorktree : BOOLEAN, patient : BOOLEAN] :
                     o.remote => ~o.git}

VARIABLES
  options,         \* fixed when the session is made
  state,
  teardown,        \* _teardown.kind; finish-pending is "finishing" while it
                   \* awaits the exit and "merging" once it merges
  start,           \* where the start() in flight awaits, "off" without one
  preparing,       \* preparingState, what a start() compares the state with
  ptyProcess,
  ptyAlive,
  received,        \* _receivedFirstOutput
  hooks,           \* the session is registered with the hook router
  phase,           \* each process and, after its exit, its exit handler
  exitEvent,       \* the event of an exit that is being described
  ownExit,         \* isUnsignalledCleanExit of each exit handler
  worktreeDir,
  disk,            \* the worktrees that exist
  used,            \* every worktree ever created
  inPlace,         \* the last provision decided to run in the checkout
  tree,            \* each process's working directory
  endedBy,         \* who last ended the session: a process or Operator
  closed,          \* an exit was reported as the agent's own
  requests

slot   == <<ptyProcess, ptyAlive, received, hooks>>
procs  == <<phase, exitEvent, ownExit, tree>>
folder == <<worktreeDir, disk, used, inPlace>>
ended  == <<endedBy, closed>>
vars == <<options, state, teardown, start, preparing, slot, procs, folder, ended,
          requests>>

HasGit           == options.git       \* the session has a git workspace
Remote           == options.remote    \* exits are described over the network
Headless         == options.headless  \* the spawn waits for the desktop probe
RequiresWorktree == options.requiresWorktree
Patient == options.patient  \* the operator waits for the last request to settle

Teardowns == {"none", "restart", "finishing", "merging", "destroyed"}
Stages    == {"off", "reaping", "populating", "creating", "preparing",
              "launching"}
Exits     == {"clean", "failed", "signalled"}
\* unborn, running, killed but not yet reaped, then the exit handler's awaits.
Phases    == {"unborn", "live", "dying", "describing", "probing", "releasing",
              "removing", "clearing", "gone"}

Destroyed       == teardown = "destroyed"
TeardownPending == teardown \in {"restart", "finishing", "merging"}
Superseded      == Destroyed \/ state # preparing

\* The worktree removals hold the project's git queue until they are done.
GitQueueFree == \A p \in Pids : phase[p] \notin {"removing", "clearing"}

Quiet == start = "off" /\ \A p \in Pids : phase[p] \in {"unborn", "live", "gone"}

Request == /\ requests < MaxRequests
           /\ Patient => Quiet
           /\ requests' = requests + 1

Init ==
  /\ options \in Options
  /\ state = DORMANT /\ teardown = "none" /\ start = "off"
  /\ preparing = DORMANT
  /\ ptyProcess = NoProcess /\ ptyAlive = FALSE
  /\ received = FALSE /\ hooks = FALSE
  /\ phase = [p \in Pids |-> "unborn"]
  /\ exitEvent = [p \in Pids |-> "none"]
  /\ ownExit = [p \in Pids |-> FALSE]
  /\ tree = [p \in Pids |-> NoTree]
  /\ worktreeDir = NoTree /\ disk = {} /\ used = {} /\ inPlace = FALSE
  /\ endedBy = Operator /\ closed = FALSE
  /\ requests = 0

-----------------------------------------------------------------------------
(* The process *)

\* Signal the process p of a phase function ph, if there is one.
Signalled(ph, p) ==
  IF p \in Pids /\ ph[p] = "live" THEN [ph EXCEPT ![p] = "dying"] ELSE ph

\* Mutant: the signal is lost.
KillPtyUnsignalled ==
  phase' = phase /\ ptyAlive' = (ptyAlive /\ ptyProcess = NoProcess)

\* kill(): nothing without a process; the exit arrives later.
KillPty ==
  /\ phase' = Signalled(phase, ptyProcess)
  /\ ptyAlive' = (ptyAlive /\ ptyProcess = NoProcess)

\* Mutant: an exit reaps nothing.
ReapHeldNothing == phase

\* The reap of the process an exit finds in the session, its own or not.
ReapHeld == Signalled(phase, ptyProcess)

\* Mutant: the registration outlives the process.
CleanupHooksNever == UNCHANGED hooks

\* The session is unregistered from the hook router.
CleanupHooks == hooks' = FALSE

-----------------------------------------------------------------------------
(* Starting *)

\* provisionWorktree's first branch, on the worktree as this step leaves it.
FirstStage ==
  IF ~HasGit THEN "preparing"
  ELSE IF worktreeDir' \in disk' THEN "populating" ELSE "creating"

\* _startBody once no reap is pending, with the session in state s.
ProceedFrom(s) ==
  /\ state' = After(s, "user_start")
  /\ preparing' = After(s, "user_start")
  /\ start' = FirstStage

(* start() in state s, with pty as the session's process and ph as the      *)
(* processes' phases.  One already in flight serves this call too; else the *)
(* process still held is killed and forgotten, and a reap that is not over  *)
(* is awaited.                                                              *)
StartIn(s, pty, ph) ==
  \/ /\ start # "off" \/ Destroyed
     /\ state' = s /\ ptyProcess' = pty /\ phase' = ph
     /\ UNCHANGED <<start, preparing>>
  \/ /\ start = "off" /\ ~Destroyed
     /\ ptyProcess' = NoProcess
     /\ phase' = Signalled(ph, pty)
     /\ \/ /\ \E p \in Pids : ph[p] # "unborn"
           /\ start' = "reaping" /\ state' = s
           /\ UNCHANGED preparing
        \/ /\ phase' = ph
           /\ ProceedFrom(s)

Start ==
  /\ state = DORMANT /\ ~Destroyed
  /\ Request
  /\ UNCHANGED folder
  /\ StartIn(state, ptyProcess, phase)
  /\ UNCHANGED <<teardown, ptyAlive, received, hooks, exitEvent, ownExit, tree,
                 ended>>

\* Every tree the session killed is gone, or KILL_REAP_MAX_WAIT_MS has passed.
ReapsSettled ==
  /\ start = "reaping"
  /\ UNCHANGED folder
  /\ IF Destroyed THEN start' = "off" /\ UNCHANGED <<state, preparing>>
     ELSE ProceedFrom(state)
  /\ UNCHANGED <<teardown, slot, procs, ended, requests>>

\* _startBody after the provision: superseded, refused or on to the hooks.
Provisioned ==
  /\ IF Superseded THEN start' = "off" /\ UNCHANGED state
     ELSE IF RequiresWorktree /\ worktreeDir' = NoTree
       THEN start' = "off" /\ state' = After(state, "provision_blocked")
     ELSE start' = "preparing" /\ UNCHANGED state
  /\ UNCHANGED <<teardown, preparing, slot, procs, ended, requests>>

\* The worktree is kept: shared files and dependencies are seeded again.
PopulateDone ==
  /\ start = "populating" /\ GitQueueFree
  /\ UNCHANGED <<worktreeDir, disk, used>>
  /\ inPlace' = FALSE
  /\ Provisioned

\* gitWorkspace.create made a worktree.
CreateDone ==
  /\ start = "creating" /\ GitQueueFree
  /\ \E t \in Trees \ used :
       /\ worktreeDir' = t
       /\ disk' = disk \cup {t} /\ used' = used \cup {t}
  /\ inPlace' = FALSE
  /\ Provisioned

\* It threw, or found no repository: the session runs in place.
CreateInPlace ==
  /\ start = "creating" /\ GitQueueFree
  /\ worktreeDir' \in {worktreeDir, NoTree}
  /\ inPlace' = TRUE
  /\ UNCHANGED <<disk, used>>
  /\ Provisioned

\* It found no base branch: the session goes back to sleep.
CreateBlocked ==
  /\ start = "creating" /\ GitQueueFree
  /\ start' = "off"
  /\ state' = IF Superseded THEN state ELSE After(state, "provision_blocked")
  /\ UNCHANGED <<teardown, preparing, slot, procs, folder, ended, requests>>

\* Mutant: the session is left starting.
AbandonSilently ==
  /\ start' = "off" /\ CleanupHooks
  /\ UNCHANGED <<state, ptyProcess, ptyAlive, phase, tree>>

\* _abandonSpawn: the hooks are released and a session still starting fails.
Abandon ==
  /\ start' = "off" /\ CleanupHooks
  /\ state' = After(state, "spawn_fail")
  /\ UNCHANGED <<ptyProcess, ptyAlive, phase, tree>>

\* transition("spawn_success") is accepted: the folder is there and the
\* session still starts.
SpawnSucceeds ==
  state = INITIALIZING /\ worktreeDir \in disk \cup {NoTree}

\* A process is spawned; if that comes too late it is killed at once.
Spawn ==
  \E p \in Pids :
    /\ phase[p] = "unborn"
    /\ start' = "off"
    /\ ptyProcess' = p
    /\ tree' = [tree EXCEPT ![p] = worktreeDir]
    /\ IF SpawnSucceeds
         THEN /\ ptyAlive' = TRUE /\ hooks' = TRUE
              /\ phase' = [phase EXCEPT ![p] = "live"]
              /\ state' = After(state, "spawn_success")
         ELSE /\ ptyAlive' = FALSE /\ CleanupHooks
              /\ phase' = [phase EXCEPT ![p] = "dying"]
              /\ state' = After(state, "spawn_fail")

LaunchRest == UNCHANGED <<teardown, preparing, exitEvent, ownExit, folder,
                          ended, requests>>

\* The hooks are prepared: the session registers and launches, or refuses.
\* (The reset of received is earlier, across an await; it is read in STARTING.)
PrepareDone ==
  /\ start = "preparing"
  /\ \/ /\ Superseded
        /\ start' = "off"
        /\ UNCHANGED <<state, slot, phase, tree>>
     \/ /\ ~Superseded
        /\ received' = FALSE
        /\ \/ Abandon
           \/ /\ Remote \/ Headless
              /\ start' = "launching"
              /\ hooks' = TRUE
              /\ UNCHANGED <<state, ptyProcess, ptyAlive, phase, tree>>
           \/ ~Remote /\ ~Headless /\ Spawn
  /\ LaunchRest

\* The remote command or the desktop probe has answered.
LaunchDone ==
  /\ start = "launching"
  /\ UNCHANGED received
  /\ \/ /\ Superseded
        /\ start' = "off" /\ CleanupHooks
        /\ UNCHANGED <<state, ptyProcess, ptyAlive, phase, tree>>
     \/ ~Superseded /\ Spawn
     \/ (Remote => ~Destroyed) /\ (~Remote => ~Superseded) /\ Abandon
  /\ LaunchRest

-----------------------------------------------------------------------------
(* Running *)

\* Output of any process of this session that still writes to its terminal.
FirstOutput ==
  /\ ~Destroyed
  /\ \E p \in Pids : phase[p] \in {"live", "dying"}
  /\ state = STARTING /\ ~received
  /\ received' = TRUE
  /\ state' = After(state, "first_output")
  /\ UNCHANGED <<teardown, start, preparing, ptyProcess, ptyAlive, hooks,
                 procs, folder, ended, requests>>

\* _onStatus and _finishCompaction.
Detect ==
  /\ ~Destroyed
  /\ \E event \in DetectionEvents :
       /\ Accepts(state, event)
       /\ state' = After(state, event)
  /\ UNCHANGED <<teardown, start, preparing, slot, procs, folder, ended,
                 requests>>

Dismiss ==
  /\ state \in DismissibleStates
  /\ state' = After(state, "user_dismiss")
  /\ UNCHANGED <<teardown, start, preparing, slot, procs, folder, ended,
                 requests>>

\* _handlePtySocketError: killed without a word to the state machine.
SocketError ==
  /\ ptyAlive
  /\ KillPty
  /\ UNCHANGED <<state, teardown, start, preparing, ptyProcess, received, hooks,
                 exitEvent, ownExit, tree, folder, ended, requests>>

-----------------------------------------------------------------------------
(* Ending *)

\* resetToDormant, with pty and dir as the process and the worktree it finds.
Reset(s, pty, dir) ==
  IF pty = NoProcess /\ dir = NoTree THEN After(s, "user_reset") ELSE s

\* _mergeAndReset up to the merge; without a worktree it is over at once.
MergeIn(s, pty, ph) ==
  /\ IF worktreeDir' = NoTree
       THEN teardown' = "none" /\ state' = Reset(s, pty, NoTree)
       ELSE teardown' = "merging" /\ state' = s
  /\ ptyProcess' = pty /\ phase' = ph
  /\ UNCHANGED <<start, preparing>>

(* The end of _handlePtyExit for p: the exit is emitted, as the agent's own *)
(* if it was, and the teardown that waited for it goes on.                  *)
FinishExit(p, s, own, pty, ph) ==
  LET gone == [ph EXCEPT ![p] = "gone"] IN
  /\ closed' = (closed \/ (own /\ s = DONE /\ ~TeardownPending /\ ~Destroyed))
  /\ \/ /\ teardown = "restart"
        /\ teardown' = "none"
        /\ \/ s \in RestartableStates /\ StartIn(After(s, "user_restart"), pty, gone)
           \/ /\ s \notin RestartableStates
              /\ state' = s /\ ptyProcess' = pty /\ phase' = gone
              /\ UNCHANGED <<start, preparing>>
     \/ teardown = "finishing" /\ MergeIn(s, pty, gone)
     \/ /\ teardown \in {"none", "merging", "destroyed"}
        /\ state' = s /\ ptyProcess' = pty /\ phase' = gone
        /\ UNCHANGED <<teardown, start, preparing>>

\* settleOnExit: a worktree the session ended in is probed before the rest.
SettleThenFinish(p, s, own, pty, ph) ==
  IF ~Destroyed /\ worktreeDir # NoTree /\ s \in RestartableStates
  THEN /\ phase' = [ph EXCEPT ![p] = "probing"]
       /\ ownExit' = [ownExit EXCEPT ![p] = own]
       /\ state' = s /\ ptyProcess' = pty
       /\ UNCHANGED <<teardown, start, preparing, closed>>
  ELSE FinishExit(p, s, own, pty, ph) /\ UNCHANGED ownExit

\* p's exit moves the session from state to s.
EndedBy(p, s) == endedBy' = IF s # state THEN p ELSE endedBy

\* Mutant: an exit the operator's kill has overtaken counts as the agent's own.
OwnCleanExitAnyhow(exit, event) == exit = "clean" /\ event = "process_exit_ok"

\* isUnsignalledCleanExit: the exit itself ended the session, and cleanly.
OwnCleanExit(exit, event) ==
  exit = "clean" /\ event = "process_exit_ok" /\ Accepts(state, event)

(* _handlePtyExit up to its first await.  The handler does not know whose   *)
(* exit it serves: it forgets and reaps whatever process the session holds. *)
OnExit(p) ==
  /\ phase[p] \in {"live", "dying"}
  /\ UNCHANGED folder
  /\ CleanupHooks /\ ptyAlive' = FALSE
  /\ \E exit \in Exits :
       LET event == ExitEvent(state, exit, received) IN
       \/ /\ Remote /\ HeadedForFailure(state, event)
          /\ ptyProcess' = NoProcess
          /\ phase' = [ReapHeld EXCEPT ![p] = "describing"]
          /\ exitEvent' = [exitEvent EXCEPT ![p] = event]
          /\ UNCHANGED <<state, teardown, start, preparing, ownExit, ended>>
       \/ /\ ~(Remote /\ HeadedForFailure(state, event))
          /\ EndedBy(p, After(state, event))
          /\ SettleThenFinish(p, After(state, event), OwnCleanExit(exit, event),
                              NoProcess, ReapHeld)
          /\ UNCHANGED exitEvent
  /\ UNCHANGED <<received, tree, requests>>

ExitRest == UNCHANGED <<ptyAlive, received, hooks, exitEvent, tree, requests>>

\* The remote host has said why, and the session changes state only now.
DescribeDone(p) ==
  /\ phase[p] = "describing"
  /\ UNCHANGED folder
  /\ EndedBy(p, After(state, exitEvent[p]))
  /\ SettleThenFinish(p, After(state, exitEvent[p]), FALSE, ptyProcess, phase)
  /\ ExitRest

\* hasUnmergedWork: work is kept for review, a clean worktree is given up.
ProbeDone(p) ==
  /\ phase[p] = "probing"
  /\ UNCHANGED <<folder, ownExit, endedBy>>
  /\ \/ FinishExit(p, state, ownExit[p], ptyProcess, phase)
     \/ /\ phase' = [phase EXCEPT ![p] = "releasing"]
        /\ UNCHANGED <<state, teardown, start, preparing, ptyProcess, closed>>
  /\ ExitRest

\* The readers are held, the seeding stopped: the removal is queued.
ReleaseDone(p) ==
  /\ phase[p] = "releasing"
  /\ UNCHANGED <<folder, ownExit, endedBy>>
  /\ IF worktreeDir = NoTree
       THEN FinishExit(p, state, ownExit[p], ptyProcess, phase)
       ELSE /\ phase' = [phase EXCEPT ![p] = "removing"]
            /\ UNCHANGED <<state, teardown, start, preparing, ptyProcess,
                           closed>>
  /\ ExitRest

\* git worktree remove --force; the branch is still to be deleted.
RemoveDone(p) ==
  /\ phase[p] = "removing"
  /\ phase' = [phase EXCEPT ![p] = "clearing"]
  /\ disk' = disk \ {worktreeDir}
  /\ UNCHANGED <<state, teardown, start, preparing, slot, exitEvent, ownExit,
                 tree, worktreeDir, used, inPlace, ended, requests>>

\* clearWorktreeState, and the end of the exit.
ClearDone(p) ==
  /\ phase[p] = "clearing"
  /\ worktreeDir' = NoTree
  /\ UNCHANGED <<disk, used, inPlace, ownExit, endedBy>>
  /\ FinishExit(p, state, ownExit[p], ptyProcess, phase)
  /\ ExitRest

\* mergeBack answered: a merged worktree is gone, any other is kept.
MergeDone ==
  /\ teardown = "merging" /\ GitQueueFree
  /\ \/ UNCHANGED <<worktreeDir, disk>>
     \/ /\ worktreeDir \in disk
        /\ worktreeDir' = NoTree
        /\ disk' = disk \ {worktreeDir}
  /\ state' = Reset(state, ptyProcess, worktreeDir')
  /\ teardown' = "none"
  /\ UNCHANGED <<start, preparing, slot, procs, used, inPlace, ended, requests>>

-----------------------------------------------------------------------------
(* The operator *)

OperatorRest == UNCHANGED <<received, hooks, exitEvent, ownExit, tree, closed>>

\* kill() and the transition, which a session that still starts takes as well.
KillAndEnd ==
  /\ KillPty
  /\ state' = After(state, "user_kill")
  /\ endedBy' = Operator
  /\ UNCHANGED <<start, preparing, ptyProcess, folder>>

KillSession ==
  /\ requests < MaxRequests /\ requests' = requests + 1
  /\ state \in KillableStates
  /\ KillAndEnd
  /\ UNCHANGED teardown
  /\ OperatorRest

Restart ==
  /\ Request
  /\ ~Destroyed /\ ~TeardownPending
  /\ state \in RestartableStates
  /\ UNCHANGED folder
  /\ StartIn(After(state, "user_restart"), ptyProcess, phase)
  /\ UNCHANGED <<teardown, ptyAlive, endedBy>>
  /\ OperatorRest

\* Mutant: the new start does not wait for the old process's exit.
ForceRestartAtOnce ==
  /\ Request
  /\ ~Destroyed /\ ~TeardownPending
  /\ state \in KillableStates
  /\ UNCHANGED <<teardown, ptyAlive, endedBy, folder>>
  /\ StartIn(INITIALIZING, ptyProcess, phase)
  /\ OperatorRest

\* forceRestart of a session that can be killed; of one that ended, Restart.
ForceRestart ==
  /\ Request
  /\ ~Destroyed /\ ~TeardownPending
  /\ state \in KillableStates
  /\ teardown' = "restart"
  /\ KillAndEnd
  /\ OperatorRest

\* Mutant: an agent that waits for its next turn is taken for one that ended.
FinishAndMergeAnyIdle ==
  /\ Request
  /\ ~Destroyed /\ ~TeardownPending
  /\ state \in RestartableStates \cup {COMPLETE, IDLE}
  /\ UNCHANGED <<folder, ptyAlive, endedBy>>
  /\ MergeIn(state, ptyProcess, phase)
  /\ OperatorRest

FinishAndMerge ==
  /\ Request
  /\ ~Destroyed /\ ~TeardownPending
  /\ \/ /\ state \in RestartableStates
        /\ UNCHANGED <<folder, ptyAlive, endedBy>>
        /\ MergeIn(state, ptyProcess, phase)
     \/ /\ state \in {COMPLETE, IDLE}
        /\ teardown' = "finishing"
        /\ KillAndEnd
  /\ OperatorRest

Destroy ==
  /\ ~Destroyed
  /\ teardown' = "destroyed"
  /\ CleanupHooks
  /\ KillPty
  /\ UNCHANGED <<state, start, preparing, ptyProcess, received, exitEvent,
                 ownExit, tree, folder, ended, requests>>

-----------------------------------------------------------------------------

ProvisionDone == PopulateDone \/ CreateDone \/ CreateInPlace \/ CreateBlocked
StartStep == ReapsSettled \/ ProvisionDone \/ PrepareDone \/ LaunchDone
ExitStep(p) == \/ DescribeDone(p) \/ ProbeDone(p) \/ ReleaseDone(p)
               \/ RemoveDone(p) \/ ClearDone(p)
AgentStep == FirstOutput \/ Detect \/ SocketError
OperatorStep == \/ Start \/ Dismiss \/ KillSession \/ Restart \/ ForceRestart
                \/ FinishAndMerge \/ Destroy

Next == /\ \/ StartStep \/ AgentStep \/ OperatorStep \/ MergeDone
           \/ \E p \in Pids : OnExit(p) \/ ExitStep(p)
        /\ UNCHANGED options

Spec == Init /\ [][Next]_vars

(* Fairness: what the session awaits is answered (git commands, the hooks'  *)
(* preparation, the remote host), the kernel ends a process that was sent   *)
(* SIGKILL.  The agent and the operator owe nothing.                        *)
Fairness ==
  /\ WF_vars(StartStep /\ UNCHANGED options)
  /\ WF_vars(MergeDone /\ UNCHANGED options)
  /\ \A p \in Pids : /\ WF_vars(phase[p] = "dying" /\ OnExit(p) /\ UNCHANGED options)
                     /\ WF_vars(ExitStep(p) /\ UNCHANGED options)

FairSpec == Spec /\ Fairness

-----------------------------------------------------------------------------
(* Properties *)

StateType ==
  /\ state \in States /\ preparing \in States
  /\ teardown \in Teardowns /\ start \in Stages
  /\ ptyProcess \in Pids \cup {NoProcess}
  /\ {ptyAlive, received, hooks, inPlace, closed} \subseteq BOOLEAN
  /\ phase \in [Pids -> Phases]
  /\ exitEvent \in [Pids -> {"none", "process_exit", "process_exit_fail"}]
  /\ ownExit \in [Pids -> BOOLEAN]
  /\ tree \in [Pids -> Trees \cup {NoTree}]
  /\ worktreeDir \in Trees \cup {NoTree}
  /\ disk \subseteq used /\ used \subseteq Trees
  /\ endedBy \in Pids \cup {Operator}
  /\ requests \in Nat
TypeOK == options \in Options /\ StateType

\* The session tracks every process that runs: no agent is left behind
\* unkilled when a start, a restart or an exit forgets the process it held.
NoStrayProcess ==
  \A p \in Pids : phase[p] = "live" => p = ptyProcess

\* A state that tells the operator of a running agent holds a process, or is
\* told by the remote host why it ended; a session that is asleep, has ended
\* or was removed runs none.
StateTellsProcess ==
  /\ state \in LiveStates =>
       ptyProcess # NoProcess \/ \E p \in Pids : phase[p] = "describing"
  /\ (state \in {DORMANT, DONE, FAILED} \/ Destroyed) =>
       \A p \in Pids : phase[p] # "live"

\* An agent works in a worktree that is there, unless the provision decided
\* to run in place: no exit's clean-up takes it away, before the spawn or after.
OwnWorktree ==
  HasGit /\ ~inPlace =>
    \A p \in Pids : phase[p] = "live" => tree[p] \in disk

\* While the agent runs the hook router knows the session; once nothing runs
\* and nothing starts it does not (for an operator who waits for exits).
HooksFollowProcess ==
  Patient =>
    /\ \A p \in Pids : phase[p] = "live" => hooks
    /\ start = "off" /\ ptyProcess = NoProcess => ~hooks

\* The exit of one process never ends the session under another that runs, if
\* the operator waits for exits.
OldExitNeverEndsNew ==
  [][Patient => \A p \in Pids : endedBy # p /\ endedBy' = p =>
       \A q \in Pids \ {p} : phase[q] # "live"]_vars

\* A session is reported closed by its agent only if nobody killed it: a kill
\* or a restart never removes a session.
ClosesOnlyOnOwnExit ==
  [][~closed /\ closed' => endedBy' # Operator]_vars

\* A restart that was accepted starts the agent again.
RestartServed == teardown = "restart" ~> (start # "off" \/ Destroyed)

\* No session stays in INITIALIZING: its start ends one way or the other.
StartConcludes == (state = INITIALIZING) ~> (state # INITIALIZING \/ Destroyed)

\* A finish ends: the kill is followed by the merge, the merge by its result.
FinishServed ==
  (teardown \in {"finishing", "merging"}) ~>
    (teardown \notin {"finishing", "merging"})

\* What a patient operator was promised comes to its end: every restart that
\* was accepted, every start and every finish.
AwaitsEnd == Patient => RestartServed /\ StartConcludes /\ FinishServed

\* A patient operator's agent never works in a folder that was removed.
PatientOwnsWorktree == Patient => OwnWorktree

\* A patient operator's kill or restart never closes the session.
PatientClosesOnlyOnOwnExit ==
  [][Patient /\ ~closed /\ closed' => endedBy' # Operator]_vars
=============================================================================
