----------------------- MODULE SessionLifecycleProofs -----------------------
(* Theorems about SessionLifecycle, for every number of processes, of       *)
(* worktrees and of requests, with whatever options the session has.        *)
EXTENDS SessionLifecycle, TLAPS

USE BoundsAssumption, IdentityAssumption DEF slot, procs, folder, ended

-----------------------------------------------------------------------------
(* The table of transitions *)

\* Whatever the event, transition() leaves a session in one of the states the
\* table lists: it never stores a value the table does not hold.
LEMMA AfterType ==
  ASSUME NEW s \in States, NEW event
  PROVE  After(s, event) \in States
<1> USE DEF After, Accepts, Transitions, States, DORMANT, INITIALIZING,
            STARTING, RUNNING, WAITING, IDLE, COMPLETE, DONE, FAILED
<1>1. CASE s = "DORMANT"      BY <1>1
<1>2. CASE s = "INITIALIZING" BY <1>2
<1>3. CASE s = "STARTING"     BY <1>3
<1>4. CASE s = "RUNNING"      BY <1>4
<1>5. CASE s = "WAITING"      BY <1>5
<1>6. CASE s = "IDLE"         BY <1>6
<1>7. CASE s = "COMPLETE"     BY <1>7
<1>8. CASE s = "DONE"         BY <1>8
<1>9. CASE s = "FAILED"       BY <1>9
<1> QED BY <1>1, <1>2, <1>3, <1>4, <1>5, <1>6, <1>7, <1>8, <1>9

\* The exit of a process ends whatever live state it finds: a session that
\* told of a running agent never goes on doing so after an exit.
LEMMA ExitEndsLiveState ==
  ASSUME NEW s \in States, NEW exit \in {"clean", "failed", "signalled"},
         NEW spoke \in BOOLEAN, s = STARTING => ~spoke
  PROVE  After(s, ExitEvent(s, exit, spoke)) \notin LiveStates
<1> USE DEF After, Accepts, Transitions, States, DORMANT, INITIALIZING,
            STARTING, RUNNING, WAITING, IDLE, COMPLETE, DONE, FAILED,
            ExitEvent, LiveStates, SettledStates
<1>1. CASE s = "DORMANT"      BY <1>1
<1>2. CASE s = "INITIALIZING" BY <1>2
<1>3. CASE s = "STARTING"     BY <1>3
<1>4. CASE s = "RUNNING"      BY <1>4
<1>5. CASE s = "WAITING"      BY <1>5
<1>6. CASE s = "IDLE"         BY <1>6
<1>7. CASE s = "COMPLETE"     BY <1>7
<1>8. CASE s = "DONE"         BY <1>8
<1>9. CASE s = "FAILED"       BY <1>9
<1> QED BY <1>1, <1>2, <1>3, <1>4, <1>5, <1>6, <1>7, <1>8, <1>9

\* Only a spawn makes a session live, and only a spawn makes it start to speak.
LEMMA OnlySpawnGoesLive ==
  ASSUME NEW s \in States, NEW event, event # "spawn_success"
  PROVE  /\ s \notin LiveStates => After(s, event) \notin LiveStates
         /\ s # STARTING => After(s, event) # STARTING
<1> USE DEF After, Accepts, Transitions, States, DORMANT, INITIALIZING,
            STARTING, RUNNING, WAITING, IDLE, COMPLETE, DONE, FAILED,
            LiveStates, SettledStates
<1>1. CASE s = "DORMANT"      BY <1>1
<1>2. CASE s = "INITIALIZING" BY <1>2
<1>3. CASE s = "STARTING"     BY <1>3
<1>4. CASE s = "RUNNING"      BY <1>4
<1>5. CASE s = "WAITING"      BY <1>5
<1>6. CASE s = "IDLE"         BY <1>6
<1>7. CASE s = "COMPLETE"     BY <1>7
<1>8. CASE s = "DONE"         BY <1>8
<1>9. CASE s = "FAILED"       BY <1>9
<1> QED BY <1>1, <1>2, <1>3, <1>4, <1>5, <1>6, <1>7, <1>8, <1>9

\* What detection, output, a dismissal or a start raises keeps a live session
\* live; a kill ends any.
LEMMA LiveStaysLive ==
  ASSUME NEW s \in LiveStates,
         NEW event \in DetectionEvents \cup
           {"first_output", "user_dismiss", "user_reset", "user_start"}
  PROVE  After(s, event) \in LiveStates
BY DEF After, Accepts, Transitions, DetectionEvents, INITIALIZING, STARTING,
   RUNNING, WAITING, IDLE, COMPLETE, DONE, FAILED, LiveStates, SettledStates

LEMMA KillEndsLive ==
  ASSUME NEW s \in States
  PROVE  After(s, "user_kill") \notin LiveStates
<1> USE DEF After, Accepts, Transitions, States, DORMANT, INITIALIZING,
            STARTING, RUNNING, WAITING, IDLE, COMPLETE, DONE, FAILED,
            LiveStates, SettledStates
<1>1. CASE s \in {"DORMANT", "DONE", "FAILED"} BY <1>1
<1>2. CASE s \in {"INITIALIZING", "STARTING", "RUNNING"} BY <1>2
<1>3. CASE s \in {"WAITING", "IDLE", "COMPLETE"} BY <1>3
<1> QED BY <1>1, <1>2, <1>3

-----------------------------------------------------------------------------
(* Type correctness *)

\* What the type invariant asks of the variables a start or a merge assigns.
SlotType == /\ state \in States /\ preparing \in States
            /\ teardown \in Teardowns /\ start \in Stages
            /\ ptyProcess \in Pids \cup {NoProcess}
            /\ phase \in [Pids -> Phases]

\* Signalling keeps the phases phases.
LEMMA SignalledType ==
  ASSUME NEW ph \in [Pids -> Phases], NEW p
  PROVE  Signalled(ph, p) \in [Pids -> Phases]
BY DEF Signalled, Phases

\* start() keeps the types, whatever state and process it is called with.
LEMMA StartInType ==
  ASSUME SlotType, NEW s \in States, NEW pty \in Pids \cup {NoProcess},
         NEW ph \in [Pids -> Phases], teardown' \in Teardowns,
         StartIn(s, pty, ph)
  PROVE  SlotType'
<1>1. Signalled(ph, pty) \in [Pids -> Phases]
  BY SignalledType
<1>2. CASE start # "off" \/ Destroyed
  BY <1>1, <1>2 DEF StartIn, SlotType, Stages
<1>3. After(s, "user_start") \in States
  BY AfterType
<1> QED
  BY <1>1, <1>3 DEF StartIn, SlotType, Stages, ProceedFrom, FirstStage

\* So does the merge of a finish.
LEMMA MergeInType ==
  ASSUME SlotType, NEW s \in States, NEW pty \in Pids \cup {NoProcess},
         NEW ph \in [Pids -> Phases], MergeIn(s, pty, ph)
  PROVE  SlotType'
<1>1. Reset(s, pty, NoTree) \in States
  BY AfterType DEF Reset
<1> QED
  BY <1>1 DEF MergeIn, SlotType, Teardowns

\* So does the end of an exit.
LEMMA FinishExitType ==
  ASSUME SlotType, closed \in BOOLEAN,
         NEW p \in Pids, NEW s \in States, NEW own \in BOOLEAN,
         NEW pty \in Pids \cup {NoProcess},
         NEW ph \in [Pids -> Phases], FinishExit(p, s, own, pty, ph)
  PROVE  SlotType' /\ closed' \in BOOLEAN
<1> DEFINE gone == [ph EXCEPT ![p] = "gone"]
<1>1. gone \in [Pids -> Phases]
  BY DEF Phases
<1>2. closed' \in BOOLEAN
  BY DEF FinishExit
<1>3. CASE /\ teardown = "restart" /\ teardown' = "none"
           /\ StartIn(After(s, "user_restart"), pty, gone)
  <2>1. After(s, "user_restart") \in States
    BY AfterType
  <2> QED
    BY <1>1, <1>2, <1>3, <2>1, StartInType DEF Teardowns
<1>4. CASE teardown = "finishing" /\ MergeIn(s, pty, gone)
  BY <1>1, <1>2, <1>4, MergeInType
<1>5. CASE /\ state' = s /\ ptyProcess' = pty /\ phase' = gone
           /\ teardown' \in {"none", teardown}
           /\ UNCHANGED <<start, preparing>>
  BY <1>1, <1>2, <1>5 DEF SlotType, Teardowns
<1> QED
  BY <1>3, <1>4, <1>5 DEF FinishExit

\* So does an exit, whether its worktree is settled first or not.
LEMMA SettleThenFinishType ==
  ASSUME SlotType, closed \in BOOLEAN, ownExit \in [Pids -> BOOLEAN],
         NEW p \in Pids, NEW s \in States, NEW own \in BOOLEAN,
         NEW pty \in Pids \cup {NoProcess},
         NEW ph \in [Pids -> Phases], SettleThenFinish(p, s, own, pty, ph)
  PROVE  SlotType' /\ closed' \in BOOLEAN /\ ownExit' \in [Pids -> BOOLEAN]
<1>1. CASE FinishExit(p, s, own, pty, ph) /\ UNCHANGED ownExit
  BY <1>1, FinishExitType
<1>2. CASE /\ phase' = [ph EXCEPT ![p] = "probing"]
           /\ ownExit' = [ownExit EXCEPT ![p] = own]
           /\ state' = s /\ ptyProcess' = pty
           /\ UNCHANGED <<teardown, start, preparing, closed>>
  BY <1>2 DEF SlotType, Phases
<1> QED
  BY <1>1, <1>2 DEF SettleThenFinish

\* StateType, stated over the parts the lemmas above speak of.
RestType == /\ {ptyAlive, received, hooks, inPlace, closed} \subseteq BOOLEAN
            /\ exitEvent \in [Pids -> {"none", "process_exit",
                                       "process_exit_fail"}]
            /\ ownExit \in [Pids -> BOOLEAN]
            /\ tree \in [Pids -> Trees \cup {NoTree}]
            /\ worktreeDir \in Trees \cup {NoTree}
            /\ disk \subseteq used /\ used \subseteq Trees
            /\ endedBy \in Pids \cup {Operator}
            /\ requests \in Nat

LEMMA TypeParts == /\ StateType => SlotType /\ RestType
                   /\ SlotType' /\ RestType' => StateType'
BY DEF StateType, SlotType, RestType

LEMMA KillPtyType ==
  ASSUME StateType, KillPty
  PROVE  phase' \in [Pids -> Phases] /\ ptyAlive' \in BOOLEAN
BY SignalledType DEF StateType, KillPty

\* The pieces of a start keep the types.
LEMMA StartStepType ==
  ASSUME StateType, StartStep
  PROVE  StateType'
<1> USE DEF StateType
<1>1. After(state, "user_start") \in States /\
      After(state, "provision_blocked") \in States /\
      After(state, "spawn_success") \in States /\
      After(state, "spawn_fail") \in States
  BY AfterType
<1>2. CASE ReapsSettled
  BY <1>1, <1>2 DEF ReapsSettled, ProceedFrom, FirstStage, Stages
<1>3. CASE PopulateDone
  BY <1>1, <1>3 DEF PopulateDone, Provisioned, Stages
<1>4. CASE CreateDone
  BY <1>1, <1>4 DEF CreateDone, Provisioned, Stages
<1>5. CASE CreateInPlace
  BY <1>1, <1>5 DEF CreateInPlace, Provisioned, Stages
<1>6. CASE CreateBlocked
  BY <1>1, <1>6 DEF CreateBlocked, Stages
<1>7. ASSUME LaunchRest, Spawn, received' \in BOOLEAN
      PROVE  StateType'
  <2>1. PICK p \in Pids :
          /\ start' = "off" /\ ptyProcess' = p
          /\ tree' = [tree EXCEPT ![p] = worktreeDir]
          /\ ptyAlive' \in BOOLEAN /\ hooks' \in BOOLEAN
          /\ phase' \in {[phase EXCEPT ![p] = "live"],
                         [phase EXCEPT ![p] = "dying"]}
          /\ state' \in {After(state, "spawn_success"),
                         After(state, "spawn_fail")}
    BY <1>7 DEF Spawn, CleanupHooks
  <2>2. phase' \in [Pids -> Phases]
    BY <2>1 DEF Phases
  <2> QED
    BY <1>1, <1>7, <2>1, <2>2 DEF LaunchRest, Stages
<1>8. CASE PrepareDone
  BY <1>1, <1>7, <1>8 DEF PrepareDone, LaunchRest, Abandon, CleanupHooks, Stages
<1>9. CASE LaunchDone
  BY <1>1, <1>7, <1>9 DEF LaunchDone, LaunchRest, Abandon, CleanupHooks, Stages
<1> QED
  BY <1>2, <1>3, <1>4, <1>5, <1>6, <1>8, <1>9 DEF StartStep, ProvisionDone

\* So do the agent's own steps and the merge.
LEMMA AgentStepType ==
  ASSUME StateType, AgentStep \/ MergeDone
  PROVE  StateType'
<1> USE DEF StateType
<1>1. \A e : After(state, e) \in States
  BY AfterType
<1>2. CASE FirstOutput
  BY <1>1, <1>2 DEF FirstOutput
<1>3. CASE Detect
  BY <1>1, <1>3 DEF Detect
<1>4. CASE SocketError
  BY <1>4, KillPtyType DEF SocketError
<1>5. CASE MergeDone
  <2>1. Reset(state, ptyProcess, worktreeDir') \in States
    BY <1>1 DEF Reset
  <2> QED
    BY <1>5, <2>1 DEF MergeDone, Teardowns
<1> QED
  BY <1>2, <1>3, <1>4, <1>5 DEF AgentStep

\* So does every piece of an exit's handler.
LEMMA ExitStepType ==
  ASSUME StateType, NEW p \in Pids, OnExit(p) \/ ExitStep(p)
  PROVE  StateType'
<1>1. SlotType /\ RestType /\ closed \in BOOLEAN /\ ownExit \in [Pids -> BOOLEAN]
  BY TypeParts DEF RestType
<1>2. \A e : After(state, e) \in States
  BY AfterType DEF StateType
<1>3. ReapHeld \in [Pids -> Phases]
  BY SignalledType DEF ReapHeld, StateType
<1>4. CASE OnExit(p)
  <2>1. PICK exit \in Exits :
          LET event == ExitEvent(state, exit, received) IN
          \/ /\ Remote /\ HeadedForFailure(state, event)
             /\ ptyProcess' = NoProcess
             /\ phase' = [ReapHeld EXCEPT ![p] = "describing"]
             /\ exitEvent' = [exitEvent EXCEPT ![p] = event]
             /\ UNCHANGED <<state, teardown, start, preparing, ownExit, ended>>
          \/ /\ EndedBy(p, After(state, event))
             /\ SettleThenFinish(p, After(state, event),
                                 OwnCleanExit(exit, event), NoProcess, ReapHeld)
             /\ UNCHANGED exitEvent
    BY <1>4 DEF OnExit
  <2> DEFINE event == ExitEvent(state, exit, received)
  <2>2. CASE /\ HeadedForFailure(state, event)
             /\ ptyProcess' = NoProcess
             /\ phase' = [ReapHeld EXCEPT ![p] = "describing"]
             /\ exitEvent' = [exitEvent EXCEPT ![p] = event]
             /\ UNCHANGED <<state, teardown, start, preparing, ownExit, ended>>
    <3>1. event \in {"process_exit", "process_exit_fail"}
      BY <2>2, <1>1 DEF HeadedForFailure, ExitEvent, Accepts, After, SlotType,
         Transitions, States, DORMANT, INITIALIZING, STARTING, RUNNING, WAITING,
         IDLE, COMPLETE, DONE, FAILED
    <3> QED
      BY <1>1, <1>3, <1>4, <2>2, <3>1
         DEF OnExit, StateType, SlotType, RestType, CleanupHooks, Phases
  <2>3. CASE /\ EndedBy(p, After(state, event))
             /\ SettleThenFinish(p, After(state, event),
                                 OwnCleanExit(exit, event), NoProcess, ReapHeld)
             /\ UNCHANGED exitEvent
    <3>1. OwnCleanExit(exit, event) \in BOOLEAN
      BY DEF OwnCleanExit
    <3>2. /\ SlotType' /\ closed' \in BOOLEAN
          /\ ownExit' \in [Pids -> BOOLEAN]
      BY <1>1, <1>2, <1>3, <2>3, <3>1, SettleThenFinishType
    <3> QED
      BY <1>1, <1>4, <2>3, <3>2, TypeParts
         DEF OnExit, RestType, CleanupHooks, EndedBy
  <2> QED
    BY <2>1, <2>2, <2>3
<1>5. CASE DescribeDone(p)
  <2>1. SlotType' /\ closed' \in BOOLEAN /\ ownExit' \in [Pids -> BOOLEAN]
    <3>1. ptyProcess \in Pids \cup {NoProcess} /\ phase \in [Pids -> Phases]
      BY <1>1 DEF SlotType
    <3> QED
      BY <1>1, <1>2, <1>5, <3>1, SettleThenFinishType DEF DescribeDone
  <2> QED
    BY <1>1, <1>5, <2>1, TypeParts DEF DescribeDone, ExitRest, RestType, EndedBy
<1>6. ASSUME FinishExit(p, state, ownExit[p], ptyProcess, phase)
      PROVE  SlotType' /\ closed' \in BOOLEAN
  <2>1. /\ ptyProcess \in Pids \cup {NoProcess} /\ phase \in [Pids -> Phases]
        /\ state \in States /\ ownExit[p] \in BOOLEAN
    BY <1>1 DEF SlotType
  <2> QED
    BY <1>1, <1>6, <2>1, FinishExitType
<1>7. CASE ProbeDone(p)
  <2>1. SlotType' /\ closed' \in BOOLEAN
    BY <1>1, <1>6, <1>7 DEF ProbeDone, SlotType, Phases
  <2> QED
    BY <1>1, <1>7, <2>1, TypeParts DEF ProbeDone, ExitRest, RestType
<1>8. CASE ReleaseDone(p)
  <2>1. SlotType' /\ closed' \in BOOLEAN
    BY <1>1, <1>6, <1>8 DEF ReleaseDone, SlotType, Phases
  <2> QED
    BY <1>1, <1>8, <2>1, TypeParts DEF ReleaseDone, ExitRest, RestType
<1>9. CASE RemoveDone(p)
  BY <1>9, <1>1, TypeParts DEF RemoveDone, SlotType, RestType, Phases
<1>10. CASE ClearDone(p)
  BY <1>10, <1>1, <1>6, TypeParts DEF ClearDone, ExitRest, RestType
<1> QED
  BY <1>4, <1>5, <1>7, <1>8, <1>9, <1>10 DEF ExitStep

\* So does every request of the operator.
LEMMA OperatorStepType ==
  ASSUME StateType, OperatorStep
  PROVE  StateType'
<1>1. SlotType /\ RestType
  BY TypeParts
<1>2. \A e : After(state, e) \in States
  BY AfterType DEF StateType
<1>3. /\ state \in States /\ ptyProcess \in Pids \cup {NoProcess}
      /\ phase \in [Pids -> Phases] /\ teardown \in Teardowns
  BY DEF StateType
<1>4. CASE Start
  <2>1. SlotType'
    BY <1>1, <1>3, <1>4, StartInType DEF Start
  <2> QED
    BY <1>1, <1>4, <2>1, TypeParts DEF Start, Request, RestType
<1>5. CASE Dismiss
  BY <1>2, <1>5 DEF Dismiss, StateType
<1>6. CASE KillSession
  BY <1>2, <1>6, KillPtyType DEF KillSession, KillAndEnd, OperatorRest, StateType
<1>7. CASE Restart
  <2>1. SlotType'
    BY <1>1, <1>2, <1>3, <1>7, StartInType DEF Restart
  <2> QED
    BY <1>1, <1>7, <2>1, TypeParts DEF Restart, Request, OperatorRest, RestType
<1>8. CASE ForceRestart
  BY <1>2, <1>8, KillPtyType
     DEF ForceRestart, Request, KillAndEnd, OperatorRest, StateType, Teardowns
<1>9. CASE FinishAndMerge
  <2>1. CASE MergeIn(state, ptyProcess, phase) /\ UNCHANGED <<folder, ptyAlive, endedBy>>
    <3>1. SlotType'
      BY <1>1, <1>3, <2>1, MergeInType
    <3> QED
      BY <1>1, <1>9, <2>1, <3>1, TypeParts
         DEF FinishAndMerge, Request, OperatorRest, RestType
  <2>2. CASE teardown' = "finishing" /\ KillAndEnd
    BY <1>2, <1>9, <2>2, KillPtyType
       DEF FinishAndMerge, Request, KillAndEnd, OperatorRest, StateType, Teardowns
  <2> QED
    BY <1>9, <2>1, <2>2 DEF FinishAndMerge
<1>10. CASE Destroy
  BY <1>10, KillPtyType DEF Destroy, CleanupHooks, StateType, Teardowns
<1> QED
  BY <1>4, <1>5, <1>6, <1>7, <1>8, <1>9, <1>10 DEF OperatorStep

\* A new session is well typed.
LEMMA TypeCorrectInit == Init => StateType
<1> SUFFICES ASSUME Init PROVE StateType
  OBVIOUS
<1>1. /\ state \in States /\ preparing \in States
      /\ teardown \in Teardowns /\ start \in Stages
      /\ ptyProcess \in Pids \cup {NoProcess}
      /\ phase \in [Pids -> Phases]
  BY DEF Init, States, Teardowns, Stages, Phases
<1>2. /\ {ptyAlive, received, hooks, inPlace, closed} \subseteq BOOLEAN
      /\ exitEvent \in [Pids -> {"none", "process_exit",
                                 "process_exit_fail"}]
      /\ ownExit \in [Pids -> BOOLEAN]
      /\ tree \in [Pids -> Trees \cup {NoTree}]
  BY DEF Init
<1> QED
  BY <1>1, <1>2 DEF Init, StateType

\* Every step keeps it so.
LEMMA TypeCorrectStep == StateType /\ [Next]_vars => StateType'
<1> SUFFICES ASSUME StateType, [Next]_vars PROVE StateType'
  OBVIOUS
<1>1. CASE UNCHANGED vars
  BY <1>1 DEF vars, StateType
<1> QED
  BY <1>1, StartStepType, AgentStepType, ExitStepType, OperatorStepType DEF Next

\* Every state of every session is well typed: no transition, exit, merge or
\* worktree step ever leaves the session with a value the code has no case for.
THEOREM TypeCorrect == Spec => []TypeOK
<1>1. Init => TypeOK
  BY TypeCorrectInit DEF TypeOK, Init
<1>2. TypeOK /\ [Next]_vars => TypeOK'
  BY TypeCorrectStep DEF TypeOK, Next, vars
<1> QED
  BY <1>1, <1>2, PTL DEF Spec

-----------------------------------------------------------------------------
(* No stray process.  NoStrayProcess is not inductive by itself: a spawn     *)
(* takes the slot of whatever process the session holds.  What saves it is   *)
(* that a start() in flight has emptied the slot and nothing fills it again  *)
(* before the spawn.                                                         *)

\* pty is the slot, ph the phases and st the start in flight.
Held(pty, ph, st) ==
  /\ st # "off" => pty = NoProcess
  /\ \A q \in Pids : ph[q] = "live" => q = pty

SlotInv == StateType /\ Held(ptyProcess, phase, start)

LEMMA SignalledHeld ==
  ASSUME NEW ph \in [Pids -> Phases], NEW pty, NEW st,
         Held(pty, ph, st)
  PROVE  \A q \in Pids : Signalled(ph, pty)[q] # "live"
BY DEF Held, Signalled, Phases

LEMMA StartInHeld ==
  ASSUME NEW s, NEW pty \in Pids \cup {NoProcess}, NEW ph \in [Pids -> Phases],
         Held(pty, ph, start), StartIn(s, pty, ph)
  PROVE  Held(ptyProcess, phase, start)'
<1>1. CASE start # "off" \/ Destroyed
  BY <1>1 DEF StartIn, Held
<1>2. CASE start = "off" /\ ~Destroyed
  BY <1>2, SignalledHeld DEF StartIn, Held
<1> QED
  BY <1>1, <1>2

LEMMA FinishExitHeld ==
  ASSUME NEW p \in Pids, NEW s, NEW own,
         NEW pty \in Pids \cup {NoProcess}, NEW ph \in [Pids -> Phases],
         Held(pty, ph, start), FinishExit(p, s, own, pty, ph)
  PROVE  Held(ptyProcess, phase, start)'
<1> DEFINE gone == [ph EXCEPT ![p] = "gone"]
<1>1. gone \in [Pids -> Phases] /\ Held(pty, gone, start)
  BY DEF Held, Phases
<1>2. CASE StartIn(After(s, "user_restart"), pty, gone)
  <2> HIDE DEF gone
  <2> QED
    BY <1>1, <1>2, StartInHeld
<1>3. CASE ptyProcess' = pty /\ phase' = gone /\ start' = start
  BY <1>1, <1>3 DEF Held
<1> QED
  BY <1>2, <1>3 DEF FinishExit, MergeIn

LEMMA SettleThenFinishHeld ==
  ASSUME NEW p \in Pids, NEW s, NEW own,
         NEW pty \in Pids \cup {NoProcess}, NEW ph \in [Pids -> Phases],
         Held(pty, ph, start), SettleThenFinish(p, s, own, pty, ph)
  PROVE  Held(ptyProcess, phase, start)'
<1>1. CASE FinishExit(p, s, own, pty, ph)
  BY <1>1, FinishExitHeld
<1>2. CASE /\ phase' = [ph EXCEPT ![p] = "probing"]
           /\ ptyProcess' = pty /\ start' = start
  BY <1>2 DEF Held
<1> QED
  BY <1>1, <1>2 DEF SettleThenFinish

\* Every step keeps the slot empty during a start and holds every live process.
LEMMA HeldStep ==
  ASSUME SlotInv, [Next]_vars
  PROVE  Held(ptyProcess, phase, start)'
<1> USE DEF SlotInv
<1>1. /\ ptyProcess \in Pids \cup {NoProcess} /\ phase \in [Pids -> Phases]
      /\ start \in Stages
  BY DEF StateType
<1>2. ReapHeld \in [Pids -> Phases] /\ Held(NoProcess, ReapHeld, start)
  BY <1>1, SignalledHeld, SignalledType DEF ReapHeld, Held
<1>3. CASE UNCHANGED <<ptyProcess, phase>> /\ start' \in {start, "off"}
  BY <1>3 DEF Held
<1>4. CASE UNCHANGED <<ptyProcess, start>> /\ KillPty
  BY <1>1, <1>4, SignalledHeld DEF Held, KillPty
<1>5. CASE UNCHANGED <<ptyProcess, phase>> /\ start # "off"
  BY <1>5 DEF Held
<1>6. ASSUME Spawn, start # "off" PROVE Held(ptyProcess, phase, start)'
  <2>1. PICK p \in Pids :
          /\ start' = "off" /\ ptyProcess' = p
          /\ phase' \in {[phase EXCEPT ![p] = "live"],
                         [phase EXCEPT ![p] = "dying"]}
    BY <1>6 DEF Spawn
  <2>2. \A q \in Pids : phase[q] # "live"
    BY <1>1, <1>6 DEF Held
  <2> QED
    BY <1>1, <2>1, <2>2 DEF Held
<1>7. CASE StartStep
  <2>1. start # "off"
    BY <1>7 DEF StartStep, ReapsSettled, ProvisionDone, PopulateDone, CreateDone,
       CreateInPlace, CreateBlocked, PrepareDone, LaunchDone
  <2>2. \/ UNCHANGED <<ptyProcess, phase>>
        \/ Spawn
    BY <1>7 DEF StartStep, ReapsSettled, ProvisionDone, PopulateDone, CreateDone,
       CreateInPlace, CreateBlocked, Provisioned, PrepareDone, LaunchDone, Abandon
  <2> QED
    BY <1>5, <1>6, <2>1, <2>2
<1>8. CASE AgentStep \/ MergeDone \/ UNCHANGED vars
  BY <1>3, <1>4, <1>8 DEF AgentStep, FirstOutput, Detect, SocketError, MergeDone,
     vars
<1>9. ASSUME NEW p \in Pids, OnExit(p) PROVE Held(ptyProcess, phase, start)'
  <2>1. \/ \E s, own : SettleThenFinish(p, s, own, NoProcess, ReapHeld)
        \/ /\ ptyProcess' = NoProcess /\ start' = start
           /\ phase' = [ReapHeld EXCEPT ![p] = "describing"]
    BY <1>9 DEF OnExit
  <2>2. CASE /\ ptyProcess' = NoProcess /\ start' = start
             /\ phase' = [ReapHeld EXCEPT ![p] = "describing"]
    BY <1>2, <2>2 DEF Held
  <2> QED
    BY <1>2, <2>1, <2>2, SettleThenFinishHeld
<1>10. ASSUME NEW p \in Pids, ExitStep(p)
       PROVE  Held(ptyProcess, phase, start)'
  <2>1. \/ \E s, own : \/ SettleThenFinish(p, s, own, ptyProcess, phase)
                        \/ FinishExit(p, s, own, ptyProcess, phase)
        \/ /\ UNCHANGED <<ptyProcess, start>>
           /\ \E ph \in {"releasing", "removing", "clearing"} :
                phase' = [phase EXCEPT ![p] = ph]
    BY <1>10 DEF ExitStep, DescribeDone, ProbeDone, ReleaseDone, RemoveDone,
       ClearDone
  <2>2. CASE /\ UNCHANGED <<ptyProcess, start>>
             /\ \E ph \in {"releasing", "removing", "clearing"} :
                  phase' = [phase EXCEPT ![p] = ph]
    BY <1>1, <2>2 DEF Held
  <2> QED
    BY <1>1, <2>1, <2>2, SettleThenFinishHeld, FinishExitHeld
<1>11. CASE OperatorStep
  <2>1. \/ \E s : StartIn(s, ptyProcess, phase)
        \/ UNCHANGED <<ptyProcess, phase, start>>
        \/ UNCHANGED <<ptyProcess, start>> /\ KillPty
    BY <1>11 DEF OperatorStep, Start, Dismiss, KillSession, Restart,
       ForceRestart, FinishAndMerge, Destroy, KillAndEnd, MergeIn
  <2> QED
    BY <1>1, <1>3, <1>4, <2>1, StartInHeld
<1> QED
  BY <1>7, <1>8, <1>9, <1>10, <1>11 DEF Next

\* No agent is left behind: every process that runs is the one the session
\* holds and can kill, however starts, restarts, kills and late exits interleave.
THEOREM NoStray == Spec => []NoStrayProcess
<1>1. Init => SlotInv
  BY TypeCorrectInit DEF SlotInv, Held, Init
<1>2. SlotInv /\ [Next]_vars => SlotInv'
  BY HeldStep, TypeCorrectStep DEF SlotInv
<1>3. SlotInv => NoStrayProcess
  BY DEF SlotInv, Held, NoStrayProcess
<1> QED
  BY <1>1, <1>2, <1>3, PTL DEF Spec

-----------------------------------------------------------------------------
(* What the state tells.  Of a local session only: over the network an exit  *)
(* awaits its description before it moves the state, and a restart may have  *)
(* a new agent running by then.                                              *)

\* s is the state, pty the slot and ph the phases.
Told(s, pty, ph) ==
  /\ \A q \in Pids : ph[q] # "describing"
  /\ \A q \in Pids : ph[q] = "live" => s \in LiveStates /\ ~Destroyed
  /\ s \in LiveStates => pty # NoProcess

\* An agent that still starts has not spoken: its exit is always a failure to
\* start, which the table accepts in STARTING, and no other event is.
Unspoken == state = STARTING \/ start = "launching" => ~received

ToldInv == SlotInv /\ Told(state, ptyProcess, phase) /\ Unspoken

LEMMA StartInTold ==
  ASSUME NEW s \in States, NEW pty \in Pids \cup {NoProcess},
         NEW ph \in [Pids -> Phases],
         s \notin LiveStates, Told(s, pty, ph), Unspoken,
         StartIn(s, pty, ph), received' = received,
         Destroyed' => Destroyed
  PROVE  Told(state, ptyProcess, phase)' /\ Unspoken'
<1>1. After(s, "user_start") \notin LiveStates
  BY OnlySpawnGoesLive
<1>2. state' \notin LiveStates
  BY <1>1 DEF StartIn, ProceedFrom
<1>3. Signalled(ph, pty) = ph
  BY DEF Told, Signalled
<1>4. phase' = ph
  BY <1>3 DEF StartIn
<1>5. start' # "launching" \/ start' = start
  BY DEF StartIn, ProceedFrom, FirstStage
<1> QED
  BY <1>2, <1>4, <1>5 DEF Told, Unspoken, LiveStates

LEMMA MergeInTold ==
  ASSUME NEW s \in States, NEW pty \in Pids \cup {NoProcess},
         NEW ph \in [Pids -> Phases],
         Told(s, pty, ph), Unspoken, s = STARTING => state = STARTING,
         MergeIn(s, pty, ph), received' = received
  PROVE  Told(state, ptyProcess, phase)' /\ Unspoken'
<1>1. /\ state' \in {s, After(s, "user_reset")}
      /\ ptyProcess' = pty /\ phase' = ph /\ start' = start /\ ~Destroyed'
  BY DEF MergeIn, Reset, Destroyed
<1>2. /\ state' \in LiveStates <=> s \in LiveStates
      /\ state' = STARTING => s = STARTING
  BY <1>1, OnlySpawnGoesLive, LiveStaysLive
<1> QED
  BY <1>1, <1>2 DEF Told, Unspoken

LEMMA FinishExitTold ==
  ASSUME NEW p \in Pids, NEW s \in States, NEW own,
         NEW pty \in Pids \cup {NoProcess}, NEW ph \in [Pids -> Phases],
         Told(s, pty, ph), Unspoken, s = STARTING => state = STARTING,
         FinishExit(p, s, own, pty, ph), received' = received
  PROVE  Told(state, ptyProcess, phase)' /\ Unspoken'
<1> DEFINE gone == [ph EXCEPT ![p] = "gone"]
<1>1. gone \in [Pids -> Phases] /\ Told(s, pty, gone)
  BY DEF Told, Phases
<1>2. CASE /\ teardown' = "none" /\ s \in RestartableStates
           /\ StartIn(After(s, "user_restart"), pty, gone)
  <2>1. /\ After(s, "user_restart") \in States
        /\ After(s, "user_restart") \notin LiveStates
    BY <1>2, AfterType, OnlySpawnGoesLive
       DEF RestartableStates, LiveStates, SettledStates, DONE, FAILED, STARTING,
           RUNNING, WAITING, IDLE, COMPLETE
  <2>2. s \notin LiveStates
    BY <1>2 DEF RestartableStates, LiveStates, SettledStates, DONE, FAILED,
           STARTING, RUNNING, WAITING, IDLE, COMPLETE
  <2>3. Told(After(s, "user_restart"), pty, gone)
    BY <1>1, <2>1, <2>2 DEF Told
  <2>4. ~Destroyed'
    BY <1>2 DEF Destroyed
  <2> HIDE DEF gone
  <2> QED
    BY <1>1, <1>2, <2>1, <2>3, <2>4, StartInTold
<1>3. CASE MergeIn(s, pty, gone)
  <2> HIDE DEF gone
  <2> QED
    BY <1>1, <1>3, MergeInTold
<1>4. CASE /\ state' = s /\ ptyProcess' = pty /\ phase' = gone
           /\ start' = start /\ (teardown' = "none" \/ teardown' = teardown)
  BY <1>1, <1>4 DEF Told, Unspoken, Destroyed
<1> QED
  BY <1>2, <1>3, <1>4 DEF FinishExit

LEMMA SettleThenFinishTold ==
  ASSUME NEW p \in Pids, NEW s \in States, NEW own,
         NEW pty \in Pids \cup {NoProcess}, NEW ph \in [Pids -> Phases],
         Told(s, pty, ph), Unspoken, s = STARTING => state = STARTING,
         SettleThenFinish(p, s, own, pty, ph), received' = received
  PROVE  Told(state, ptyProcess, phase)' /\ Unspoken'
<1>1. CASE FinishExit(p, s, own, pty, ph)
  BY <1>1, FinishExitTold
<1>2. CASE /\ phase' = [ph EXCEPT ![p] = "probing"]
           /\ state' = s /\ ptyProcess' = pty
           /\ UNCHANGED <<teardown, start>>
  BY <1>2 DEF Told, Unspoken, Destroyed
<1> QED
  BY <1>1, <1>2 DEF SettleThenFinish

\* A start() in flight is never one of a live session.
LEMMA StartTold ==
  ASSUME ~Remote, ToldInv, StartStep
  PROVE  Told(state, ptyProcess, phase)' /\ Unspoken'
<1> USE DEF ToldInv, SlotInv
<1>1. start # "off"
  BY DEF StartStep, ReapsSettled, ProvisionDone, PopulateDone, CreateDone,
     CreateInPlace, CreateBlocked, PrepareDone, LaunchDone
<1>2. /\ ptyProcess = NoProcess /\ state \in States /\ state \notin LiveStates
      /\ phase \in [Pids -> Phases]
      /\ \A q \in Pids : phase[q] \notin {"live", "describing"}
  BY <1>1 DEF Held, Told, StateType
<1>3. state # STARTING
  BY <1>2 DEF LiveStates
<1>4. \A e \in {"user_start", "provision_blocked", "spawn_fail"} :
        After(state, e) \notin LiveStates
  BY <1>2, OnlySpawnGoesLive
<1>5. CASE /\ UNCHANGED <<ptyProcess, phase, teardown>>
           /\ \/ state' = state
              \/ \E e \in {"user_start", "provision_blocked", "spawn_fail"} :
                   state' = After(state, e)
           /\ start' = "launching" => ~received'
  <2>1. state' \notin LiveStates
    BY <1>2, <1>4, <1>5
  <2>2. state' # STARTING
    BY <2>1 DEF LiveStates
  <2> QED
    BY <1>2, <1>5, <2>1, <2>2 DEF Told, Unspoken
<1>6. ASSUME Spawn, ~Superseded, LaunchRest, ~received'
      PROVE  Told(state, ptyProcess, phase)' /\ Unspoken'
  <2>1. PICK p \in Pids :
          /\ start' = "off" /\ ptyProcess' = p
          /\ \/ /\ phase' = [phase EXCEPT ![p] = "live"]
                /\ SpawnSucceeds /\ state' = After(state, "spawn_success")
             \/ /\ phase' = [phase EXCEPT ![p] = "dying"]
                /\ state' = After(state, "spawn_fail")
    BY <1>6 DEF Spawn
  <2>2. CASE /\ phase' = [phase EXCEPT ![p] = "live"]
             /\ SpawnSucceeds /\ state' = After(state, "spawn_success")
    <3>1. state' = STARTING
      BY <2>2 DEF SpawnSucceeds, After, Accepts, Transitions, INITIALIZING,
         STARTING
    <3> QED
      BY <1>2, <1>6, <2>1, <2>2, <3>1
         DEF Told, Unspoken, LiveStates, Superseded, Destroyed, LaunchRest
  <2>3. CASE /\ phase' = [phase EXCEPT ![p] = "dying"]
             /\ state' = After(state, "spawn_fail")
    BY <1>2, <1>4, <1>6, <2>1, <2>3 DEF Told, Unspoken, LiveStates
  <2> QED
    BY <2>1, <2>2, <2>3
<1>7. CASE PrepareDone
  BY <1>5, <1>6, <1>7 DEF PrepareDone, LaunchRest, Abandon
<1>8. CASE LaunchDone
  BY <1>5, <1>6, <1>8 DEF LaunchDone, LaunchRest, Abandon, Unspoken
<1>9. CASE ReapsSettled
  BY <1>5, <1>9 DEF ReapsSettled, ProceedFrom, FirstStage
<1>10. CASE ProvisionDone
  BY <1>5, <1>10 DEF ProvisionDone, PopulateDone, CreateDone, CreateInPlace,
     CreateBlocked, Provisioned
<1> QED
  BY <1>7, <1>8, <1>9, <1>10 DEF StartStep

LEMMA AgentTold ==
  ASSUME ToldInv, AgentStep \/ MergeDone \/ UNCHANGED vars
  PROVE  Told(state, ptyProcess, phase)' /\ Unspoken'
<1> USE DEF ToldInv, SlotInv
<1>1. /\ state \in States /\ phase \in [Pids -> Phases]
      /\ Held(ptyProcess, phase, start)
  BY DEF StateType
<1>2. ASSUME NEW e \in DetectionEvents \cup {"user_reset"}, state' = After(state, e)
      PROVE  /\ state' \in LiveStates <=> state \in LiveStates
             /\ state' = STARTING => state = STARTING
  BY <1>1, <1>2, OnlySpawnGoesLive, LiveStaysLive DEF DetectionEvents
<1>3. CASE FirstOutput
  <2>1. state' = IDLE
    BY <1>3 DEF FirstOutput, After, Accepts, Transitions, STARTING, IDLE
  <2>2. start = "off"
    BY <1>1, <1>3 DEF FirstOutput, Held, Told, LiveStates
  <2> QED
    BY <1>3, <2>1, <2>2 DEF FirstOutput, Told, Unspoken, Destroyed, LiveStates,
       SettledStates, IDLE, STARTING, RUNNING, WAITING, COMPLETE
<1>4. CASE Detect
  BY <1>2, <1>4 DEF Detect, Told, Unspoken, Destroyed
<1>5. CASE SocketError
  BY <1>1, <1>5, SignalledHeld DEF SocketError, KillPty, Told, Unspoken,
     Destroyed, Signalled
<1>6. CASE MergeDone
  <2>1. state' = state \/ state' = After(state, "user_reset")
    BY <1>6 DEF MergeDone, Reset
  <2> QED
    BY <1>2, <1>6, <2>1 DEF MergeDone, Told, Unspoken, Destroyed
<1>7. CASE UNCHANGED vars
  BY <1>7 DEF vars, Told, Unspoken, Destroyed
<1> QED
  BY <1>3, <1>4, <1>5, <1>6, <1>7 DEF AgentStep

\* The exit of any process, the session's own or an older one, ends the
\* session, and takes the process the session holds with it.
LEMMA ExitTold ==
  ASSUME ~Remote, ToldInv, NEW p \in Pids, OnExit(p) \/ ExitStep(p)
  PROVE  Told(state, ptyProcess, phase)' /\ Unspoken'
<1> USE DEF ToldInv, SlotInv
<1>1. /\ state \in States /\ ptyProcess \in Pids \cup {NoProcess}
      /\ phase \in [Pids -> Phases] /\ received \in BOOLEAN
      /\ Held(ptyProcess, phase, start)
  BY DEF StateType
<1>2. CASE OnExit(p)
  <2>1. PICK exit \in Exits :
          SettleThenFinish(p, After(state, ExitEvent(state, exit, received)),
                           OwnCleanExit(exit, ExitEvent(state, exit, received)),
                           NoProcess, ReapHeld)
    BY <1>2 DEF OnExit
  <2> DEFINE s == After(state, ExitEvent(state, exit, received))
  <2>2. s \in States /\ s \notin LiveStates
    BY <1>1, AfterType, ExitEndsLiveState DEF Exits, Unspoken
  <2>3. /\ ReapHeld \in [Pids -> Phases]
        /\ \A q \in Pids : ReapHeld[q] \notin {"live", "describing"}
    BY <1>1, SignalledHeld, SignalledType DEF ReapHeld, Told, Signalled
  <2>4. Told(s, NoProcess, ReapHeld) /\ s # STARTING
    BY <2>2, <2>3 DEF Told, LiveStates
  <2>5. received' = received
    BY <1>2 DEF OnExit
  <2> HIDE DEF s
  <2> QED
    BY <2>1, <2>2, <2>3, <2>4, <2>5, SettleThenFinishTold DEF s
<1>3. CASE DescribeDone(p)
  BY <1>3 DEF DescribeDone, Told
<1>4. CASE /\ \E own : FinishExit(p, state, own, ptyProcess, phase)
           /\ received' = received
  BY <1>1, <1>4, FinishExitTold
<1>5. CASE /\ UNCHANGED <<state, teardown, start, ptyProcess, received>>
           /\ \E ph \in {"releasing", "removing", "clearing"} :
                phase' = [phase EXCEPT ![p] = ph]
  BY <1>1, <1>5 DEF Told, Unspoken, Destroyed
<1> QED
  BY <1>2, <1>3, <1>4, <1>5 DEF ExitStep, ProbeDone, ReleaseDone, RemoveDone,
     ClearDone, ExitRest

LEMMA OperatorTold ==
  ASSUME ToldInv, OperatorStep
  PROVE  Told(state, ptyProcess, phase)' /\ Unspoken'
<1> USE DEF ToldInv, SlotInv
<1>1. /\ state \in States /\ ptyProcess \in Pids \cup {NoProcess}
      /\ phase \in [Pids -> Phases]
      /\ Held(ptyProcess, phase, start)
  BY DEF StateType
<1>2. \A q \in Pids : Signalled(phase, ptyProcess)[q] \notin {"live", "describing"}
  BY <1>1, SignalledHeld DEF Told, Signalled
<1>3. ASSUME KillAndEnd, received' = received
      PROVE  Told(state, ptyProcess, phase)' /\ Unspoken'
  <2>1. state' \notin LiveStates
    BY <1>1, <1>3, KillEndsLive DEF KillAndEnd
  <2> QED
    BY <1>2, <1>3, <2>1 DEF KillAndEnd, KillPty, Told, Unspoken, LiveStates
<1>4. CASE Start
  <2>1. state \notin LiveStates
    BY <1>4 DEF Start, LiveStates, SettledStates, DORMANT, STARTING, RUNNING,
       WAITING, IDLE, COMPLETE
  <2> QED
    BY <1>1, <1>4, <2>1, StartInTold DEF Start, Destroyed
<1>5. CASE Dismiss
  <2>1. /\ state' \in LiveStates <=> state \in LiveStates
        /\ state' = STARTING => state = STARTING
    BY <1>1, <1>5, OnlySpawnGoesLive, LiveStaysLive DEF Dismiss
  <2> QED
    BY <1>5, <2>1 DEF Dismiss, Told, Unspoken, Destroyed
<1>6. CASE Destroy
  BY <1>2, <1>6 DEF Destroy, KillPty, Told, Unspoken
<1>7. CASE state \in RestartableStates
  <2>1. state \notin LiveStates
    BY <1>7 DEF RestartableStates, LiveStates, SettledStates, DONE, FAILED,
       STARTING, RUNNING, WAITING, IDLE, COMPLETE
  <2>2. /\ After(state, "user_restart") \in States
        /\ After(state, "user_restart") \notin LiveStates
    BY <1>1, <2>1, AfterType, OnlySpawnGoesLive
  <2>3. Told(After(state, "user_restart"), ptyProcess, phase)
    BY <2>1, <2>2 DEF Told
  <2>4. CASE Restart
    BY <1>1, <2>2, <2>3, <2>4, StartInTold DEF Restart, OperatorRest, Destroyed
  <2>5. CASE FinishAndMerge
    BY <1>1, <1>3, <2>5, MergeInTold DEF FinishAndMerge, OperatorRest
  <2> QED
    BY <2>4, <2>5, <1>3, <1>4, <1>5, <1>6 DEF OperatorStep, KillSession,
       ForceRestart, OperatorRest
<1> QED
  BY <1>3, <1>4, <1>5, <1>6, <1>7 DEF OperatorStep, KillSession, Restart,
     ForceRestart, FinishAndMerge, OperatorRest

\* A local session never shows an agent that is not there, nor hides one that
\* is: a state that tells of a running agent holds a process, and once the
\* session sleeps, has ended or was removed, none of its processes runs.  It
\* takes no patience of the operator.
LocalInv == SlotInv /\ (~Remote => ToldInv)

LEMMA LocalInvInit == Init => LocalInv
  BY TypeCorrectInit
     DEF LocalInv, ToldInv, SlotInv, Held, Told, Unspoken, Init, LiveStates,
         SettledStates, DORMANT, STARTING, RUNNING, WAITING, IDLE, COMPLETE

LEMMA LocalInvStep == LocalInv /\ [Next]_vars => LocalInv'
<1> SUFFICES ASSUME LocalInv, [Next]_vars PROVE LocalInv'
  OBVIOUS
<1>1. SlotInv'
  BY HeldStep, TypeCorrectStep DEF LocalInv, SlotInv
<1>2. Remote' = Remote
  BY DEF Next, vars, Remote
<1>3. ASSUME ~Remote PROVE Told(state, ptyProcess, phase)' /\ Unspoken'
  BY <1>3, StartTold, AgentTold, ExitTold, OperatorTold DEF LocalInv, Next
<1> QED
  BY <1>1, <1>2, <1>3 DEF LocalInv, ToldInv

THEOREM LocalStateTellsProcess == Spec => [](~Remote => StateTellsProcess)
<1>1. LocalInv => (~Remote => StateTellsProcess)
  BY DEF LocalInv, ToldInv, Told, StateTellsProcess, LiveStates, SettledStates,
         DORMANT, DONE, FAILED, STARTING, RUNNING, WAITING, IDLE, COMPLETE
<1> QED
  BY <1>1, LocalInvInit, LocalInvStep, PTL DEF Spec

-----------------------------------------------------------------------------
(* The patient operator.  One who sends the next request only when the last  *)
(* has settled meets one process at a time: while one runs, dies or is       *)
(* cleaned up after, nothing starts, and while a start() is in flight nothing *)
(* else is alive.  A kill, a removal and a socket error may still come at    *)
(* any moment.  The properties of such a session follow from the invariant   *)
(* below, each part of which the others need.                                *)

\* The process, or its exit's handler, still has something to do.
Active(p) == phase[p] \notin {"unborn", "gone"}

\* The handler settles the worktree the session ended in.
Settling(p) == phase[p] \in {"probing", "releasing", "removing", "clearing"}

Alone ==
  /\ \A p, q \in Pids : Active(p) /\ Active(q) => p = q
  /\ start # "off" => \A p \in Pids : ~Active(p)
  /\ \A p \in Pids : p = ptyProcess => phase[p] \in {"live", "dying"}

\* A teardown that waits is one of an ended session.
Pending ==
  /\ TeardownPending =>
       /\ start = "off" /\ state \in RestartableStates
       /\ \A p \in Pids : phase[p] # "live"
  /\ teardown = "merging" => \A p \in Pids : ~Active(p)

\* What is shown is so, and what a description was asked for is still ahead.
Shown ==
  /\ \A p \in Pids : phase[p] = "live" => state \in LiveStates /\ ~Destroyed
  /\ state \in LiveStates =>
       ptyProcess # NoProcess \/ \E p \in Pids : phase[p] = "describing"
  /\ Unspoken
  /\ \A p \in Pids : phase[p] = "describing" /\ state \in LiveStates =>
       After(state, exitEvent[p]) = FAILED

\* An exit that is being settled ended the session, and is the agent's own
\* only if no kill came before it.
Settles ==
  \A p \in Pids : Settling(p) =>
    /\ state \in RestartableStates
    /\ ownExit[p] /\ state = DONE => endedBy # Operator

Hooked ==
  /\ \A p \in Pids : phase[p] = "live" => hooks
  /\ hooks => start = "launching" \/ (start = "off" /\ ptyProcess # NoProcess)

\* The worktree that was provisioned is there from the provision on.
Folder ==
  /\ start = "populating" => worktreeDir \in disk
  /\ HasGit /\ ~inPlace =>
       /\ start \in {"preparing", "launching"} => worktreeDir \in disk
       /\ \A p \in Pids : phase[p] = "live" => tree[p] \in disk

Parts == Alone /\ Pending /\ Shown /\ Settles /\ Hooked /\ Folder

\* Facts about the table.
LEMMA KillEnds == \A s \in KillableStates : After(s, "user_kill") = DONE
  BY DEF KillableStates, SettledStates, After, Accepts, Transitions,
         INITIALIZING, STARTING, RUNNING, WAITING, IDLE, COMPLETE, DONE

LEMMA LiveNotEnded ==
  /\ LiveStates \subseteq KillableStates /\ KillableStates \subseteq States
  /\ \A s \in RestartableStates : s \in States \ KillableStates
  /\ DORMANT \in States \ KillableStates
  /\ STARTING \in LiveStates /\ SettledStates \subseteq LiveStates
  /\ STARTING \notin SettledStates /\ INITIALIZING \in States \ LiveStates
  /\ DONE \in RestartableStates /\ FAILED \in RestartableStates
  /\ DORMANT \notin RestartableStates
  BY DEF LiveStates, KillableStates, RestartableStates, SettledStates, States,
         DORMANT, INITIALIZING, STARTING, RUNNING, WAITING, IDLE, COMPLETE,
         DONE, FAILED

LEMMA DetectStaysSettled ==
  ASSUME NEW s \in States, NEW event \in DetectionEvents \cup {"user_dismiss"},
         Accepts(s, event)
  PROVE  s \in SettledStates /\ After(s, event) \in SettledStates
<1> USE DEF After, Accepts, Transitions, States, DetectionEvents, DORMANT,
            INITIALIZING, STARTING, RUNNING, WAITING, IDLE, COMPLETE, DONE,
            FAILED, SettledStates
<1>1. CASE s \in {"DORMANT", "INITIALIZING", "STARTING", "DONE", "FAILED"}
  BY <1>1
<1>2. CASE s = "RUNNING"  BY <1>2
<1>3. CASE s = "WAITING"  BY <1>3
<1>4. CASE s = "IDLE"     BY <1>4
<1>5. CASE s = "COMPLETE" BY <1>5
<1> QED BY <1>1, <1>2, <1>3, <1>4, <1>5

LEMMA SettledFails ==
  ASSUME NEW s \in SettledStates,
         NEW event \in {"none", "process_exit", "process_exit_fail"}
  PROVE  After(s, event) = FAILED <=> event = "process_exit_fail"
BY DEF After, Accepts, Transitions, SettledStates, RUNNING, WAITING, IDLE,
   COMPLETE, DONE, FAILED

LEMMA EndedStaysEnded ==
  ASSUME NEW s \in RestartableStates,
         NEW event \in {"none", "process_exit", "process_exit_ok",
                        "process_exit_fail"}
  PROVE  After(s, event) \in RestartableStates
BY DEF After, Accepts, Transitions, RestartableStates, DONE, FAILED

LEMMA RestartInitializes ==
  ASSUME NEW s \in RestartableStates
  PROVE  After(s, "user_restart") = INITIALIZING
BY DEF After, Accepts, Transitions, RestartableStates, DONE, FAILED,
   INITIALIZING

LEMMA ResetSleeps ==
  ASSUME NEW s \in RestartableStates
  PROVE  After(s, "user_reset") = DORMANT
BY DEF After, Accepts, Transitions, RestartableStates, DONE, FAILED, DORMANT

\* Nothing is alive, and nothing is held, once a session that does not run has
\* settled.
LEMMA QuietIsEmpty ==
  ASSUME StateType, Parts, Quiet, state \notin LiveStates
  PROVE  /\ start = "off" /\ ptyProcess = NoProcess /\ ~hooks
         /\ \A q \in Pids : ~Active(q)
<1>1. \A q \in Pids : ~Active(q)
  BY DEF Quiet, Parts, Shown, Active
<1>2. ptyProcess = NoProcess
  BY <1>1 DEF Parts, Alone, Active, StateType
<1> QED
  BY <1>1, <1>2 DEF Quiet, Parts, Hooked

\* A start that finds nothing alive, with ph the phases it finds.
LEMMA StartInAlone ==
  ASSUME NEW s \in States \ LiveStates, NEW ph \in [Pids -> Phases],
         \A q \in Pids : ph[q] \in {"unborn", "gone"},
         start = "off", ~Destroyed, StartIn(s, NoProcess, ph),
         teardown' = "none", ~hooks', UNCHANGED options
  PROVE  Parts'
<1>1. phase' = ph /\ ptyProcess' = NoProcess
  BY DEF StartIn, Signalled
<1>2. /\ \A q \in Pids : ~Active(q)'
      /\ \A q \in Pids : phase'[q] \notin {"live", "describing"}
  BY <1>1 DEF Active
<1>3. /\ state' \in {s, After(s, "user_start")}
      /\ start' \in {"reaping", "preparing", "populating", "creating"}
      /\ start' = "preparing" => ~HasGit
      /\ start' = "populating" => worktreeDir' \in disk'
  BY DEF StartIn, ProceedFrom, FirstStage
<1>4. state' \notin LiveStates
  BY <1>3, OnlySpawnGoesLive
<1>5. Alone'
  BY <1>1, <1>2 DEF Alone
<1>6. Pending'
  BY DEF Pending, TeardownPending
<1>7. Shown'
  BY <1>2, <1>3, <1>4, LiveNotEnded DEF Shown, Unspoken
<1>8. Settles'
  BY <1>1 DEF Settles, Settling
<1>9. Hooked' /\ Folder'
  BY <1>1, <1>2, <1>3 DEF Hooked, Folder, HasGit
<1> QED
  BY <1>5, <1>6, <1>7, <1>8, <1>9 DEF Parts

\* What the end of an exit finds: the exit of p, the only one that is not over,
\* leaves the session in state s with nothing held.
ExitFound(p, s, own, ph) ==
  /\ start = "off" /\ teardown # "merging"
  /\ \A q \in Pids \ {p} : ph[q] \in {"unborn", "gone"}
  /\ s \in States \ LiveStates
  /\ TeardownPending => s \in RestartableStates
  /\ own /\ s = DONE => endedBy' # Operator
  /\ ~hooks' /\ UNCHANGED <<options, received>>

\* A merge of a finish starts once nothing is alive.
LEMMA MergeInAlone ==
  ASSUME NEW s \in RestartableStates, NEW ph \in [Pids -> Phases],
         \A q \in Pids : ph[q] \in {"unborn", "gone"},
         start = "off", MergeIn(s, NoProcess, ph), ~hooks',
         UNCHANGED options
  PROVE  Parts'
<1>1. phase' = ph /\ ptyProcess' = NoProcess /\ start' = "off"
  BY DEF MergeIn
<1>2. /\ \A q \in Pids : ~Active(q)'
      /\ \A q \in Pids : phase'[q] \notin {"live", "describing"}
  BY <1>1 DEF Active
<1>3. /\ state' \in {s, DORMANT} /\ teardown' \in {"none", "merging"}
      /\ teardown' = "merging" => state' = s
  BY ResetSleeps DEF MergeIn, Reset
<1>4. state' \notin LiveStates
  BY <1>3, LiveNotEnded
<1>5. Alone'
  BY <1>1, <1>2 DEF Alone
<1>6. Pending'
  BY <1>1, <1>2, <1>3 DEF Pending, TeardownPending
<1>7. Shown'
  BY <1>1, <1>2, <1>4, LiveNotEnded DEF Shown, Unspoken
<1>8. Settles' /\ Hooked' /\ Folder'
  BY <1>1, <1>2 DEF Settles, Settling, Hooked, Folder, Active
<1> QED
  BY <1>5, <1>6, <1>7, <1>8 DEF Parts

\* The end of an exit: the operator's teardown goes on with nothing alive.
LEMMA FinishExitAlone ==
  ASSUME NEW p \in Pids, NEW s, NEW own, NEW ph \in [Pids -> Phases],
         teardown \in Teardowns,
         ExitFound(p, s, own, ph), FinishExit(p, s, own, NoProcess, ph)
  PROVE  Parts'
<1> DEFINE gone == [ph EXCEPT ![p] = "gone"]
<1>1. /\ gone \in [Pids -> Phases]
      /\ \A q \in Pids : gone[q] \in {"unborn", "gone"}
  BY DEF ExitFound, Phases
<1>2. CASE /\ teardown = "restart" /\ teardown' = "none"
           /\ s \in RestartableStates
           /\ StartIn(After(s, "user_restart"), NoProcess, gone)
  <2>1. After(s, "user_restart") \in States \ LiveStates
    BY <1>2, RestartInitializes, LiveNotEnded
  <2> HIDE DEF gone
  <2> QED
    BY <1>1, <1>2, <2>1, StartInAlone DEF ExitFound, Destroyed
<1>3. CASE teardown = "finishing" /\ MergeIn(s, NoProcess, gone)
  <2>1. s \in RestartableStates
    BY <1>3 DEF ExitFound, TeardownPending
  <2> HIDE DEF gone
  <2> QED
    BY <1>1, <1>3, <2>1, MergeInAlone DEF ExitFound
<1>4. CASE /\ state' = s /\ ptyProcess' = NoProcess /\ phase' = gone
           /\ start' = "off" /\ teardown' \in {"none", "destroyed"}
  <2>1. \A q \in Pids : phase'[q] \in {"unborn", "gone"}
    BY <1>1, <1>4
  <2> HIDE DEF gone
  <2>2. Alone' /\ Pending' /\ Settles' /\ Hooked' /\ Folder'
    BY <1>4, <2>1 DEF ExitFound, Alone, Active, Pending, TeardownPending,
       Settles, Settling, Hooked, Folder
  <2>3. Shown'
    BY <1>4, <2>1, LiveNotEnded DEF ExitFound, Shown, Unspoken
  <2> QED
    BY <2>2, <2>3 DEF Parts
<1>5. \/ /\ teardown = "restart" /\ teardown' = "none"
         /\ s \in RestartableStates
         /\ StartIn(After(s, "user_restart"), NoProcess, gone)
      \/ teardown = "finishing" /\ MergeIn(s, NoProcess, gone)
      \/ /\ state' = s /\ ptyProcess' = NoProcess /\ phase' = gone
         /\ start' = "off" /\ teardown' \in {"none", "destroyed"}
  BY DEF FinishExit, ExitFound
<1> QED
  BY <1>2, <1>3, <1>4, <1>5

LEMMA SettleThenFinishAlone ==
  ASSUME NEW p \in Pids, NEW s, NEW own, NEW ph \in [Pids -> Phases],
         teardown \in Teardowns, ownExit \in [Pids -> BOOLEAN],
         ExitFound(p, s, own, ph), SettleThenFinish(p, s, own, NoProcess, ph)
  PROVE  Parts'
<1>1. CASE FinishExit(p, s, own, NoProcess, ph)
  BY <1>1, FinishExitAlone
<1>2. CASE /\ s \in RestartableStates
           /\ phase' = [ph EXCEPT ![p] = "probing"]
           /\ ownExit' = [ownExit EXCEPT ![p] = own]
           /\ state' = s /\ ptyProcess' = NoProcess
           /\ UNCHANGED <<teardown, start>>
  <2>1. /\ phase'[p] = "probing"
        /\ \A q \in Pids \ {p} : phase'[q] \in {"unborn", "gone"}
        /\ ownExit'[p] = own
    BY <1>2 DEF ExitFound
  <2>2. \A q \in Pids : phase'[q] \notin {"live", "describing"}
    BY <2>1
  <2>3. Alone' /\ Hooked' /\ Folder'
    BY <1>2, <2>1, <2>2 DEF ExitFound, Alone, Active, Hooked, Folder
  <2>4. Pending'
    BY <1>2, <2>2 DEF ExitFound, Pending, TeardownPending
  <2>5. Shown'
    BY <1>2, <2>2, LiveNotEnded DEF ExitFound, Shown, Unspoken
  <2>6. Settles'
    BY <1>2, <2>1 DEF ExitFound, Settles, Settling
  <2> QED
    BY <2>3, <2>4, <2>5, <2>6 DEF Parts
<1> QED
  BY <1>1, <1>2 DEF SettleThenFinish

\* The pieces of a start: nothing else is alive until the spawn.
LEMMA StartStepAlone ==
  ASSUME SlotInv, Parts, StartStep, UNCHANGED options
  PROVE  Parts'
<1> USE DEF SlotInv
<1>1. start # "off"
  BY DEF StartStep, ReapsSettled, ProvisionDone, PopulateDone, CreateDone,
     CreateInPlace, CreateBlocked, PrepareDone, LaunchDone
<1>2. /\ ptyProcess = NoProcess /\ \A q \in Pids : ~Active(q)
      /\ phase \in [Pids -> Phases] /\ state \in States
      /\ ~TeardownPending
  BY <1>1 DEF Held, Parts, Alone, Pending, StateType
<1>3. state \notin LiveStates
  BY <1>2 DEF Parts, Shown, Active
<1>4. \A e \in {"user_start", "provision_blocked", "spawn_fail"} :
        After(state, e) \notin LiveStates
  BY <1>2, <1>3, OnlySpawnGoesLive
\* A piece that spawns nothing.
<1>5. ASSUME UNCHANGED <<ptyProcess, phase, teardown>>,
             \/ state' = state
             \/ \E e \in {"user_start", "provision_blocked", "spawn_fail"} :
                  state' = After(state, e),
             start' = "launching" => ~received',
             hooks' => start' = "launching",
             start' = "populating" => worktreeDir' \in disk',
             start' \in {"preparing", "launching"} /\ HasGit /\ ~inPlace' =>
               worktreeDir' \in disk'
      PROVE  Parts'
  <2>1. state' \notin LiveStates
    BY <1>3, <1>4, <1>5
  <2>2. \A q \in Pids : ~Active(q)' /\ phase'[q] \notin {"live", "describing"}
    BY <1>2, <1>5 DEF Active
  <2>3. Alone' /\ Pending' /\ Settles'
    BY <1>2, <1>5, <2>2 DEF Alone, Pending, TeardownPending, Settles, Settling,
       Active
  <2>4. Shown'
    BY <1>5, <2>1, <2>2, LiveNotEnded DEF Shown, Unspoken
  <2>5. Hooked' /\ Folder'
    BY <1>5, <2>2 DEF Hooked, Folder, HasGit
  <2> QED
    BY <2>3, <2>4, <2>5 DEF Parts
<1>6. ASSUME Spawn, ~Superseded, LaunchRest, ~received',
             HasGit /\ ~inPlace => worktreeDir \in disk
      PROVE  Parts'
  <2>1. PICK p \in Pids :
          /\ start' = "off" /\ ptyProcess' = p
          /\ tree' = [tree EXCEPT ![p] = worktreeDir]
          /\ \/ /\ phase' = [phase EXCEPT ![p] = "live"] /\ hooks' = TRUE
                /\ SpawnSucceeds /\ state' = After(state, "spawn_success")
             \/ /\ phase' = [phase EXCEPT ![p] = "dying"] /\ hooks' = FALSE
                /\ state' = After(state, "spawn_fail")
    BY <1>6 DEF Spawn, CleanupHooks
  <2>2. phase'[p] \in {"live", "dying"} /\ \A q \in Pids \ {p} : phase'[q] = phase[q]
    BY <1>2, <2>1
  <2>3. \A q \in Pids \ {p} : phase'[q] \in {"unborn", "gone"}
    BY <1>2, <2>2 DEF Active
  <2>4. Alone' /\ Settles'
    BY <2>1, <2>2, <2>3 DEF Alone, Settles, Settling, Active
  <2>5. Pending'
    BY <1>2, <1>6, <2>1 DEF Pending, TeardownPending, LaunchRest
  <2>6. tree'[p] = worktreeDir
    BY <2>1 DEF StateType
  <2>7. Folder'
    BY <1>6, <2>1, <2>3, <2>6 DEF Folder, HasGit, LaunchRest
  <2>8. CASE /\ phase' = [phase EXCEPT ![p] = "live"] /\ hooks' = TRUE
             /\ SpawnSucceeds /\ state' = After(state, "spawn_success")
    <3>1. state' = STARTING
      BY <2>8 DEF SpawnSucceeds, After, Accepts, Transitions, INITIALIZING,
         STARTING
    <3>2. Shown'
      BY <1>6, <2>1, <2>2, <2>3, <3>1, LiveNotEnded
         DEF Shown, Unspoken, Superseded, Destroyed, LaunchRest
    <3>3. Hooked'
      BY <2>1, <2>8 DEF Hooked
    <3> QED
      BY <2>4, <2>5, <2>7, <3>2, <3>3 DEF Parts
  <2>9. CASE /\ phase' = [phase EXCEPT ![p] = "dying"] /\ hooks' = FALSE
             /\ state' = After(state, "spawn_fail")
    <3>1. \A q \in Pids : phase'[q] \notin {"live", "describing"}
      BY <1>2, <2>3, <2>9
    <3>2. Shown' /\ Hooked'
      BY <1>4, <2>1, <2>9, <3>1, LiveNotEnded DEF Shown, Unspoken, Hooked
    <3> QED
      BY <2>4, <2>5, <2>7, <3>2 DEF Parts
  <2> QED
    BY <2>1, <2>8, <2>9
<1>7. hooks => start = "launching"
  BY <1>1 DEF Parts, Hooked
<1>8. CASE ReapsSettled
  BY <1>5, <1>7, <1>8 DEF ReapsSettled, ProceedFrom, FirstStage
<1>9. CASE ProvisionDone
  <2>1. CASE PopulateDone
    <3>1. worktreeDir' \in disk'
      BY <2>1 DEF PopulateDone, Parts, Folder
    <3> QED
      BY <1>5, <1>7, <2>1, <3>1 DEF PopulateDone, Provisioned
  <2>2. CASE CreateDone
    BY <1>5, <1>7, <2>2 DEF CreateDone, Provisioned
  <2>3. CASE CreateInPlace
    BY <1>5, <1>7, <2>3 DEF CreateInPlace, Provisioned
  <2>4. CASE CreateBlocked
    BY <1>5, <1>7, <2>4 DEF CreateBlocked
  <2> QED
    BY <1>9, <2>1, <2>2, <2>3, <2>4 DEF ProvisionDone
<1>10. CASE PrepareDone
  <2>1. HasGit /\ ~inPlace => worktreeDir \in disk
    BY <1>10 DEF PrepareDone, Parts, Folder
  <2>2. ~hooks
    BY <1>7, <1>10 DEF PrepareDone
  <2> QED
    BY <1>5, <1>6, <1>10, <2>1, <2>2
       DEF PrepareDone, LaunchRest, Abandon, CleanupHooks
<1>11. CASE LaunchDone
  <2>1. HasGit /\ ~inPlace => worktreeDir \in disk
    BY <1>11 DEF LaunchDone, Parts, Folder
  <2>2. ~received'
    BY <1>11 DEF LaunchDone, Parts, Shown, Unspoken
  <2> QED
    BY <1>5, <1>6, <1>11, <2>1, <2>2
       DEF LaunchDone, LaunchRest, Abandon, CleanupHooks
<1> QED
  BY <1>8, <1>9, <1>10, <1>11 DEF StartStep

\* A signal, whoever sends it: the process dies, and its exit is still to come.
LEMMA KillAlone ==
  ASSUME SlotInv, Parts, KillPty,
         UNCHANGED <<start, ptyProcess, received, exitEvent, ownExit, tree,
                     folder, options>>,
         hooks' \in {hooks, FALSE},
         \/ UNCHANGED <<state, endedBy>> /\ teardown' \in {teardown, "destroyed"}
         \/ /\ state \in KillableStates /\ state' = DONE
            /\ \/ teardown' = teardown
               \/ start = "off" /\ teardown' \in {"restart", "finishing"}
  PROVE  Parts'
<1> USE DEF SlotInv
<1>1. \A q \in Pids : phase'[q] # "live"
  BY SignalledHeld DEF KillPty, StateType
<1>2. \A q \in Pids : /\ phase[q] # "live" => phase'[q] = phase[q]
                      /\ phase[q] = "live" => phase'[q] = "dying"
  BY <1>1 DEF KillPty, Signalled, StateType
<1>3. \A q \in Pids : Active(q)' <=> Active(q)
  BY <1>2 DEF Active
<1>4. Alone'
  BY <1>2, <1>3 DEF Parts, Alone
<1>5. state \in KillableStates => ~TeardownPending
  BY LiveNotEnded DEF Parts, Pending
<1>6. Pending'
  BY <1>1, <1>3, <1>5, LiveNotEnded DEF Parts, Pending, TeardownPending
<1>7. Shown'
  BY <1>1, <1>2, LiveNotEnded DEF Parts, Shown, Unspoken
<1>8. Settles'
  BY <1>2, LiveNotEnded DEF Parts, Settles, Settling
<1>9. Hooked'
  <2>1. hooks' => hooks
    BY DEF StateType
  <2> QED
    BY <1>1, <2>1 DEF Parts, Hooked
<1>10. Folder'
  BY <1>1 DEF Parts, Folder, HasGit
<1> QED
  BY <1>10, <1>4, <1>6, <1>7, <1>8, <1>9 DEF Parts

\* A live session moves from one live state to another.
LEMMA MoveAlone ==
  ASSUME SlotInv, Parts, state \in LiveStates, state' \in SettledStates,
         UNCHANGED <<teardown, start, preparing, ptyProcess, hooks, procs,
                     folder, ended, options>>,
         start = "launching" => ~received',
         \A q \in Pids : phase[q] = "describing" => After(state', exitEvent[q]) = FAILED
  PROVE  Parts'
<1>1. Alone' /\ Hooked' /\ Folder'
  BY DEF Parts, Alone, Active, Hooked, Folder, HasGit
<1>2. ~TeardownPending
  BY LiveNotEnded DEF Parts, Pending
<1>3. Pending' /\ Settles'
  BY <1>2, LiveNotEnded DEF Parts, Pending, TeardownPending, Settles, Settling
<1>4. Shown'
  BY LiveNotEnded DEF Parts, Shown, Unspoken, Destroyed
<1> QED
  BY <1>1, <1>3, <1>4 DEF Parts

\* The agent's own steps, a dismissal, and the end of a merge.
LEMMA AgentAlone ==
  ASSUME SlotInv, Parts, AgentStep \/ MergeDone \/ Dismiss, UNCHANGED options
  PROVE  Parts'
<1> USE DEF SlotInv
<1>1. state \in States /\ teardown \in Teardowns
  BY DEF StateType
<1>2. CASE FirstOutput
  <2>1. state = STARTING /\ state' = IDLE
    BY <1>2 DEF FirstOutput, After, Accepts, Transitions, STARTING, IDLE
  <2>2. start = "off" /\ \A q \in Pids : phase[q] # "describing"
    BY <1>2 DEF FirstOutput, Parts, Alone, Active
  <2>3. IDLE \in SettledStates
    BY DEF SettledStates
  <2> QED
    BY <1>2, <2>1, <2>2, <2>3, MoveAlone, LiveNotEnded DEF FirstOutput
<1>3. ASSUME NEW event \in DetectionEvents \cup {"user_dismiss"},
             Accepts(state, event), state' = After(state, event),
             UNCHANGED <<teardown, start, preparing, slot, procs, folder, ended>>
      PROVE  Parts'
  <2>1. state \in SettledStates /\ state' \in SettledStates
    BY <1>1, <1>3, DetectStaysSettled
  <2>2. \A q \in Pids : phase[q] = "describing" => After(state, exitEvent[q]) = FAILED
    BY <2>1, LiveNotEnded DEF Parts, Shown
  <2>3. \A q \in Pids : phase[q] = "describing" => After(state', exitEvent[q]) = FAILED
    BY <2>1, <2>2, SettledFails DEF StateType
  <2>4. start = "launching" => ~received'
    BY <1>3 DEF Parts, Shown, Unspoken
  <2> QED
    BY <1>3, <2>1, <2>3, <2>4, MoveAlone, LiveNotEnded
<1>4. CASE Detect
  BY <1>3, <1>4 DEF Detect
<1>5. CASE Dismiss
  <2>1. Accepts(state, "user_dismiss")
    BY <1>5 DEF Dismiss, DismissibleStates, Accepts, Transitions, WAITING,
       COMPLETE
  <2> QED
    BY <1>3, <1>5, <2>1 DEF Dismiss
<1>6. CASE SocketError
  BY <1>6, KillAlone DEF SocketError
<1>7. CASE MergeDone
  <2>1. /\ start = "off" /\ state \in RestartableStates
        /\ \A q \in Pids : ~Active(q)
    BY <1>7 DEF MergeDone, Parts, Pending, TeardownPending
  <2>2. ptyProcess = NoProcess
    BY <2>1 DEF Parts, Alone, Active, StateType
  <2>3. state' \notin LiveStates
    BY <1>7, <2>1, ResetSleeps, LiveNotEnded DEF MergeDone, Reset
  <2>4. \A q \in Pids : phase'[q] \in {"unborn", "gone"}
    BY <1>7, <2>1 DEF MergeDone, Active
  <2>5. Alone' /\ Pending' /\ Settles' /\ Folder'
    BY <1>7, <2>1, <2>4 DEF MergeDone, Parts, Alone, Active, Pending,
       TeardownPending, Settles, Settling, Folder
  <2>6. Shown' /\ Hooked'
    BY <1>7, <2>1, <2>2, <2>3, <2>4, LiveNotEnded
       DEF MergeDone, Parts, Shown, Unspoken, Hooked
  <2> QED
    BY <2>5, <2>6 DEF Parts
<1> QED
  BY <1>2, <1>4, <1>5, <1>6, <1>7 DEF AgentStep

\* While p has something to do, nothing starts and no other process does.
LEMMA Busy ==
  ASSUME SlotInv, Parts, NEW p \in Pids, Active(p)
  PROVE  /\ start = "off" /\ teardown # "merging"
         /\ \A q \in Pids \ {p} : phase[q] \in {"unborn", "gone"}
         /\ phase[p] \notin {"live", "dying"} => ptyProcess = NoProcess /\ ~hooks
<1>1. start = "off" /\ teardown # "merging"
  BY DEF Parts, Alone, Pending
<1>2. \A q \in Pids \ {p} : phase[q] \in {"unborn", "gone"}
  BY DEF Parts, Alone, Active
<1>3. phase[p] \notin {"live", "dying"} => ptyProcess = NoProcess
  BY <1>2 DEF Parts, Alone, SlotInv, StateType
<1> QED
  BY <1>1, <1>2, <1>3 DEF Parts, Hooked

\* What an exit that moves the session at once hands on: an exit that counts as
\* the agent's own is what ended the session.
LEMMA OnExitFound ==
  ASSUME SlotInv, Parts, NEW p \in Pids, OnExit(p), UNCHANGED options,
         NEW exit \in Exits,
         EndedBy(p, After(state, ExitEvent(state, exit, received)))
  PROVE  LET event == ExitEvent(state, exit, received) IN
         /\ ReapHeld \in [Pids -> Phases]
         /\ ExitFound(p, After(state, event), OwnCleanExit(exit, event), ReapHeld)
<1> DEFINE event == ExitEvent(state, exit, received)
           s == After(state, event)
<1> USE DEF SlotInv
<1>1. /\ state \in States /\ phase \in [Pids -> Phases] /\ received \in BOOLEAN
      /\ Active(p)
  BY DEF StateType, OnExit, Active
<1>2. /\ start = "off" /\ teardown # "merging"
      /\ \A q \in Pids \ {p} : phase[q] \in {"unborn", "gone"}
  BY <1>1, Busy
<1>3. /\ ReapHeld \in [Pids -> Phases]
      /\ \A q \in Pids \ {p} : ReapHeld[q] \in {"unborn", "gone"}
  BY <1>1, <1>2, SignalledType DEF ReapHeld, Signalled
<1>4. s \in States \ LiveStates
  BY <1>1, AfterType, ExitEndsLiveState DEF Exits, Parts, Shown, Unspoken
<1>5. event \in {"process_exit", "process_exit_ok", "process_exit_fail"}
  BY DEF ExitEvent
<1>6. TeardownPending => s \in RestartableStates
  BY <1>5, EndedStaysEnded DEF Parts, Pending
<1>7. ASSUME OwnCleanExit(exit, event), s = DONE PROVE endedBy' # Operator
  <2>1. state # DONE
    BY <1>7 DEF OwnCleanExit, Accepts, Transitions, DONE
  <2> QED
    BY <1>7, <2>1 DEF EndedBy
<1>8. ~hooks' /\ UNCHANGED <<options, received>>
  BY DEF OnExit, CleanupHooks
<1> HIDE DEF s, event
<1>9. ExitFound(p, s, OwnCleanExit(exit, event), ReapHeld)
  BY <1>2, <1>3, <1>4, <1>6, <1>7, <1>8 DEF ExitFound
<1> QED
  BY <1>3, <1>9 DEF s, event

\* An exit: whatever the session holds goes with it.
LEMMA OnExitAlone ==
  ASSUME SlotInv, Parts, NEW p \in Pids, OnExit(p), UNCHANGED options
  PROVE  Parts'
<1> USE DEF SlotInv
<1>1. /\ phase \in [Pids -> Phases] /\ Active(p)
      /\ teardown \in Teardowns /\ ownExit \in [Pids -> BOOLEAN]
  BY DEF StateType, OnExit, Active
<1>2. /\ start = "off" /\ teardown # "merging"
      /\ \A q \in Pids \ {p} : phase[q] \in {"unborn", "gone"}
  BY <1>1, Busy
<1>3. PICK exit \in Exits :
        LET event == ExitEvent(state, exit, received) IN
        \/ /\ Remote /\ HeadedForFailure(state, event)
           /\ ptyProcess' = NoProcess
           /\ phase' = [ReapHeld EXCEPT ![p] = "describing"]
           /\ exitEvent' = [exitEvent EXCEPT ![p] = event]
           /\ UNCHANGED <<state, teardown, start, preparing, ownExit, ended>>
        \/ /\ EndedBy(p, After(state, event))
           /\ SettleThenFinish(p, After(state, event),
                               OwnCleanExit(exit, event), NoProcess, ReapHeld)
  BY DEF OnExit
<1> DEFINE event == ExitEvent(state, exit, received)
<1>4. CASE /\ EndedBy(p, After(state, event))
           /\ SettleThenFinish(p, After(state, event),
                               OwnCleanExit(exit, event), NoProcess, ReapHeld)
  BY <1>1, <1>4, OnExitFound, SettleThenFinishAlone
<1>5. CASE /\ HeadedForFailure(state, event)
           /\ ptyProcess' = NoProcess
           /\ phase' = [ReapHeld EXCEPT ![p] = "describing"]
           /\ exitEvent' = [exitEvent EXCEPT ![p] = event]
           /\ UNCHANGED <<state, teardown, start, preparing, ownExit, ended>>
  <2>1. /\ ReapHeld \in [Pids -> Phases]
        /\ \A q \in Pids \ {p} : ReapHeld[q] \in {"unborn", "gone"}
    BY <1>1, <1>2, SignalledType DEF ReapHeld, Signalled
  <2>2. /\ phase'[p] = "describing" /\ exitEvent'[p] = event
        /\ \A q \in Pids \ {p} : phase'[q] \in {"unborn", "gone"}
    BY <1>5, <2>1 DEF StateType
  <2>3. ~hooks' /\ UNCHANGED <<received, worktreeDir, disk, inPlace>>
    BY DEF OnExit, CleanupHooks
  <2>4. After(state, event) = FAILED
    BY <1>5 DEF HeadedForFailure
  <2> HIDE DEF event
  <2>5. Alone'
    BY <1>2, <1>5, <2>2 DEF Alone, Active
  <2>6. Pending'
    BY <1>2, <1>5, <2>2 DEF Parts, Pending, TeardownPending
  <2>7. Shown'
    BY <1>2, <1>5, <2>2, <2>3, <2>4 DEF Parts, Shown, Unspoken
  <2>8. Settles' /\ Hooked' /\ Folder'
    BY <1>2, <1>5, <2>2, <2>3 DEF Settles, Settling, Hooked, Folder, HasGit
  <2> QED
    BY <2>5, <2>6, <2>7, <2>8 DEF Parts
<1> QED
  BY <1>3, <1>4, <1>5

\* What the later pieces of an exit hand on.
LEMMA ExitStepFound ==
  ASSUME SlotInv, Parts, NEW p \in Pids, UNCHANGED <<options, hooks, received>>,
         phase[p] \in {"describing", "probing", "releasing", "removing",
                       "clearing"}
  PROVE  /\ ptyProcess = NoProcess
         /\ phase[p] = "describing" =>
              ExitFound(p, After(state, exitEvent[p]), FALSE, phase)
         /\ phase[p] # "describing" /\ UNCHANGED endedBy =>
              ExitFound(p, state, ownExit[p], phase)
<1> USE DEF SlotInv
<1>1. Active(p) /\ state \in States
  BY DEF Active, StateType
<1>2. /\ start = "off" /\ teardown # "merging"
      /\ \A q \in Pids \ {p} : phase[q] \in {"unborn", "gone"}
      /\ ptyProcess = NoProcess /\ ~hooks
  BY <1>1, Busy
<1>3. ASSUME phase[p] = "describing"
      PROVE  ExitFound(p, After(state, exitEvent[p]), FALSE, phase)
  <2>1. exitEvent[p] \in {"none", "process_exit", "process_exit_fail"}
    BY DEF StateType
  <2>2. After(state, exitEvent[p]) \in States \ LiveStates
    <3>1. CASE state \in LiveStates
      BY <1>3, <3>1, LiveNotEnded DEF Parts, Shown
    <3>2. CASE state \notin LiveStates
      BY <1>1, <2>1, <3>2, AfterType, OnlySpawnGoesLive
    <3> QED
      BY <3>1, <3>2
  <2>3. TeardownPending => After(state, exitEvent[p]) \in RestartableStates
    BY <2>1, EndedStaysEnded DEF Parts, Pending
  <2> QED
    BY <1>2, <2>2, <2>3 DEF ExitFound
<1>4. ASSUME phase[p] # "describing", UNCHANGED endedBy
      PROVE  ExitFound(p, state, ownExit[p], phase)
  <2>1. /\ state \in RestartableStates
        /\ ownExit[p] /\ state = DONE => endedBy # Operator
    BY <1>4 DEF Parts, Settles, Settling
  <2>2. state \in States \ LiveStates
    BY <2>1, LiveNotEnded
  <2> QED
    BY <1>2, <1>4, <2>1, <2>2 DEF ExitFound
<1> QED
  BY <1>2, <1>3, <1>4

LEMMA ExitStepAlone ==
  ASSUME SlotInv, Parts, NEW p \in Pids, ExitStep(p), UNCHANGED options
  PROVE  Parts'
<1> USE DEF SlotInv
<1>1. /\ phase \in [Pids -> Phases] /\ teardown \in Teardowns
      /\ ownExit \in [Pids -> BOOLEAN]
  BY DEF StateType
<1>2. phase[p] \in {"describing", "probing", "releasing", "removing", "clearing"}
  BY DEF ExitStep, DescribeDone, ProbeDone, ReleaseDone, RemoveDone, ClearDone
<1>3. UNCHANGED <<hooks, received>>
  BY DEF ExitStep, DescribeDone, ProbeDone, ReleaseDone, RemoveDone, ClearDone,
     ExitRest
<1>4. ptyProcess = NoProcess
  BY <1>2, <1>3, ExitStepFound
<1>5. /\ start = "off" /\ teardown # "merging" /\ ~hooks
      /\ \A q \in Pids \ {p} : phase[q] \in {"unborn", "gone"}
  BY <1>2, Busy DEF Active
<1>6. CASE DescribeDone(p)
  BY <1>1, <1>2, <1>3, <1>4, <1>6, ExitStepFound, SettleThenFinishAlone
     DEF DescribeDone
<1>7. CASE /\ phase[p] # "describing" /\ UNCHANGED endedBy
           /\ FinishExit(p, state, ownExit[p], ptyProcess, phase)
  BY <1>1, <1>2, <1>3, <1>4, <1>7, ExitStepFound, FinishExitAlone
<1>8. CASE /\ Settling(p)
           /\ \E ph \in {"releasing", "removing", "clearing"} :
                phase' = [phase EXCEPT ![p] = ph]
           /\ UNCHANGED <<state, teardown, start, ptyProcess, ownExit, endedBy>>
  <2>1. /\ phase'[p] \in {"releasing", "removing", "clearing"}
        /\ \A q \in Pids \ {p} : phase'[q] \in {"unborn", "gone"}
    BY <1>1, <1>5, <1>8
  <2>2. Alone' /\ Hooked' /\ Folder'
    BY <1>3, <1>4, <1>5, <1>8, <2>1 DEF Alone, Active, Hooked, Folder
  <2>3. Pending'
    BY <1>5, <1>8, <2>1 DEF Parts, Pending, TeardownPending
  <2>4. state \notin LiveStates
    BY <1>8, LiveNotEnded DEF Parts, Settles
  <2>5. Shown'
    BY <1>3, <1>5, <1>8, <2>1, <2>4, LiveNotEnded DEF Shown, Unspoken
  <2>6. Settles'
    BY <1>8, <2>1 DEF Parts, Settles, Settling
  <2> QED
    BY <2>2, <2>3, <2>5, <2>6 DEF Parts
<1> QED
  BY <1>6, <1>7, <1>8 DEF ExitStep, ProbeDone, ReleaseDone, RemoveDone,
     ClearDone, Settling

\* The operator's requests, each of which finds the session settled, and the
\* kill and the removal, which need not.
LEMMA OperatorAlone ==
  ASSUME SlotInv, Parts, Patient, OperatorStep, UNCHANGED options
  PROVE  Parts'
<1> USE DEF SlotInv
<1>1. /\ state \in States /\ phase \in [Pids -> Phases]
      /\ teardown \in Teardowns /\ StateType
  BY DEF StateType
<1>2. ASSUME Quiet, state \notin LiveStates
      PROVE  /\ start = "off" /\ ptyProcess = NoProcess /\ ~hooks
             /\ \A q \in Pids : phase[q] \in {"unborn", "gone"}
  BY <1>1, <1>2, QuietIsEmpty DEF Active
<1>3. ASSUME NEW s \in States \ LiveStates, state \notin LiveStates, Quiet,
             ~Destroyed, ~TeardownPending, StartIn(s, ptyProcess, phase),
             UNCHANGED <<teardown, hooks>>
      PROVE  Parts'
  <2>1. teardown' = "none"
    BY <1>1, <1>3 DEF Destroyed, TeardownPending, Teardowns
  <2> QED
    BY <1>1, <1>2, <1>3, <2>1, StartInAlone
<1>4. CASE Start
  <2>1. DORMANT \in States \ LiveStates /\ ~TeardownPending
    BY <1>4, LiveNotEnded DEF Start, Parts, Pending
  <2> QED
    BY <1>3, <1>4, <2>1 DEF Start, Request
<1>5. CASE Restart
  <2>1. state \notin LiveStates /\ After(state, "user_restart") \in States \ LiveStates
    BY <1>5, RestartInitializes, LiveNotEnded DEF Restart
  <2> QED
    BY <1>3, <1>5, <2>1 DEF Restart, Request, OperatorRest
<1>6. CASE FinishAndMerge /\ MergeIn(state, ptyProcess, phase)
            /\ state \in RestartableStates
  <2>1. state \notin LiveStates
    BY <1>6, LiveNotEnded
  <2> QED
    BY <1>1, <1>2, <1>6, <2>1, MergeInAlone
       DEF FinishAndMerge, Request, OperatorRest
<1>7. CASE FinishAndMerge /\ teardown' = "finishing" /\ KillAndEnd
             /\ state \in {COMPLETE, IDLE}
  <2>1. state \in KillableStates /\ start = "off"
    BY <1>7 DEF KillableStates, SettledStates, FinishAndMerge, Request, Quiet
  <2> QED
    BY <1>7, <2>1, KillEnds, KillAlone DEF FinishAndMerge, KillAndEnd, OperatorRest
<1>8. CASE ForceRestart
  <2>1. start = "off"
    BY <1>8 DEF ForceRestart, Request, Quiet
  <2> QED
    BY <1>8, <2>1, KillEnds, KillAlone DEF ForceRestart, KillAndEnd, OperatorRest
<1>9. CASE KillSession
  BY <1>9, KillEnds, KillAlone DEF KillSession, KillAndEnd, OperatorRest
<1>10. CASE Destroy
  BY <1>10, KillAlone DEF Destroy, CleanupHooks
<1>11. CASE Dismiss
  BY <1>11, AgentAlone
<1> QED
  BY <1>4, <1>5, <1>6, <1>7, <1>8, <1>9, <1>10, <1>11
     DEF OperatorStep, FinishAndMerge

PatientInv == SlotInv /\ (Patient => Parts)

LEMMA PatientInvInit == Init => PatientInv
<1> SUFFICES ASSUME Init PROVE PatientInv
  OBVIOUS
<1>1. SlotInv
  BY TypeCorrectInit DEF SlotInv, Held, Init
<1>2. Alone /\ Pending /\ Settles /\ Hooked /\ Folder
  BY DEF Init, Alone, Active, Pending, TeardownPending, Settles, Settling,
     Hooked, Folder
<1>3. Shown
  BY DEF Init, Shown, Unspoken, LiveStates, SettledStates, DORMANT, STARTING,
     RUNNING, WAITING, IDLE, COMPLETE
<1> QED
  BY <1>1, <1>2, <1>3 DEF PatientInv, Parts

LEMMA PatientInvStep == PatientInv /\ [Next]_vars => PatientInv'
<1> SUFFICES ASSUME PatientInv, [Next]_vars PROVE PatientInv'
  OBVIOUS
<1>1. SlotInv'
  BY HeldStep, TypeCorrectStep DEF PatientInv, SlotInv
<1>2. UNCHANGED options /\ Patient' = Patient
  BY DEF Next, vars, Patient
<1>3. ASSUME Patient, UNCHANGED vars PROVE Parts'
  BY <1>3 DEF PatientInv, vars, Parts, Alone, Active, Pending, TeardownPending,
     Shown, Unspoken, Destroyed, Settles, Settling, Hooked, Folder, HasGit
<1>4. ASSUME Patient, Next PROVE Parts'
  BY <1>2, <1>4, StartStepAlone, AgentAlone, OnExitAlone, ExitStepAlone,
     OperatorAlone DEF Next, PatientInv
<1> QED
  BY <1>1, <1>2, <1>3, <1>4 DEF PatientInv

\* The agent of a patient operator never works in a folder that is gone: the
\* worktree its provision made or kept outlives it, whatever exit is still
\* being settled when the start begins, whoever kills it.
THEOREM WorktreeOutlivesAgent == Spec => []PatientOwnsWorktree
<1>1. PatientInv => PatientOwnsWorktree
  BY DEF PatientInv, Parts, Folder, PatientOwnsWorktree, OwnWorktree
<1> QED
  BY <1>1, PatientInvInit, PatientInvStep, PTL DEF Spec

\* The hook router knows a patient operator's session exactly while it may hear
\* from it: from before the spawn to the exit, the kill or the failed launch.
THEOREM HooksFollow == Spec => []HooksFollowProcess
<1>1. PatientInv => HooksFollowProcess
  BY DEF PatientInv, Parts, Hooked, HooksFollowProcess
<1> QED
  BY <1>1, PatientInvInit, PatientInvStep, PTL DEF Spec

\* What the state tells is so of a patient operator's session as well when the
\* exit is described over the network before the state moves.
THEOREM PatientStateTellsProcess == Spec => [](Patient => StateTellsProcess)
<1>1. PatientInv => (Patient => StateTellsProcess)
  BY LiveNotEnded DEF PatientInv, Parts, Shown, StateTellsProcess,
     RestartableStates, LiveStates, KillableStates
<1> QED
  BY <1>1, PatientInvInit, PatientInvStep, PTL DEF Spec

\* The exit of an older process never ends a patient operator's session under
\* the agent that replaced it.
THEOREM OldExitsAreOver == Spec => OldExitNeverEndsNew
<1>1. ASSUME PatientInv, [Next]_vars
      PROVE  [Patient => \A p \in Pids : endedBy # p /\ endedBy' = p =>
                \A q \in Pids \ {p} : phase[q] # "live"]_vars
  <2> SUFFICES ASSUME Patient, NEW p \in Pids, endedBy # p, endedBy' = p
               PROVE  \A q \in Pids \ {p} : phase[q] # "live"
    OBVIOUS
  <2>1. OnExit(p) \/ DescribeDone(p)
    <3>1. CASE StartStep
      BY <3>1 DEF StartStep, ReapsSettled, ProvisionDone, PopulateDone,
         CreateDone, CreateInPlace, CreateBlocked, Provisioned, PrepareDone,
         LaunchDone, LaunchRest
    <3>2. CASE AgentStep \/ MergeDone
      BY <3>2 DEF AgentStep, FirstOutput, Detect, SocketError, MergeDone
    <3>3. CASE OperatorStep
      BY <3>3 DEF OperatorStep, Start, Dismiss, KillSession, Restart,
         ForceRestart, FinishAndMerge, Destroy, KillAndEnd
    <3>4. ASSUME NEW q \in Pids, OnExit(q) \/ ExitStep(q)
          PROVE  OnExit(p) \/ DescribeDone(p)
      <4>1. CASE OnExit(q)
        <5>1. endedBy' \in {q, endedBy}
          BY <4>1 DEF OnExit, EndedBy
        <5> QED
          BY <4>1, <5>1
      <4>2. CASE DescribeDone(q)
        BY <4>2 DEF DescribeDone, EndedBy
      <4> QED
        BY <3>4, <4>1, <4>2 DEF ExitStep, ProbeDone, ReleaseDone, RemoveDone,
           ClearDone
    <3> QED
      BY <1>1, <3>1, <3>2, <3>3, <3>4 DEF Next, vars
  <2>2. Active(p)
    BY <2>1 DEF OnExit, DescribeDone, Active
  <2> QED
    BY <1>1, <2>2, Busy DEF PatientInv
<1> QED
  BY <1>1, PatientInvInit, PatientInvStep, PTL DEF Spec, OldExitNeverEndsNew

\* Only a process that ended by itself closes a patient operator's session: an
\* exit that a kill, a restart or a finish brought about never does.
THEOREM AgentsOwnExitCloses == Spec => PatientClosesOnlyOnOwnExit
<1>1. ASSUME PatientInv, [Next]_vars
      PROVE  [Patient /\ ~closed /\ closed' => endedBy' # Operator]_vars
  <2> SUFFICES ASSUME Patient, ~closed, closed' PROVE endedBy' # Operator
    OBVIOUS
  <2>1. SlotInv /\ Parts
    BY <1>1 DEF PatientInv
  <2>2. ASSUME NEW p, NEW s, NEW own, NEW pty, NEW ph,
               \/ FinishExit(p, s, own, pty, ph)
               \/ SettleThenFinish(p, s, own, pty, ph)
        PROVE  own /\ s = DONE
    BY <2>2 DEF FinishExit, SettleThenFinish
  <2>3. ASSUME NEW p \in Pids, OnExit(p), UNCHANGED options
        PROVE  endedBy' # Operator
    <3>1. PICK exit \in Exits :
            LET event == ExitEvent(state, exit, received) IN
            /\ EndedBy(p, After(state, event))
            /\ SettleThenFinish(p, After(state, event),
                                OwnCleanExit(exit, event), NoProcess, ReapHeld)
      BY <2>3 DEF OnExit
    <3> QED
      BY <2>1, <2>2, <2>3, <3>1, OnExitFound DEF ExitFound
  <2>4. ASSUME NEW p \in Pids, ExitStep(p), UNCHANGED options
        PROVE  endedBy' # Operator
    <3>1. /\ FinishExit(p, state, ownExit[p], ptyProcess, phase)
          /\ phase[p] \in {"probing", "releasing", "clearing"}
          /\ UNCHANGED <<endedBy, hooks, received>>
      BY <2>2, <2>4 DEF ExitStep, DescribeDone, ProbeDone, ReleaseDone,
         RemoveDone, ClearDone, ExitRest
    <3> QED
      BY <2>1, <2>2, <2>4, <3>1, ExitStepFound DEF ExitFound
  <2>5. closed' = closed \/ \E p \in Pids : OnExit(p) \/ ExitStep(p)
    BY <1>1 DEF Next, vars, StartStep, ReapsSettled, ProvisionDone,
       PopulateDone, CreateDone, CreateInPlace, CreateBlocked, Provisioned,
       PrepareDone, LaunchDone, LaunchRest, AgentStep, FirstOutput, Detect,
       SocketError, MergeDone, OperatorStep, Start, Dismiss, KillSession,
       Restart, ForceRestart, FinishAndMerge, Destroy, OperatorRest
  <2>6. UNCHANGED options
    BY <1>1 DEF Next, vars
  <2> QED
    BY <2>3, <2>4, <2>5, <2>6
<1> QED
  BY <1>1, PatientInvInit, PatientInvStep, PTL
     DEF Spec, PatientClosesOnlyOnOwnExit
=============================================================================
