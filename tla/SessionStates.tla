--------------------------- MODULE SessionStates ---------------------------
(* The states of a session and the table of its transitions                *)
(* (src/shared/states.ts, src/session/core/state-machine.ts).  The table   *)
(* is data, as in the code: Transitions[s] is a record whose fields are    *)
(* the events legal in s.  SessionLifecycle applies the guards, which read *)
(* the session.                                                            *)

DORMANT      == "DORMANT"
INITIALIZING == "INITIALIZING"
STARTING     == "STARTING"
RUNNING      == "RUNNING"
WAITING      == "WAITING"
IDLE         == "IDLE"
COMPLETE     == "COMPLETE"
DONE         == "DONE"
FAILED       == "FAILED"

States == {DORMANT, INITIALIZING, STARTING, RUNNING, WAITING, IDLE, COMPLETE,
           DONE, FAILED}

\* The agent's process is up and has spoken.
SettledStates == {RUNNING, WAITING, IDLE, COMPLETE}

\* The states that tell the operator of a running agent.
LiveStates == {STARTING} \cup SettledStates

KillableStates    == {INITIALIZING, STARTING} \cup SettledStates
RestartableStates == {DONE, FAILED}

\* The states an operator's dismissal moves on.
DismissibleStates == {WAITING, COMPLETE}

Transitions ==
  [ DORMANT      |-> [user_start |-> INITIALIZING],
    INITIALIZING |-> [spawn_success |-> STARTING, spawn_fail |-> FAILED,
                      provision_blocked |-> DORMANT, user_kill |-> DONE],
    STARTING     |-> [first_output |-> IDLE, process_exit |-> FAILED,
                      user_kill |-> DONE],
    RUNNING      |-> [compaction_restore_idle |-> IDLE,
                      compaction_restore_complete |-> COMPLETE,
                      compaction_restore_waiting |-> WAITING,
                      prompt_detected |-> WAITING, task_complete |-> COMPLETE,
                      process_exit_ok |-> DONE, process_exit_fail |-> FAILED,
                      user_kill |-> DONE],
    WAITING      |-> [new_output |-> RUNNING, user_input |-> RUNNING,
                      user_dismiss |-> RUNNING, task_complete |-> COMPLETE,
                      user_kill |-> DONE, process_exit_ok |-> DONE,
                      process_exit_fail |-> FAILED],
    IDLE         |-> [new_output |-> RUNNING, prompt_detected |-> WAITING,
                      task_complete |-> COMPLETE, process_exit_ok |-> DONE,
                      process_exit_fail |-> FAILED, user_kill |-> DONE],
    COMPLETE     |-> [new_output |-> RUNNING, user_dismiss |-> IDLE,
                      prompt_detected |-> WAITING, process_exit_ok |-> DONE,
                      process_exit_fail |-> FAILED, user_kill |-> DONE],
    DONE         |-> [user_restart |-> INITIALIZING, user_reset |-> DORMANT],
    FAILED       |-> [user_restart |-> INITIALIZING, user_reset |-> DORMANT,
                      process_exit_ok |-> FAILED,
                      process_exit_fail |-> FAILED] ]

Accepts(s, event) == event \in DOMAIN Transitions[s]

\* Mutant: an event the table does not list is applied like any other.
AfterUnchecked(s, event) ==
  IF Accepts(s, event) THEN Transitions[s][event] ELSE "undefined"

\* transition(event): an event the table does not list leaves the state alone.
After(s, event) == IF Accepts(s, event) THEN Transitions[s][event] ELSE s

\* What detection may ask of a running session: the events of mapSignalToEvent
\* and of the end of a compaction.
DetectionEvents ==
  {"new_output", "user_input", "prompt_detected", "task_complete",
   "compaction_restore_idle", "compaction_restore_complete",
   "compaction_restore_waiting"}

(* decideExitTransition: the event a process's end raises, from the state   *)
(* it finds, how the process ended and whether it ever spoke.  A signalled  *)
(* process reports exit code 0, so it takes the "ok" event.                 *)
ExitEvent(s, exit, spoke) ==
  IF s = STARTING /\ (~spoke \/ exit = "failed") THEN "process_exit"
  ELSE IF exit = "failed" THEN "process_exit_fail"
  ELSE "process_exit_ok"

\* _isExitHeadedForFailure: this event would newly fail the session.
HeadedForFailure(s, event) ==
  s # FAILED /\ Accepts(s, event) /\ After(s, event) = FAILED
=============================================================================
