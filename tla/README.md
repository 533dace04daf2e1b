# A formal model of Glimmervoid

Glimmervoid is a Node server that runs coding agents as processes in
pseudo-terminals, each in its own git worktree, and tells the operator which of
them needs attention. This directory holds TLA+ models of the parts of it whose
correctness depends on the order of events, TLC configurations that check them,
and proofs that TLAPS checks.

    tlc -workers 2 -config Lifecycle.cfg MCSessionLifecycle.tla
    tlapm SessionLifecycleProofs.tla

`PROJECT.json` lists the runs, the source lines each definition models, the
hazards of the code and the properties that watch them, and for each property a
change of the model, of the kind a bug in the code would make, that breaks it.

## 1. The system

One Node process holds everything. It runs one callback at a time, so the units
that interleave are the pieces of code between two `await`s, timers, and the
events of child processes and sockets.

| Part | Source | State it keeps | Operations | Hard because of |
|---|---|---|---|---|
| Session lifecycle | `session/sessions.ts`, `session/core/state-machine.ts`, `session-teardown.ts`, `exit-transition.ts` | state, pending teardown, the process in the terminal, the start in flight | start, kill, restart, finish and merge, dismiss, destroy, the process's first output, exit and socket error | every start and every exit is a chain of awaits and the operator may act between any two |
| Process reaper | `session/session-process-reaper.ts` | trees being killed | kill, reap, wait for pending reaps | the wait is bounded: a start may go on while the old process dies |
| Hook registration | `session/session-hook-lifecycle.ts` | the session's entry in the hook router | prepare, register, clean up | registered early in a start, released by the exit and by each failure of the start |
| Worktree | `session/session-worktree-lifecycle.ts`, `session/worktree/`, `server/git/git-workspace.ts` | worktree directory, merge status, the project's git queue | provision, settle on exit, discard, merge, rebase, sync | decisions taken before a queue is entered are used when the turn comes |
| Status detection | `detection/`, `session/core/status-mapper.ts` | last signal, a ready on hold | hooks and terminal titles in, status out | two sources disagree and arrive late |
| Background gate | `session/session-background-tracking.ts`, `session/core/agent-tracker.ts` | running sub-agents, a held ready, quiet period | agent start and stop, release, compaction | a held signal is released into a later turn |
| Notification manager | `notifications/notification-manager.ts` | one entry per session, two timers each | state change, acknowledge, escalate | timers race acknowledgements |
| Telegram outbox | `notifications/telegram-outbox.ts`, `notifications/core/outbox-core.ts` | queue in memory and on disk, pings in flight, retry timer | deliver, replay, retry, count failures | crashes between save and send, a retry against a delivery |
| Serial queues, spawn gate | `server/spawn-gate.ts`, `server/json-file.ts`, `server/agent-api/agent-spawn.ts` | chain of promises, reservations of memory, held starts, budgets of parents | run, wait for headroom, spawn, atomic write | memory is read before a session has taken it; who waits may no longer be wanted |
| Lane runner | `server/lanes/lane-runner.ts`, `shared/backoff.ts` | tick phase, back-off, retry timer; the poller of a lane and the jobs that replace it | tick, refresh, stop; start, configuration saved, stop | a tick during a tick, a stop during an await, a change of the settings while a poller stops |
| Community lane | `server/community/` | questions with their status, research runs, the state file | accept, tick, judge, research, set aside, re-run | the tick of a poller that was replaced goes on; the watcher forgets what it was told is saved |
| Terminal data sockets | `server/ws-sender.ts`, `session/core/output-ring.ts`, `server/backend/backend-websockets.ts` | the ring of a session's output; offset, buffer and mode of a socket | output, flush, refill, pause, resume, resize, stall | chunks are dropped, replayed and evicted while the grid changes |
| Control protocol, dashboard, GitHub lanes, usage, configuration, updates, cloud | `server/`, `public/`, `cloud/` | mostly projections of the above | requests, polls, reports | not modelled: see the end |

Who calls whom: the control protocol turns operator requests into calls of a
session. A session calls its worktree lifecycle and the git engine and awaits
them, calls the reaper without waiting, and receives the callbacks of its
terminal. Hooks and titles go to the status source, whose signals become
transitions of the session, or are held by the background gate. A session's
transitions are events that the notification manager listens to; it sends
through channels, one of which is the outbox. `exit` events with
`exitedOnItsOwn` make the server remove the session.

What makes each part correct:

* A session tracks every process it spawned; the state it shows agrees with the
  process; an old exit does not touch a new process; a worktree is not removed
  under an agent; a request that was accepted is carried out; an exit counts as
  the agent's own only if nobody else ended the session.
* A status shown to the operator is the last one the agent reported, once it has
  been quiet for the window.
* A turn that ends while agents or shells still run is shown as complete when
  they have gone, and only then.
* A notification that was shown is repeated or escalated until it is seen, and
  an alert makes one message on the phone, about what the session asks for now.
* A ping that was saved is sent or settled, by this life of the server or by a
  later one, and once in each life.
* At most one poller and one tick of a lane run; a stopped lane starts nothing.
* A question the watcher was told is saved is researched once.
* A terminal shows the output of its session without a gap or a repeat.
* A start is let through only when there is memory for it.
* Work in a worktree is removed only when it has landed or was discarded.

## 2. The plan

| Module | Composes | Status |
|---|---|---|
| `SessionStates` | - | checked as part of the next, proved |
| `SessionLifecycle` | `SessionStates` | checked, its safety proved |
| `TelegramOutbox` | - | checked, every safety property proved |
| `TurnReport` | - | what the session may rely on when it is told a status |
| `StatusSource` | implements `TurnReport` | checked, its safety proved, the refinement included |
| `BackgroundGate` | - | checked, its safety proved |
| `NotificationManager` | - | checked, its safety proved |
| `TickLoop` | - | checked, its safety proved |
| `LaneRunner` | - | checked, its safety proved |
| `CommunityLane` | - | checked, its safety proved |
| `DataSocket` | - | checked, its safety proved |
| `SpawnGate` | - | checked, its safety proved |
| `WorktreeMerge` | - | checked, its safety proved |
| `Compaction` | `SessionStates` | next: the state an idle conversation returns to |
| `ApprovalHolds` | - | permission requests held for the operator, texts queued for a prompt |
| `ControlReplay` | - | the control frames replayed after a reconnect |
| `SessionDetection` | `StatusSource`, `BackgroundGate`, `SessionStates` | the status mapper between them |

Every safety property of a run is a theorem now (section 13). Of those planned next,
`Compaction` and `SessionDetection` are to state what they promise the session as
`TurnReport` does, so that a proof may use the promise and not the module.

The theorems are in eight modules: `SessionLifecycleProofs`, `TurnProofs` (of
`StatusSource` and `BackgroundGate`), `NotificationProofs` (of `NotificationManager`
and `TelegramOutbox`), `LaneProofs` (of `TickLoop` and `CommunityLane`),
`LaneRunnerProofs`, `DataSocketProofs`, `SpawnGateProofs` and `WorktreeMergeProofs`.
Two models that share a proof module share no names, which is why
`BackgroundGate`, `NotificationManager` and `CommunityLane` call their parts
`GateInit`, `NotifyNext`, `CommunitySpec` and the like.

The modules that run in the same process but share no state are checked apart.
Where one needs what another does, it has an action for it: `SessionLifecycle`
takes any event that detection may report, `WorktreeMerge` the exit of an agent,
`SpawnGate` the exit of a session that was let through.

### The runs

| Run | Instance | States |
|---|---|---|
| `lifecycle` | 3 processes, 2 worktrees, 3 requests; three kinds of session with a patient operator and one with an impatient one; fairness | 398,000 |
| `lifecycle_worktree_lost` | an impatient operator, 2 processes, 2 worktrees, 2 requests: violated, see section 14 | - |
| `outbox` | 2 pings, room for 1, 3 attempts, 2 restarts, a disk of any speed; fairness | 182,000 |
| `status` | windows of 3 and 2 ticks of 250 ms, questions up to 3 ticks old, inputs in 6 ticks of 10; fairness | 32,900 |
| `background` | an agent and a shell, lives of 3 ticks, 2 ticks of delivery and of quiet, 5 signals, Stops with a list and without; fairness | 190,000 |
| `notify` | a session, 2 alerts, delays of 2 and 3 ticks, inputs up to tick 4 of 8, Telegram on or off; fairness | 471,000 |
| `tick` | 3 kinds of lane, 3 quick retries, 2 refreshes, 5 failures; fairness | 7,420 |
| `runner` | 3 configurations, one of which closes the gate, 4 pollers, 4 requests; fairness | 5,290 |
| `community` | a forum question and one that is judged, 1 run at a time, 2 pollers, 2 events; fairness | 562,000 |
| `data` | a ring of 3 chunks, a send buffer of 2, 5 chunks of output, 2 resizes, frames of 1; fairness | 295,000 |
| `gate` | a resume, 3 spawns of one parent (1 at a time, 2 in its life), room for 2 sessions; fairness | 42,700 |
| `merge` | 3 requests, 2 edits, 1 worktree check; fairness | 36,800 |

Deadlock is checked for `data` and `background`, where something can always
happen. Elsewhere the system may stop: a destroyed session, a lane that was
stopped, bounds that are used up.

## 3. The session: `SessionStates`, `SessionLifecycle`

`SessionStates` is the table of `state-machine.ts` as data, with
`After(s, event)` for `transition(event)` and `ExitEvent` for
`decideExitTransition`.

`SessionLifecycle` is one session.

| Variable | In the code |
|---|---|
| `state` | `session.state` |
| `teardown` | `_teardown.kind`; `finish-pending` is `finishing` while it awaits the exit and `merging` after |
| `start`, `preparing` | where the memoised `start()` awaits, and the state it compares with (`isStartSuperseded`) |
| `ptyProcess`, `ptyAlive`, `received`, `hooks` | `ptyProcess`, `_ptyAlive`, `_receivedFirstOutput`, registration with the hook router |
| `phase` | each process (`unborn`, `live`, `dying`), then the awaits of its exit handler (`describing`, `probing`, `releasing`, `removing`, `clearing`), then `gone` |
| `exitEvent`, `ownExit` | locals of `_handlePtyExit` that live across its awaits |
| `worktreeDir`, `disk`, `used`, `inPlace` | the lifecycle's `worktreeDir`, the worktrees that exist, all that ever did, whether the last provision fell back to the checkout |
| `tree` | the working directory each process was spawned in |
| `endedBy`, `closed` | history: who last moved the session to an end, whether an exit was emitted as the agent's own |
| `requests` | bound on the operator's requests |

Actions: `Start`, `ReapsSettled`, `PopulateDone`/`CreateDone`/`CreateInPlace`/
`CreateBlocked`, `PrepareDone`, `LaunchDone` are `_startBody` cut at its awaits.
`OnExit`, `DescribeDone`, `ProbeDone`, `ReleaseDone`, `RemoveDone`, `ClearDone`
are `_handlePtyExit` and `settleOnExit`. `FirstOutput`, `Detect`, `SocketError`,
`Dismiss` are the terminal's and detection's callbacks. `KillSession`,
`Restart`, `ForceRestart`, `FinishAndMerge`, `MergeDone`, `Destroy` are the
operator's. Each is the whole handler up to the next await.

What is abstracted:

* The git queue: a provision or a merge waits for every removal that has
  entered the queue. Git either does what it was asked or fails.
* `LaunchDone` stands for the awaits between registration and spawn (the
  remote command, the desktop probe). The trust of the folder, the coherence
  hook and the shut-down of a remote Codex bridge are left out. A worktree that
  survived a crash of the server and is adopted again is left out as well.
* `received` is cleared where the session registers and not a moment earlier; it
  is only read in `STARTING`.
* A process that was signalled may still exit on its own, cleanly or not. The
  wait for a reap is bounded in time (2.4 s), so `ReapsSettled` is enabled while
  a process is `dying`. A second reap that finds one in flight (`reapTreeOnce`)
  awaits the same death and is not told apart from it.
* A destroyed session's merge in flight is not followed. The server's own
  removal of a session that closed is `Destroy`.
* Detection is the nondeterministic `Detect`: any event of the status mapper
  that the table accepts. The source of those events is `StatusSource`, below.

### The run

`options` says what a session is and how its operator behaves; it is fixed by
`Init`, so one run has several kinds: a local session in a repository, a
headless one that requires its worktree, and a remote one without git, each with
a patient operator; and the headless one with an impatient operator
(`AllKinds` in `MCSessionLifecycle`).

`patient` says that the operator sends a request only when no start is in
flight and no exit is being handled; kills and destroys are always allowed. It
is the assumption under which the code keeps some of its promises, and the
properties that need it say so: `PatientOwnsWorktree`, `HooksFollowProcess`,
`OldExitNeverEndsNew`, `PatientClosesOnlyOnOwnExit`, `AwaitsEnd`. `NoStrayProcess`
and `StateTellsProcess` are checked of an impatient operator as well; the second
only of a local session, since a remote exit changes the state after an await.

Three processes let an exit of the first be handled while the second starts and
a third be spawned after; three requests (starts, restarts and finishes, kills
counted too) are enough for every pair of them to overlap, and two worktrees for
one to be removed while the other is in use.

Fairness: git, the preparation of the hooks, the desktop probe and the remote
host answer (`StartStep`, `MergeDone`, `ExitStep`: all have timeouts or end with
their child process), and a process that was sent SIGKILL exits. Nothing is
assumed of the agent or the operator.

`lifecycle_worktree_lost` drops the patience: a restart while an exit is being
settled reuses the clean worktree that the settlement then removes, and the
agent is spawned into a folder that is about to go.

## 4. The outbox: `TelegramOutbox`

A ping is the number of its arrival, and the list of entries, which only ever
loses elements and gains them at the end, is a function from the pings held to
their attempts.

| Variable | In the code |
|---|---|
| `entries`, `disk` | `entries` in memory and in the file |
| `writes` | the serial queue of `persist()`: snapshots, and who awaits each |
| `sending`, `inFlight` | attempts whose `send()` has not answered; `entryIdsInFlight` |
| `counted` | `entryIdsWithFailureCounted` |
| `armed`, `slow` | `retryTimer !== null`; how many saves have been waiting since before it was armed |
| `todo`, `replaying` | the rest of a replay's plan; `isReplayRunning` |
| `old` | pings past `maxAgeMs` |
| `crashes` | lives of the server so far |
| `sent`, `failedIn`, `settled`, `written` | history |

Actions: `Deliver` (up to its save), `WriteDone` (a save lands or is refused,
and whoever awaited it goes on: a delivery attempts its ping, a replay goes to
the next), `SendOk`, `SendFailed`, `RetryFires`, `Age`, `Restart` (a crash, at
worst just as a save lands, then `load()` and the replay of the boot).

The atomic file is modelled as the code makes it: a save is whole or did not
happen. A refused save is a warning and is not retried. A file that cannot be read
when the server starts is not modelled: the code then starts empty
(`telegram-outbox.ts:94`), and every ping in it is lost.

The run `outbox` has room for one ping, so that the second evicts the first in
each of the places it can be (in flight, planned, awaiting its save). Three
attempts are needed for the third failure to be told from the second, and the
second restart finds a file that the first has replayed.

`PromptDisk` says that a save does not take longer than the retry interval (a
minute): with it the timer cannot fire before the saves that were queued when it
was armed have landed. The run does without it; section 14 uses it to show that
a ping is sent twice without any slow disk.

Fairness: the disk answers, Telegram answers or the request times out, the
timer fires.

## 5. The status source: `TurnReport`, `StatusSource`

Three sources say how the agent is: its hooks, which are of high confidence but
for the idle prompt, the terminal title, which is of low confidence, and the
permission requests of the agent, whose questions may be parked while an
automatic answer is sought. `status-source.ts` arbitrates: work and questions
are resolved as they arrive, and a `ready` waits for the conflict window, in
which any other word cancels it and a surer `ready` joins it.

| Variable | In the code |
|---|---|
| `now` | `Date.now()`, in ticks of 250 ms |
| `pending` | `_pendingReadyConfidence`, `_pendingReadyTs` and the time of `_pendingReadyTimer`; `Nothing` when no timer is armed |
| `last`, `destroyed` | `_last`, `_destroyed` |
| `heard`, `since` | history: the last word of the agent, and since when it is the same |
| `told` | history: the last of its words that was emitted |
| `hookEnded`, `hookEndTold` | history: whether a hook vouched for the end of this turn, and whether that was emitted |

Actions: `Ingest` (`HearReady` for a `ready`, `HearNow` for the rest),
`PendingReadyFires`, `Reset` (a clear or a compaction), `Destroy`, and `Tick`. A
timer may fire at any time after it is due, as a busy server lets it. A signal
bears the time it was ingested, and a question a time up to `MaxPark` before it,
so that the times that `Repeats` compares may run backwards.

Left out: the `source` field, which is only passed on; `unknown`, which is a
`meta` event that changes nothing; and `compaction-start` and `compaction-end`,
which the session handles before the status source and never sends it.

`TurnReport` is the contract: a word but the end of a turn is reported at once, an
end only after it has been the last word for a whole window. `ReportsTurns` says
that the source implements it.

The run `status` has the default windows, 750 ms and 500 ms, in ticks of 250 ms.
Inputs for twice the longer window let a second turn begin while the first is
still held, or within the de-duplication window of it; the ticks that remain let
the last ready fire, and fire late. `MaxPark` is
larger than the window in which a repeat is dropped; the code's own 2 s adds
nothing but older times that compare in the same way. Fairness: time passes and timers fire. Nothing is assumed of the agent.

## 6. The background gate: `BackgroundGate`

A turn may end while sub-agents and background shells that it began still run.
The session then holds the `ready` and completes the turn when they have gone
and stayed gone for a settle window (10 s). What runs is counted from hooks that
may be late, lost or doubled, so everything counted has a life after which it is
forgotten.

| Variable | In the code |
|---|---|
| `st` | the session's state, as far as the gate looks at it |
| `reg` | the task registry (`agent-tracker.ts`): agents counted from hooks, orphans (a stop without a start), the agent's own list with what is idle or was seen in it, shells that were launched or whose follow-up is not delivered; a number is the ticks an entry has left |
| `gate` | the held ready and its confidence, its age, the quiet ticks, the timer |
| `onHold` | a ready in the status source's conflict window |
| `fresh`, `calm`, `sinceLaunch`, `accounted` | history: whether something newer was heard, how long nothing ran, when a shell was launched, and the shells that a list has accounted for since |

Actions: the hooks (`SubagentStarts`, `SubagentStops` with and without a list,
`TaskCreated`, `TaskCompleted`, `StopHook` with a list and `BareStopHook` without,
`ShellLaunched`, `Working`, `AwaitingInput`, `Prompt`), the title's `TitleReady` (and
the idle prompt, a ready of the same confidence), `ReadyResolves`,
`GateTimerFires`, `OperatorMoves`, `Exits`, `Restarts` and `TimePasses`, in which
the `EntriesAge`. The timer may be late and never early.

Left out: teammates, monitors (which never gate), scheduled wake-ups and
compaction. The code keeps the time it first saw a shell for as long as lists name
it; the model forgets it when its life is over, and a later list gives it another
life, which holds the turn longer and never shorter.

`HeldIsWatched` says that a held ready always has a timer, `CompletesInTime` that
a release is of the turn whose ready was held, comes a whole quiet window after
the last work, and that a turn is completed neither at once nor from the gate while a
shell that a list accounted for is owed its follow-up. A Stop without a list
accounts for nothing, and completes the turn of a shell that was just launched
(section 14). `HeldTurnEnds` says that the card does not say Running for ever.

One agent and one shell are counted in different ways, and five signals let each
start, stop, start again and stop with a hook lost. Lives of three ticks are
longer than the quiet of two, so that an entry may run out before, during and
after it. The delivery of a shell takes no longer than a shell is remembered, as in
the code (10 s and 60 min). Fairness: time passes, the timers fire and the conflict
window ends.

## 7. Notifications: `NotificationManager`

| Variable | In the code |
|---|---|
| `entry`, `timer`, `phone` | an entry of `_entries`, its escalation timer and its phone timer |
| `ticking` | the escalation timers that exist, so that a handle that is overwritten does not vanish |
| `typed`, `phoneMs`, `telegramOn`, `hub`, `agents` | the operator's last activity, the delay, the channels there are, whether the session has active agents |
| `deferred`, `held` | completions that wait for the agents; the frame kept for the next hub |
| `notable`, `alert`, `answered` | history: whether the session is in a state it notifies of, the number of its alerts, and those the operator acknowledged in time |
| `telegrams`, `frames` | history: messages of each alert |

An alert repeats on the dashboard while it waits for input and climbs to the
phone when it is left for the delay; while somebody types, the phone timer arms
itself again. A completion that climbs while agents run is deferred. A frame is
held when there is neither a hub nor Telegram, and dropped when the entry is
acknowledged or forgotten; without an entry nothing drops it (`Dropped`). The states PENDING, ACKNOWLEDGED and IDLE
are left in the call that enters them. Grouping of alerts, the packing of digests
and the acknowledgement that a compaction defers are left out.

`AlertsKeptApart` says that no timer is lost or outlives its alert, that an
alert makes at most one message by each way, and that a frame is held only while
there is no way to send it; `PhoneInTime` that an alert climbs no earlier than the
delay, not while the operator types, and that none is told of which lapsed
unanswered when the session moved on; `TellsPhone` that what is left alone is told.
Of an alert that was answered the phone may still be told, at once or much later
(section 14). The delay is positive, as the configuration requires
(`contracts/config.ts:25`).

Two alerts make a deferral or a held frame meet the next alert, two values of
the delay let it change while a timer runs. Inputs come up to tick 4, later
than the longer delay, so that an alert that climbed meets a later one. The horizon
lets every timer of the last input fire. Fairness: time passes and timers fire.

## 8. Lanes: `TickLoop`, `LaneRunner`

`TickLoop` is `createTickLoop`: the first tick, the recurring ones, retries, the
operator's refresh, a tick asked for during a tick, and a stop at any await. Time
is left out but for its order: a back-off and a rate limit are in force until a
step ends them, and each may end before the other, since the back-off is capped
(`shared/backoff.ts:22`) and the rate limit is not. `lane` is the set of options its loop was made with, chosen by
`Init` of three kinds: with quick retries, with a read before a refresh as well,
and one that ticks without a delay, as the loop's defaults have it.

| Variable | In the code |
|---|---|
| `start`, `stopped` | where `start()` awaits; `stopped` |
| `phase`, `rerun` | `tickPhase` and the await the tick is in |
| `sched` | back-off, rate limit, retry timer, `nextAttemptAt`, `failureStreak`, quick retries |
| `recurring` | the interval |
| `asked`, `refreshes` | history |

`StopsAndRetries` says that a stop is final and an announced retry keeps its
timer, for the lanes whose loops see to it; `BeginsOnlyWhenFree` that no tick begins
after a stop, that one of the operator does not begin under a rate limit, however long
what it reads first is awaited, and that any other does not begin under a back-off:
also the one that was asked for during a tick, which the end of that tick begins
(`lane-runner.ts:209`) under whatever back-off its failure has just set; `AskedIsServed` that a tick that was
asked for comes. Five failures are more than the quick retries, two refreshes
let one meet the other's await. Fairness: timers fire, back-offs end, awaits
return.

`LaneRunner` is `createLaneRunner`: every start or change of the settings is a
job of a serial queue that stops the poller there is, asks the gate and awaits
the start of a new one; a stop does not go through the queue. Its pollers are
`unmade`, `starting`, `up`, `stopping` or `dead`; what they do is `TickLoop`.
`LaneFollowsConfig` says that two pollers never live at once and that, with every
job done, the lane runs with the configuration saved last; `RequestsServed` that
no job waits for ever. Three configurations, one of them closing the gate, let a
change go away and come back; four pollers are one for each request. Fairness:
jobs go on, starts and stops of pollers end.

The lengths of the waits and the notices shown for them are left out. So are an old
poller whose stop rejects and a new one whose creation throws
(`lane-runner.ts:334`, `:344`): either ends its job with a warning, and the lane is
without a poller until its configuration changes again.

## 9. The community lane: `CommunityLane`

The watcher delivers questions until it is told that they are saved. A tick
admits those of a forum and asks a judge about the rest, and dispatches research
runs while there are free slots. The operator sets questions aside and runs them
again. The poller is replaced when its settings change, and the server may stop.

| Variable | In the code |
|---|---|
| `pollers` | each poller: its life, its entries, its runs, what its judge is asked, the rows and set-asides that wait for a save, whether a save waits |
| `poller` | the one the runner has |
| `file`, `loaded` | the state file; what `readState` answers with |
| `acked`, `dropped`, `setAside`, `overtaken` | history |

Actions: `AcceptRows`, `Tick`, `JudgeAnswers`, `Save` (which may fail), `FinishRun`
with each outcome of a run, `SetAside`, `Rerun`, `Restart`, `Stopped`, `Load`, `Crash`.
What a row, a judge or a report contains, the pruning of old entries and the
limit of 500 waiting messages are left out.

`QuestionsKept` says that nothing acknowledged or set aside is lost, no question is
researched twice at a time, no more are researched than there are slots, and what
shows as researched is. The first two are stated for runs in which no judge
answered to a poller that was replaced (section 14). `Researched` says that a
forum question comes to an end.

One slot and two questions make one of them wait; two pollers and two events
make every pair of a replacement, a crash, a failed write and an action of the
operator. Fairness: ticks recur, saves are made, runs end, and the judge answers,
as `JUDGE_TIMEOUT_MS` sees to.

## 10. The terminal stream: `DataSocket`

Output is counted in chunks: chunk *n* made the ring's total *n*. A socket that
is behind drops what it cannot take and refills later from the ring, or draws
the screen anew when the ring no longer has it. A hidden card pauses the stream;
the size of the grid goes beside it.

| Variable | In the code |
|---|---|
| `s.total`, `s.drawn` | the ring: how much there was, and the grid each chunk was drawn for |
| `s.mode`, `s.sentOffset`, `s.sendBuffer`, `s.desynced`, `s.refused`, `s.stall`, `s.immediate`, `s.flushNext` | the sender's variables of these names, the size frame that was refused and the timers |
| `s.held` | the offset of the screen kept at a pause |
| `s.buffered` | `bufferedAmount` of the socket: output, screens, size frames and beats of output |
| `s.denied`, `s.resumedBehind` | history: the last resume that needed a screen found the socket full; a resume left the stream behind without a timer |
| `s.shown`, `s.grid`, `s.whole`, `s.fits` | the browser's terminal: up to where it shows, its grid, and whether it joined without a gap and at the right size |
| `size`, `resizeAtPause`, `open` | `_resizeSeq`, `resizeSeqAtPause`, whether the socket is open |

Each operation of the sender is an operator on the record `s`, composed as the
code composes its calls. Which viewer decides the size of the grid and how the
browser reconnects are left out.

`StreamIsRight` says that no size is lost, and that the terminal shows the output
without a gap or a repeat at the grid it was drawn for. The second is said unless a
resume that needed a screen found the socket full: the chunks it missed are then
replayed on a grid they were not drawn for, until a screen is drawn (section 14).
`PausedIsQuiet` says that a paused socket carries no output; a size or a beat it may,
and they fill the socket like any frame. `CaughtUp` says that a stream that is behind
catches up even when the session is silent, unless its last resume left it behind
with no timer (section 14).

A ring of three chunks with a send buffer of two lets a drop, an eviction and a
refill overlap in five chunks; two resizes let a size overtake another, and a frame as
large as a chunk fills a socket that is one short of its mark. Fairness:
callbacks run, the stall timer fires, the browser reads.

## 11. The spawn gate: `SpawnGate`

Automatic starts, the resumes of a boot and the children that agents spawn, go
through one serial queue. The head waits until there is memory for it and for
every start let through in the last 30 seconds.

| Variable | In the code |
|---|---|
| `queue`, `step` | the serial queue; how far each start is |
| `held`, `flagged`, `heldStartCount` | `isHeadStartHeld`, the starts that were counted as held, their count |
| `reserved`, `settled` | reservations that have not expired; sessions whose memory a reading sees |
| `inFlight`, `liveChildren`, `lifetime` | the budget of each parent |
| `wanted` | a resume is still dormant, a child is not destroyed |
| `overlooked` | history: sessions whose reservation ended before a reading saw their memory, until one does |

Memory is counted in sessions. A reservation ends 30 seconds after the admission
(`Expire`), whatever the start is doing: it may still await reaps, the git queue or its
worktree, and its session has then taken nothing that a reading could see. A reading is
as of the decision that uses it, and a wait for one does not reject; a start needs
some memory, since a reserve of 0 switches the gate off (`spawn-gate.ts:148`). A reading of memory may fail (`MayFailToRead`), and the gate is then open; the
run has readings that succeed. A parent that ends while its spawn is checked, and
the remote setup session, are left out.

`CountsHold` says that what is counted is true and no parent exceeds a budget, be it
of spawns under way, of living children or of its whole life; `AdmitsWhatFits` that
there is room for what is let through beside everything let through before, but the
sessions that are `overlooked` (section 14); `UnwantedLeave` that a resume nobody
wants leaves the queue. A resume and three children meet room for two sessions and a
parent of two grants, so that starts wait behind each other and a grant is refused by
each budget. Fairness: the head
of the queue goes on; sessions need not end.

## 12. Merges: `WorktreeMerge`

One life of an agent in one worktree, and everything that writes its merge
status: the operator's merges and discards, a finish, the settlement of the exit,
and the worktree check that demotes a status and rebases. Each awaits git, which
runs one job at a time in the engine's queue; an action is a job with the code
that follows its await, or a piece of code between two awaits.

| Variable | In the code |
|---|---|
| `status`, `own` | `mergeStatus`; `worktreeDir` and the workspace are set |
| `state`, `process`, `teardown` | of the session; waiting, idle and complete are one |
| `disk`, `work` | the worktree exists; commits ahead and uncommitted changes in it |
| `queue` | the jobs of the engine |
| `settling`, `discarding`, `sig`, `rebasing` | where `settleOnExit`, the discard, the check and the rebase await |
| `landed` | history: who landed the work and removed the worktree |

`MergeBackEnds` and `MergeKeepEnds` choose among the outcomes git has: merged,
parked, refused for each reason, or thrown. Diffs, branch sync and workspaces of
several repositories are left out. So are a merge forced on a running session
(`session-worktree-lifecycle.ts:646`), a removal that is not admitted and leaves the
worktree of a merge on the disk (`git-workspace.ts:380`), and work that is done between
the merge's last look at the worktree and its removal (`workspace/rebase-ops.ts:221`,
`:236`): a job of the engine is one step.

`TypeOK` says that every wait has its job in the queue; `WorkKept` that a worktree
with work in it goes only by the merge that lands it or the operator's discard;
`TeardownsEnd` that a merge and a finish end. Three requests, an exit and a check
meet in the queue in every order. Fairness: the engine runs its jobs, awaits
return, a process that was killed exits.

## 13. What is proved

Every safety property that a run checks, invariant or action property, is proved
for every value of the constants its module's assumptions allow. The shape is the
same throughout: an invariant that is inductive, checked by TLC first, one lemma
for each action that keeps it, and lemmas about the operators the actions are
built from, so that an action's proof speaks of what an operator does and not of
how.

`SessionLifecycleProofs` begins with facts of the table (its closure, which events
leave a live state and where an exit leads). It proves, for any set of processes and
worktrees, any number of requests and every kind of session and operator:

* `TypeCorrect` - `Spec => []TypeOK`.
* `NoStray` - `Spec => []NoStrayProcess`. The invariant is inductive with the
  types and `Held`: the process the session holds has been born, and a
  live process is the one held. It holds for impatient operators and remote
  sessions alike because every path that forgets the process signals it first.
* `LocalStateTellsProcess` - `Spec => [](~Remote => StateTellsProcess)`. The
  strengthening `Told` says that a session in a live state holds a process or
  has just been left by one whose exit moves it on in the same step, and that
  a start in flight never coexists with a state that tells of a process;
  `Unspoken` ties `STARTING` to the output not yet heard. It needs
  `~Remote`, since a remote exit changes the state only after an await.
* `WorktreeOutlivesAgent`, `HooksFollow`, `PatientStateTellsProcess`, `OldExitsAreOver`
  and `AgentsOwnExitCloses` - the properties of a patient operator. They rest on one
  invariant, `PatientInv`: one process at a time has anything left to do, its
  exit's handler included, and none while a start is in flight (`Alone`); a teardown
  that waits is of an ended session (`Pending`); what is shown is so, even while a
  description is fetched (`Shown`); an exit being settled is the agent's own only if
  no kill came before it (`Settles`); the hook entry (`Hooked`) and the worktree
  (`Folder`) are there from the step that makes them on. `Alone` is what an impatient
  operator breaks, and with it every one of the five.

`NotificationProofs` proves of the manager, for any sessions, alerts, delays and
times, `AlertsApart` (`AlertsKeptApart`) and `PhoneIsInTime` (`PhoneInTime`), from
`AlertInv`: `Timed` says that the handles an entry knows are the timers there are and
that a phone timer is no earlier than the least delay; `ToldOnce` that what the phone
timer or the deferral is to tell is the alert of the session's state, was not told, and
waits in one place only; `HeldRight` that a frame is held only while there is neither
hub nor Telegram, was not told, and is of the session's state or was answered. The last
rests on this: without its entry the alert of a state is one the operator answered. That
an alert waits in one place is why it makes one message by each way. A delay may shrink or grow
while a timer runs, so the bound is the least of all delays: a set of numbers has
one, by the well-foundedness of the order on finite sets.

Of the outbox it proves, for any number of pings, attempts and restarts,
any size of the queue and a disk of any speed:

* `OutboxTypeCorrect` - `Spec => []TypeOK`. Its hard part is the limit of the
  queue: the entries `planEnqueue` keeps are mapped to the number of newer ones, an
  injection into `0..MaxEntries-1` (`KeptIsSmall`); the bound then passes from the
  memory to each save and from a save to the file.
* `Remembered` - `Spec => []NeverForgotten`, inductive with the types of the
  entries and the queue of saves. The step that matters is the end of a replay:
  what it leaves idle it arms the timer for.
* `Saved` - `Spec => []SavedUntilSettled`. The strengthening `Durable` orders
  the file, the queued saves and the memory: what an earlier one holds, each
  later one holds too, unless it was sent or settled. It is why the saves must
  land in their order.
* `ReplaysApart` - `Spec => []OneReplay`, inductive with the types: a replay
  that runs awaits exactly one send or one save, and the timer is not armed.
* `OutagesAreOne` - `Spec => []AttemptsAreLives`. `Lived` says that attempts
  are paid for by lives in memory, in every queued save and in the file (a
  restart may read any of them), and that an entry not yet counted in this life is paid for by earlier
  ones, which is what lets one more failure be counted.

`TurnProofs` proves of the status source, for any windows, any age of a parked question, any
horizon and timers of any delay:

* `SourceTypeCorrect` - `Spec => []TypeOK`, with no timer after a destruction.
* `HookPrevails` - `Spec => []HookWins`. `Vouched` follows the hook's confidence
  from the hold to `last`, so that a ready dropped as a repeat is one whose
  confidence has been told.
* `KeepsContract` - `Spec => ReportsTurns`, the refinement. `Held` says that the
  ready on hold is the last word and will have stood for a window when its timer
  is due; `Spoken` that `last` tells of the last word that was emitted, so that
  dropping a repeat changes nothing that was told.

Of the background gate it proves, for any agents, shells and times, `HeldIsLookedAt`
(`HeldIsWatched`) and `TurnsCompleteInTime` (`CompletesInTime`). With the timer of a
held ready (`HeldIsTimed`), `GateInv` keeps `HeldAsMeant`: nothing newer was heard, and
the quiet time the gate measures is no longer than nothing has run, so that a release
comes a whole window after the last work; and `OwedShell`: until the follow-up of a
shell can no longer come, the shell is owed it, is still on Claude's list with
enough of its life left, or was accounted for by no list yet. In the first two cases
something is active (`NothingOwed`), so that neither a Stop, with a list or
without, nor the gate completes the turn. Without the bound on what is left of a life,
an entry that expires would let either complete it too soon.

`LaneRunnerProofs` proves `RunnerFollows`, `Spec => []LaneFollowsConfig`, for any
configurations, pollers and requests. `OwnAlive` says that only the runner's own
poller is alive but for the one that a job has told to stop, `Follows` that
without a job ahead the poller is the one the last configuration calls for.

`LaneProofs` proves of the tick loop, for any lanes and any bounds, `LoopStops`
(`[]StopsAndRetries`) and `BeginsWhenFree` (`BeginsOnlyWhenFree`). Inductive with the
types are `RefreshFree` (a refresh that waits found no rate limit, and nothing it
awaits sets one), `Halts` (with a delayed first tick
nothing arms the interval again after a stop) and `Announced`. What begins when a tick
ends is judged by the back-off that the tick has just set (`EndBegins`), and not by the
one of before it.

Of the community lane it proves `NoQuestionLost` (`QuestionsKept`), for any
questions, pollers, slots, crashes and failed writes. `LaneInv` has `InOrder` (pollers
follow each other: those before the last made are dead, so only one has research or
entries to answer for, from which `FewRuns` follows), `TidyPoller` (what a poller has
in each stage of its life) and, while no judge answers to a poller that was replaced,
`Kept`: what the watcher or the operator was told holds in the file, in what
`readState` answers and in the live poller's entries, and what it will be told after the
next save holds in the entries already. The last is why a save that fails, or a
question set aside and run again before its save, loses nothing. `Quiet` says that
nothing of a dead poller is left to write; a judge that answers late breaks it, which
is the disagreement of section 14.

`DataSocketProofs` proves, for any sizes of the ring, the buffers, the screen and any
number of chunks and resizes, `TerminalIsRight` (`StreamIsRight`) and `HiddenIsQuiet`
(`PausedIsQuiet`). `StreamInv` says that a stream that flows has what it has not sent in its
buffer or will replay it (`Flows`), and that all of it was drawn for the terminal's grid
or a later one (`Follows`) unless a resume was denied its screen (`Denied`), that a paused one holds the offset of its screen (`Rests`) or owes
a replay (`Owes`), and that the size of the session is the terminal's or waits
(`Knows`). One lemma for each operation of the sender says what it keeps of these, and
the actions compose them as the code does.

`WorktreeMergeProofs` proves, for any numbers of requests, edits and checks,
`WaitsAreQueued` (`[]TypeOK`) and `WorkIsKept` (`WorkKept`). `Waits` gives each wait
a job of its own kind and caller, since a finish does not wait for just any
merge. `ExitFoundClean` is why an exit's discard loses nothing: from its probe to
the removal nobody works in the worktree any more.

`SpawnGateProofs` proves, for any sessions, parents and limits, `GateCounts`
(`[]CountsHold`) and, if readings do not fail, `GateFits` (`AdmitsWhatFits`).
`OneByOne` says that the queue holds each start under way once and only its head
has gone on, `Budgets` that each count of a parent is the number of its spawns, those it
was granted in its whole life included, `Accounted` that every session let through is
seen in a reading, has its reservation, or lost it unseen, from which the room is
counted.

The proofs use the named assumptions of the modules, which TLC evaluates in every
run.

Only model-checked is every liveness property: `AwaitsEnd`, `RetriedUntilSettled`,
`LastWordTold`, `TellsPhone`, `AskedIsServed`, `RequestsServed`, `Researched`, `CaughtUp`,
`UnwantedLeave`, `HeldTurnEnds` and `TeardownsEnd`. Their proofs would need to know when
a fair action is enabled, and TLAPS does not reason about `ENABLED`. Several rest on an
invariant that is proved: that a held ready has a timer, that an idle ping has one,
that a wait has its job in the queue.

## 14. Where the code and its documents disagree

One disagreement is a run of its own, `lifecycle_worktree_lost`. Each of the
others is a property stated in its module that the code does not keep; to
reproduce one, add the property to the configuration named here, with the changes
given.

| Property | Configuration | What happens, and what a document says |
|---|---|---|
| `SessionLifecycle!ClosesOnlyOnOwnExit` | `Lifecycle.cfg`, `Options <- ImpatientLocal` | `sessions.ts:1939`: an exit that was clean is emitted as the agent's own after the operator restarted and killed the session during the settlement, so a kill removes the session. CHANGELOG.md:630: "Kill, Restart, Finish and merge, and stopping the server never remove a session." |
| `SessionLifecycle!RestartServed` | `Lifecycle.cfg`, `Options <- ImpatientLocal`, 2 processes, 2 requests | `sessions.ts:2134`: `forceRestart` before the first process exists waits for an exit that never comes; every later restart is refused. CHANGELOG.md:685: "Restart restarts into it right away". |
| `TelegramOutbox!OneMessagePerLife` | `Outbox.cfg`, `LastPing = 3`, `MaxEntries = 3`, `MaxCrashes = 0`, `PromptDisk = TRUE` | `telegram-outbox.ts:113`: a retry that fires while a new ping awaits its first save sends it, and its delivery sends it again. CHANGELOG.md:1332: "one message per notification". |
| `NotificationManager!SilentOnceAnswered` | `Notify.cfg` | `telegram-completion-defer.ts:82`: only a change of the session's state cancels a deferred completion; an alert that was acknowledged is still sent when the agents end. CHANGELOG.md:499: "Telegram now hears only about alerts you leave unanswered". |
| `NotificationManager!ToldOfLast` | `Notify.cfg` | `backend-notifications.ts:160`, `notification-manager.ts:125`: a completion is deferred and acknowledged; the hub leaves, the agents end, and its frame is held when there is no entry any more. No change of the session drops it, and the next hub, whenever it connects, is sent the alert of long ago. CHANGELOG.md:499: "only about alerts you leave unanswered". |
| `TickLoop!RetryKept` | `Tick.cfg` | `lane-runner.ts:149`: a retry timer that fires while a refresh reads first is spent; when that read fails, the announced retry has no timer. CHANGELOG.md:770: the tabs "retry after 10 s, 30 s and 90 s". |
| `TickLoop!StopIsFinal` | `Tick.cfg` | `lane-runner.ts:259`: a loop without a delay that is stopped during its first tick still arms its interval. Its ticks are all refused (`BeginsOnlyWhenFree` holds); no document promises otherwise. A stop in the prelude of a delayed start is followed by its first timer, which then does nothing and is no disagreement. |
| `LaneRunner!StopIsFinal` | `Runner.cfg` | `lane-runner.ts:336`: a stop while a job awaits the old poller finds none to stop; the job then starts a new one. CHANGELOG.md:1849: "restart and shutdown now await every lane drain". |
| `CommunityLane!AckedIsKept` | `Community.cfg`, `Questions = Discord = {d1, d2}`, `CommunitySpec` | `community-poller.ts:139`: a tick whose judge answers after its poller was replaced writes its old state over the file. CHANGELOG.md:35: "a question is not lost when either one restarts". |
| `DataSocket!CaughtUpAnyhow` | `Data.cfg`, `MaxSize = 0` | `ws-sender.ts:275`: a resume that owes chunks while the socket is over its high water mark arms no stall timer, and a session that is silent leaves the terminal on an old screen. Server.spec.md:40: "resuming lands it on the live screen". |
| `DataSocket!StreamIsRightAnyhow` | `Data.cfg` | `ws-sender.ts:237`: a resume after a resize needs a screen, but a size frame (`:218`) or a beat of output (`backend-websockets.ts:278`) sent while paused has filled the socket, so it draws none and marks the stream as behind; the refill (`:126`) then plays chunks of the old grid on the new one. Server.spec.md:40: "resuming lands it on the live screen". |
| `SpawnGate!AdmitsWhatFitsAnyhow` | `Gate.cfg` | `memory-admission-core.ts:70`, `spawn-gate.ts:155`: a reservation ends 30 seconds after the admission though its start has not taken its memory yet; the next start is let through on the same reading. CHANGELOG.md:1024 promises no more than those 30 seconds, but the aim it names, not "piling on until the service stalls in swap", is missed. |
| `SpawnGate!SpawnsNeverWait` | `Gate.cfg`, `Resumes = {}`, `Memory = 1`, `MaxInFlight = MaxLiveChildren = 2` | `agent-spawn.ts:70`: the check before a spawn reserves nothing, so two spawns pass it and the second waits in the queue. CHANGELOG.md:1025: "instead of waiting silently for memory". |
| `BackgroundGate!NotBeforeFollowUpAnyhow` | `Background.cfg` | `session-background-tracking.ts:236`, `agent-tracker.ts:45`: a Stop or a StopFailure without a list reconciles nothing, so a shell that was launched just before is neither declared nor owed its follow-up, and the turn completes at once. CHANGELOG.md:168: "The card now stays Running until that follow-up turn ends". |
| `WorktreeMerge!MergedIsShown` | `Merge.cfg` | `session-worktree-lifecycle.ts:422`: the exit's probe is queued behind the merge, finds no worktree and moves merged to pending-review. Session.spec.md:35: no refused outcome may leave "a merged worktree shown as unmerged with nothing to act on". |
| `WorktreeMerge!FinishGoesDormant` | `Merge.cfg`, `MaxRequests = 2`, `MaxEdits = 1`, `MaxChecks = 0` | `sessions.ts:2111`: after a kill the session is done while its process still exits; a finish merges at once, the reset is refused, and the exit resets nothing. Session.spec.md:27: finish "returns the session to dormant once its agent process exits". |

A further three hold only for a patient operator, without a document that promises
otherwise: `OldExitNeverEndsNew`, `StartConcludes` (a force restart while a start
waits for reaps is served by the superseded start) and `HooksFollowProcess` (a
registration left until the next exit). For a remote session with an impatient
operator `StateTellsProcess` fails: the transition decided before the host was
asked is applied to the session's next life.

## 15. Not modelled

Compaction, the approval holds with their paste queue, and the replay of control
frames are left for later modules (section 2).

The recorder and the serialization of screens; the adapters of each agent; the
framing of the control protocol; GitHub, radar, usage, trace and whiteboard;
updates; configuration; the cloud services; the browser dashboard. They are
formats, projections and I/O, or share their concurrency with a part above.
`PROJECT.json` gives the reason for each, and for each part that is modelled what
of it is left out.
