---------------------------- MODULE WorktreeMerge ----------------------------
(***************************************************************************)
(* The merge status of a session's worktree, between everything that       *)
(* writes it: the operator's merges and discards, a finish, the settlement *)
(* after the agent's exit, and the worktree check that demotes a status    *)
(* and rebases (session-worktree-lifecycle.ts, session-teardown.ts).  Each *)
(* awaits git, and git runs one job at a time in the engine's queue        *)
(* (git-workspace.ts): an action is a job with the code that follows its   *)
(* await, or a piece of code between two awaits.                           *)
(*                                                                         *)
(* One life of the agent with one worktree: SessionLifecycle has the       *)
(* starts and restarts.  Waiting, idle and complete are "IDLE" here.       *)
(***************************************************************************)
EXTENDS Naturals, Sequences

CONSTANTS
  MaxRequests,   \* bound on what the operator asks for
  MaxEdits,      \* bound on the agent's edits
  MaxChecks,     \* bound on the worktree checks
  NoCheck        \* no worktree check is in flight

ASSUME BoundsAssumption == {MaxRequests, MaxEdits, MaxChecks} \subseteq Nat
ASSUME NoCheckAssumption == NoCheck \notin [ahead : BOOLEAN, dirty : BOOLEAN]

VARIABLES
  state,         \* of the session
  process,       \* the agent's process: "live", "dying" or "gone"
  teardown,      \* none, finishing (awaits the exit) or merging
  own,           \* worktreeDir and workspace are set
  status,        \* mergeStatus
  disk,          \* the worktree exists
  work,          \* what it holds: commits ahead of the base, uncommitted changes
  queue,         \* the engine's jobs; the first one runs
  settling,      \* settleOnExit: where it awaits
  discarding,    \* the operator's discard: where it awaits
  sig,           \* the worktree check in flight and the signature it read
  rebasing,      \* autoRebasing
  landed,        \* history: who landed the work and removed the worktree, or "no"
  bounds         \* requests, edits and checks so far

session == <<state, process, teardown>>
tree    == <<own, status, disk, work, landed>>
flights == <<settling, discarding, sig, rebasing>>
vars == <<session, tree, queue, flights, bounds>>

Statuses == {"none", "pending-review", "merging", "parked", "merged"}
Works == [ahead : BOOLEAN, dirty : BOOLEAN]
Clean == [ahead |-> FALSE, dirty |-> FALSE]
Job(kind, by) == [kind |-> kind, by |-> by]

\* MERGE_STATUS_MOVES; a move it does not have is refused.
Moves(from) == CASE from = "merging" -> Statuses \ {"merging"}
                 [] from = "merged"  -> {"none", "pending-review"}
                 [] from = "parked"  -> Statuses \ {"merged"}
                 [] OTHER -> Statuses
NextStatus(from, to) == IF to \in Moves(from) THEN to ELSE from

Within(kind, max) == bounds[kind] < max /\ bounds' = [bounds EXCEPT ![kind] = @ + 1]
Request == Within("requests", MaxRequests)

Init ==
  /\ state = "RUNNING" /\ process = "live" /\ teardown = "none"
  /\ own = TRUE /\ status = "none" /\ disk = TRUE /\ work = Clean
  /\ queue = <<>> /\ settling = "no" /\ discarding = "no"
  /\ sig = NoCheck /\ rebasing = FALSE /\ landed = "no"
  /\ bounds = [requests |-> 0, edits |-> 0, checks |-> 0]

----------------------------------------------------------------------------
(* The agent. *)

AgentEdits ==
  /\ state = "RUNNING" /\ process = "live" /\ disk
  /\ Within("edits", MaxEdits)
  /\ work' \in {[work EXCEPT !.dirty = TRUE], [work EXCEPT !.ahead = TRUE],
                [ahead |-> TRUE, dirty |-> FALSE]}
  /\ UNCHANGED <<session, own, status, disk, landed, queue, flights>>

TurnChanges ==
  /\ process = "live" /\ state \in {"RUNNING", "IDLE"}
  /\ state' = IF state = "RUNNING" THEN "IDLE" ELSE "RUNNING"
  /\ UNCHANGED <<process, teardown, tree, queue, flights, bounds>>

\* killSession: the state moves at once, the process exits later.
Kill ==
  /\ Request
  /\ process = "live"
  /\ state' = "DONE" /\ process' = "dying"
  /\ UNCHANGED <<teardown, tree, queue, flights>>

----------------------------------------------------------------------------
(* Merging. *)

CanMerge == own /\ status # "merging"

\* runMergeEngine up to its await.
Merges(kind, by) ==
  /\ CanMerge
  /\ status' = NextStatus(status, "merging")
  /\ queue' = Append(queue, Job(kind, by))

\* mergeWorktree, which no state of the session refuses, and mergeAndContinue.
MergeWorktree ==
  /\ Request /\ Merges("mergeBack", "operator")
  /\ UNCHANGED <<session, own, disk, work, landed, flights>>
MergeAndContinue ==
  /\ Request /\ state = "IDLE" /\ Merges("mergeKeep", "operator")
  /\ UNCHANGED <<session, own, disk, work, landed, flights>>

\* The session's reset is refused while it has a process or a worktree.
\* Mutant of ResetFrom: the merge of a finish that could not reset is not settled.
ResetOnly(st, owns, s) ==
  IF st = "DONE" /\ process = "gone" /\ ~owns
  THEN state' = "DORMANT" /\ status' = "none" /\ teardown' = "none"
  ELSE state' = st /\ status' = s /\ teardown' = "merging"
ResetFrom(st, owns, s) ==
  IF st = "DONE" /\ process = "gone" /\ ~owns
  THEN state' = "DORMANT" /\ status' = "none" /\ teardown' = "none"
  ELSE state' = st /\ status' = s /\ teardown' = "none"

\* _mergeAndReset: a refused merge resets at once.
MergeAndReset ==
  \/ /\ Merges("mergeBack", "finish")
     /\ teardown' = "merging" /\ UNCHANGED state
  \/ ~CanMerge /\ ResetFrom(state, own, status) /\ UNCHANGED queue

FinishAndMerge ==
  /\ Request /\ teardown = "none"
  /\ \/ state = "DONE" /\ MergeAndReset /\ UNCHANGED process
     \/ /\ state = "IDLE" /\ process = "live"
        /\ teardown' = "finishing" /\ state' = "DONE" /\ process' = "dying"
        /\ UNCHANGED <<status, queue>>
  /\ UNCHANGED <<own, disk, work, landed, flights>>

(* What git makes of a merge: its outcome, and the worktree after it.       *)
(* mergeBack removes the worktree of landed work, and one with nothing in   *)
(* it; a worktree that is gone reads as uncommitted changes.                *)
Outcome(o, there, left) == [status |-> o, disk |-> there, work |-> left]
\* Mutant of BackOutcomes: uncommitted changes do not hold a merge up.
BackOutcomesDirty ==
  {Outcome("pending-review", disk, work), Outcome("parked", disk, work)}
  \cup (IF disk /\ ~work.ahead THEN {Outcome("pending-review", FALSE, Clean)} ELSE {})
  \cup (IF disk /\ work.ahead THEN {Outcome("merged", FALSE, Clean)} ELSE {})
BackOutcomes ==
  {Outcome("pending-review", disk, work), Outcome("parked", disk, work)}
  \cup (IF disk /\ work = Clean THEN {Outcome("pending-review", FALSE, Clean)} ELSE {})
  \cup (IF disk /\ work.ahead /\ ~work.dirty THEN {Outcome("merged", FALSE, Clean)} ELSE {})
\* Mutant of KeepOutcomes: a merge that fails leaves the status as it was.
KeepOutcomesSilent ==
  {Outcome("merging", disk, work)}
  \cup (IF ~disk \/ ~work.ahead THEN {Outcome("none", disk, work)}
        ELSE {Outcome("none", TRUE, [work EXCEPT !.ahead = FALSE])})
KeepOutcomes ==
  {Outcome("pending-review", disk, work), Outcome("parked", disk, work)}
  \cup (IF ~disk \/ ~work.ahead THEN {Outcome("none", disk, work)}
        ELSE {Outcome(s, TRUE, [work EXCEPT !.ahead = FALSE]) : s \in {"none", "pending-review"}})

Running(kind) == queue # <<>> /\ Head(queue).kind = kind /\ queue' = Tail(queue)

MergeBackEnds ==
  /\ Running("mergeBack")
  /\ \E o \in BackOutcomes :
       LET s == NextStatus(status, o.status)
           owns == own /\ o.status # "merged"
       IN  /\ disk' = o.disk /\ work' = o.work /\ own' = owns
           /\ landed' = IF o.status = "merged" THEN Head(queue).by ELSE landed
           /\ IF Head(queue).by = "finish" THEN ResetFrom(state, owns, s)
              ELSE status' = s /\ UNCHANGED <<state, teardown>>
  /\ UNCHANGED <<process, flights, bounds>>

MergeKeepEnds ==
  /\ Running("mergeKeep")
  /\ \E o \in KeepOutcomes :
       disk' = o.disk /\ work' = o.work /\ status' = NextStatus(status, o.status)
  /\ UNCHANGED <<session, own, landed, flights, bounds>>

----------------------------------------------------------------------------
(* Discarding. *)

\* discardWorktree before the engine: the readers of the worktree are held, the
\* seeding stops and the checkouts are released; then the discard is queued, or
\* there is none to queue.
DiscardQueued(by) ==
  IF own THEN queue' = Append(queue, Job("discard", by)) /\ UNCHANGED <<own, status>>
  ELSE UNCHANGED <<own, queue>> /\ status' = NextStatus(status, "none")

OperatorDiscards ==
  /\ Request /\ discarding = "no" /\ discarding' = "releasing"
  /\ UNCHANGED <<session, tree, queue, settling, sig, rebasing>>
OperatorReleased ==
  /\ discarding = "releasing" /\ DiscardQueued("operator")
  /\ discarding' = IF own THEN "discarding" ELSE "no"
  /\ UNCHANGED <<session, disk, work, landed, settling, sig, rebasing, bounds>>

\* The process is gone.  Without a worktree there is nothing to settle.
Exits ==
  /\ process # "gone" /\ process' = "gone"
  /\ state' = "DONE"
  /\ IF own THEN /\ settling' = "probing" /\ queue' = Append(queue, Job("probe", "exit"))
            ELSE settling' = "settled" /\ UNCHANGED queue
  /\ UNCHANGED <<teardown, tree, discarding, sig, rebasing, bounds>>

\* hasUnmergedWork: anything it cannot read counts as work.
LooksUnmerged == {~disk \/ work # Clean, TRUE}
ProbeEnds ==
  /\ Running("probe")
  /\ \E unmerged \in LooksUnmerged :
       /\ settling' = IF unmerged THEN "settled" ELSE "releasing"
       /\ status' = IF unmerged THEN NextStatus(status, "pending-review") ELSE status
  /\ UNCHANGED <<session, own, disk, work, landed, discarding, sig, rebasing, bounds>>
ExitReleased ==
  /\ settling = "releasing" /\ DiscardQueued("exit")
  /\ settling' = IF own THEN "discarding" ELSE "settled"
  /\ UNCHANGED <<session, disk, work, landed, discarding, sig, rebasing, bounds>>

\* The engine removed the worktree, or the removal guard kept it; the session
\* forgets it either way.
DiscardEnds ==
  /\ Running("discard")
  /\ disk' \in {disk, FALSE} /\ work' = IF disk' THEN work ELSE Clean
  /\ own' = FALSE /\ status' = NextStatus(status, "none")
  /\ IF Head(queue).by = "exit" THEN settling' = "settled" /\ UNCHANGED discarding
                                ELSE discarding' = "no" /\ UNCHANGED settling
  /\ UNCHANGED <<session, landed, sig, rebasing, bounds>>

\* The exit is reported, and a finish that awaited it merges.
ExitReported ==
  /\ settling = "settled" /\ settling' = "done"
  /\ IF teardown = "finishing" THEN MergeAndReset
                               ELSE UNCHANGED <<state, teardown, status, queue>>
  /\ UNCHANGED <<process, own, disk, work, landed, discarding, sig, rebasing, bounds>>

----------------------------------------------------------------------------
(* The worktree check. *)

CheckReads ==
  /\ sig = NoCheck /\ own /\ disk /\ status # "merging" /\ ~rebasing
  /\ Within("checks", MaxChecks)
  /\ sig' = work
  /\ UNCHANGED <<session, tree, queue, settling, discarding, rebasing>>

\* decideSignatureDemotion, on a base that is behind or not.
Demoted(s, w, behind) ==
  IF s \in {"pending-review", "parked"} /\ w = Clean THEN "none"
  ELSE IF s = "parked" /\ w.ahead /\ ~w.dirty /\ ~behind THEN "pending-review" ELSE s

\* checkWorktreeChange after its await, and runAutoRebase up to its own.
CheckApplies ==
  /\ sig # NoCheck /\ sig' = NoCheck
  /\ \E behind \in BOOLEAN :
       IF status = "merging" THEN UNCHANGED <<status, queue, rebasing>>
       ELSE LET s == Demoted(status, sig, behind)
                rebase == own /\ ~rebasing /\ teardown = "none" /\ s # "parked"
                          /\ state # "RUNNING" /\ ~sig.dirty /\ behind
            IN  /\ status' = s
                /\ rebasing' = (rebasing \/ rebase)
                /\ queue' = IF rebase THEN Append(queue, Job("rebase", "check")) ELSE queue
  /\ UNCHANGED <<session, own, disk, work, landed, settling, discarding, bounds>>

RebaseEnds ==
  /\ Running("rebase") /\ rebasing' = FALSE
  /\ UNCHANGED <<session, tree, settling, discarding, sig, bounds>>

Next ==
  \/ AgentEdits \/ TurnChanges \/ Kill \/ Exits
  \/ MergeWorktree \/ MergeAndContinue \/ FinishAndMerge \/ OperatorDiscards
  \/ OperatorReleased \/ ExitReleased \/ ExitReported
  \/ MergeBackEnds \/ MergeKeepEnds \/ ProbeEnds \/ DiscardEnds \/ RebaseEnds
  \/ CheckReads \/ CheckApplies

Spec == Init /\ [][Next]_vars

\* The engine runs its jobs, awaits end, and a process that was killed exits.
EngineRuns == MergeBackEnds \/ MergeKeepEnds \/ ProbeEnds \/ DiscardEnds \/ RebaseEnds
FairSpec == /\ Spec /\ WF_vars(EngineRuns)
            /\ WF_vars(OperatorReleased) /\ WF_vars(ExitReleased) /\ WF_vars(ExitReported)
            /\ WF_vars(process = "dying" /\ Exits)

----------------------------------------------------------------------------
(* Properties. *)

\* The type invariant; a status that says merging stands for a job, and so does
\* every await of the engine.
Queued(kinds) == \E i \in DOMAIN queue : queue[i].kind \in kinds
TypeOK ==
  /\ status = "merging" \/ teardown = "merging" => Queued({"mergeBack", "mergeKeep"})
  /\ settling = "probing" => Queued({"probe"})
  /\ "discarding" \in {settling, discarding} => Queued({"discard"})
  /\ rebasing => Queued({"rebase"})
  /\ state \in {"RUNNING", "IDLE", "DONE", "DORMANT"}
  /\ process \in {"live", "dying", "gone"} /\ teardown \in {"none", "finishing", "merging"}
  /\ own \in BOOLEAN /\ status \in Statuses /\ disk \in BOOLEAN /\ work \in Works
  /\ queue \in Seq([kind : {"mergeBack", "mergeKeep", "probe", "discard", "rebase"},
                    by : {"operator", "finish", "exit", "check"}])
  /\ settling \in {"no", "probing", "releasing", "discarding", "settled", "done"}
  /\ discarding \in {"no", "releasing", "discarding"}
  /\ sig \in {NoCheck} \cup Works /\ rebasing \in BOOLEAN /\ landed \in {"no", "operator", "finish"}

\* A worktree that holds work is removed only once the work has landed or because
\* the operator discards it, however merges, exits and discards meet in the queue.
WorkKept ==
  [][disk /\ ~disk' /\ work # Clean
       => landed' # landed \/ (Running("discard") /\ Head(queue).by = "operator")]_vars

\* A merge that was begun ends, and the session says how (isMerging would refuse
\* every later one).
MergingEnds == status = "merging" ~> status # "merging"

\* A finish is over in the end, also when its merge parks, is refused or finds no
\* worktree: the session never stays refusing finishes as in progress.
FinishEnds == teardown # "none" ~> teardown = "none"
TeardownsEnd == MergingEnds /\ FinishEnds

\* Session.spec.md:32: a merge shows its outcome whenever the agent exits: a merged
\* worktree is never shown as unmerged with nothing to act on.
MergedIsShown == landed # "no" /\ ~own => status \notin {"pending-review", "parked"}

\* Session.spec.md:27: a finish that landed its work returns the session to
\* dormant once its process has exited.
FinishGoesDormant == landed = "finish" ~> state = "DORMANT"
=============================================================================
