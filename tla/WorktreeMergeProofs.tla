-------------------------- MODULE WorktreeMergeProofs --------------------------
(* Merges, exits and discards that meet in the engine's queue keep the work,  *)
(* and every wait of the session for the engine stands for a job, for any     *)
(* numbers of requests, edits and checks.                                     *)
EXTENDS WorktreeMerge, SequencesExt, SequenceTheorems, TLAPS

\* Who asks for which job.
JobType ==
  {Job("mergeBack", "operator"), Job("mergeBack", "finish"),
   Job("mergeKeep", "operator"), Job("probe", "exit"),
   Job("discard", "operator"), Job("discard", "exit"), Job("rebase", "check")}

\* The jobs in the queue.
Jobs == ToSet(queue)

\* Each wait has its own job: a finish not just any merge, a discard its own.
Waits ==
  /\ status = "merging" => \E j \in Jobs : j.kind \in {"mergeBack", "mergeKeep"}
  /\ teardown = "merging" => Job("mergeBack", "finish") \in Jobs
  /\ settling = "probing" => Job("probe", "exit") \in Jobs
  /\ settling = "discarding" => Job("discard", "exit") \in Jobs
  /\ discarding = "discarding" => Job("discard", "operator") \in Jobs
  /\ rebasing => Job("rebase", "check") \in Jobs

Typed ==
  /\ state \in {"RUNNING", "IDLE", "DONE", "DORMANT"}
  /\ process \in {"live", "dying", "gone"} /\ teardown \in {"none", "finishing", "merging"}
  /\ own \in BOOLEAN /\ status \in Statuses /\ disk \in BOOLEAN /\ work \in Works
  /\ queue \in Seq(JobType)
  /\ settling \in {"no", "probing", "releasing", "discarding", "settled", "done"}
  /\ discarding \in {"no", "releasing", "discarding"}
  /\ sig \in {NoCheck} \cup Works /\ rebasing \in BOOLEAN
  /\ landed \in {"no", "operator", "finish"}

\* An exit discards only what it found without work, and nobody works there any
\* more: from the probe to the end of the discard the worktree stays clean.
ExitFoundClean ==
  /\ settling # "no" \/ Job("probe", "exit") \in Jobs => process = "gone"
  /\ settling = "releasing" \/ Job("discard", "exit") \in Jobs
       => process = "gone" /\ (disk => work = Clean)

\* Landed work has left no worktree behind.
LandedIsGone == disk => landed = "no"

MergeInv == Typed /\ Waits /\ ExitFoundClean /\ LandedIsGone

----------------------------------------------------------------------------
\* A job that is queued joins those that wait.
LEMMA AppendJobs ==
  ASSUME NEW q \in Seq(JobType), NEW j \in JobType
  PROVE  Append(q, j) \in Seq(JobType) /\ ToSet(Append(q, j)) = ToSet(q) \cup {j}
BY AppendProperties DEF ToSet

\* A job that ends was the first; all others still wait.
LEMMA TailJobs ==
  ASSUME NEW q \in Seq(JobType), q # <<>>
  PROVE  /\ Tail(q) \in Seq(JobType) /\ Head(q) \in JobType /\ Head(q) \in ToSet(q)
         /\ ToSet(Tail(q)) \subseteq ToSet(q)
         /\ ToSet(q) \subseteq ToSet(Tail(q)) \cup {Head(q)}
<1>1. /\ Tail(q) \in Seq(JobType) /\ Head(q) = q[1] /\ Len(q) >= 1
      /\ Len(Tail(q)) = Len(q) - 1
      /\ \A i \in 1..Len(Tail(q)) : Tail(q)[i] = q[i + 1]
  BY HeadTailProperties, EmptySeq
<1>2. ToSet(Tail(q)) \subseteq ToSet(q)
  BY <1>1 DEF ToSet
<1>3. ASSUME NEW i \in 1..Len(q), i # 1 PROVE q[i] \in ToSet(Tail(q))
  <2>1. i - 1 \in 1..Len(Tail(q)) /\ Tail(q)[i - 1] = q[i]
    BY <1>1, <1>3, LenProperties
  <2> QED
    BY <1>1, <2>1, LenProperties DEF ToSet
<1>4. ToSet(q) \subseteq ToSet(Tail(q)) \cup {Head(q)}
  BY <1>1, <1>3 DEF ToSet
<1> QED
  BY <1>1, <1>2, <1>4 DEF ToSet

\* What the invariant is for: the type invariant that the model checker runs.
LEMMA InvTypeOK == MergeInv => TypeOK
<1> SUFFICES ASSUME MergeInv PROVE TypeOK
  OBVIOUS
<1> USE DEF MergeInv
<1>1. ASSUME NEW j \in Jobs, NEW kinds, j.kind \in kinds PROVE Queued(kinds)
  BY <1>1 DEF Jobs, ToSet, Queued
<1>2. /\ status = "merging" \/ teardown = "merging" => Queued({"mergeBack", "mergeKeep"})
      /\ settling = "probing" => Queued({"probe"})
      /\ "discarding" \in {settling, discarding} => Queued({"discard"})
      /\ rebasing => Queued({"rebase"})
  BY <1>1 DEF Waits, Job
<1>3. JobType \subseteq [kind : {"mergeBack", "mergeKeep", "probe", "discard", "rebase"},
                         by : {"operator", "finish", "exit", "check"}]
  BY DEF JobType, Job
<1>4. queue \in Seq([kind : {"mergeBack", "mergeKeep", "probe", "discard", "rebase"},
                     by : {"operator", "finish", "exit", "check"}])
  BY <1>3, SeqMonotonic DEF Typed
<1> QED
  BY <1>2, <1>4 DEF Typed, TypeOK

----------------------------------------------------------------------------
\* A move of the status that is refused leaves it as it was; one away from a
\* running merge never is.
LEMMA NextStatusMoves ==
  ASSUME NEW from \in Statuses, NEW to \in Statuses
  PROVE  /\ NextStatus(from, to) \in {from, to}
         /\ to # "merging" => NextStatus(from, to) # "merging"
BY DEF NextStatus, Moves, Statuses

\* What a merge back leaves: the worktree as it was, or none; one with work is
\* removed only when the work has landed.
LEMMA BackLeaves ==
  ASSUME Typed, NEW o \in BackOutcomes
  PROVE  /\ o.status \in {"pending-review", "parked", "merged"}
         /\ o.disk \in BOOLEAN /\ o.work \in Works
         /\ o.disk => disk /\ o.work = work /\ o.status # "merged"
         /\ disk /\ ~o.disk /\ work # Clean => o.status = "merged"
<1>1. Clean \in Works
  BY DEF Clean, Works
<1>2. CASE o \in {Outcome("pending-review", disk, work), Outcome("parked", disk, work)}
  BY <1>2 DEF Typed, Outcome
<1>3. CASE disk /\ work = Clean /\ o = Outcome("pending-review", FALSE, Clean)
  BY <1>1, <1>3 DEF Outcome
<1>4. CASE o = Outcome("merged", FALSE, Clean)
  BY <1>1, <1>4 DEF Outcome
<1> QED
  BY <1>2, <1>3, <1>4, Zenon DEF BackOutcomes

\* A merge that keeps the worktree only takes commits away from it.
LEMMA KeepLeaves ==
  ASSUME Typed, NEW o \in KeepOutcomes
  PROVE  /\ o.status \in {"none", "pending-review", "parked"}
         /\ o.disk = disk /\ o.work \in Works
         /\ work = Clean => o.work = Clean
<1> DEFINE less == [work EXCEPT !.ahead = FALSE]
<1>1. less \in Works
  BY DEF Typed, Works
<1>2. work = Clean => ~work.ahead
  BY DEF Clean
<1> HIDE DEF less
<1>3. CASE o \in {Outcome("pending-review", disk, work), Outcome("parked", disk, work),
                 Outcome("none", disk, work)}
  BY <1>3 DEF Typed, Outcome
<1>4. CASE /\ disk /\ work.ahead
           /\ o \in {Outcome("none", TRUE, less), Outcome("pending-review", TRUE, less)}
  <2>1. disk = TRUE
    BY <1>4 DEF Typed
  <2>2. work # Clean
    BY <1>2, <1>4
  <2>3. CASE o = Outcome("none", TRUE, less)
    BY <1>1, <2>1, <2>2, <2>3 DEF Outcome
  <2>4. CASE o = Outcome("pending-review", TRUE, less)
    BY <1>1, <2>1, <2>2, <2>4 DEF Outcome
  <2> QED
    BY <1>4, <2>3, <2>4
<1>5. o \in {Outcome("pending-review", disk, work), Outcome("parked", disk, work),
            Outcome("none", disk, work)}
      \/ /\ disk /\ work.ahead
         /\ o \in {Outcome("none", TRUE, less), Outcome("pending-review", TRUE, less)}
  BY Zenon DEF KeepOutcomes, less
<1> QED
  BY <1>3, <1>4, <1>5

\* A reset, refused or not, ends the teardown and no merge is left running.
LEMMA ResetEnds ==
  ASSUME Typed, NEW owns, NEW s \in Statuses, ResetFrom(state, owns, s)
  PROVE  /\ state' \in {state, "DORMANT"} /\ teardown' = "none"
         /\ status' \in {"none", s}
BY DEF ResetFrom

----------------------------------------------------------------------------
\* Steps that leave the queue and its waits alone.
LEMMA QuietInv ==
  ASSUME MergeInv,
         AgentEdits \/ TurnChanges \/ Kill \/ OperatorDiscards \/ CheckReads
  PROVE  MergeInv'
<1> USE DEF MergeInv
<1>1. /\ UNCHANGED <<own, status, disk, landed, queue, settling, rebasing>>
      /\ Jobs' = Jobs
  BY DEF AgentEdits, TurnChanges, Kill, OperatorDiscards, CheckReads,
         tree, flights, Jobs
<1>2. Typed'
  <2>1. CASE AgentEdits
    <3>1. /\ [work EXCEPT !.dirty = TRUE] \in Works
          /\ [work EXCEPT !.ahead = TRUE] \in Works
          /\ [ahead |-> TRUE, dirty |-> FALSE] \in Works
      BY DEF Typed, Works
    <3> QED
      BY <1>1, <2>1, <3>1 DEF AgentEdits, Typed, session, flights
  <2>2. CASE TurnChanges
    BY <2>2 DEF TurnChanges, Typed, tree, flights
  <2>3. CASE Kill
    BY <2>3 DEF Kill, Typed, tree, flights
  <2>4. CASE OperatorDiscards
    BY <2>4 DEF OperatorDiscards, Typed, session, tree
  <2>5. CASE CheckReads
    BY <2>5 DEF CheckReads, Typed, session, tree
  <2> QED
    BY <2>1, <2>2, <2>3, <2>4, <2>5
<1>3. Waits'
  BY <1>1 DEF Waits, AgentEdits, TurnChanges, Kill, OperatorDiscards, CheckReads,
              session, flights
<1>4. ExitFoundClean' /\ LandedIsGone'
  BY <1>1 DEF ExitFoundClean, LandedIsGone, Typed, AgentEdits, TurnChanges, Kill,
              OperatorDiscards, CheckReads, session, tree
<1> QED
  BY <1>2, <1>3, <1>4

\* A merge that begins is queued, and the status says so.
LEMMA BeginsInv ==
  ASSUME MergeInv, MergeWorktree \/ MergeAndContinue
  PROVE  MergeInv'
<1> USE DEF MergeInv
<1>1. PICK j \in {Job("mergeBack", "operator"), Job("mergeKeep", "operator")} :
        /\ status' = NextStatus(status, "merging") /\ queue' = Append(queue, j)
        /\ UNCHANGED <<session, own, disk, work, landed, flights>>
  BY DEF MergeWorktree, MergeAndContinue, Merges
<1>2. queue' \in Seq(JobType) /\ Jobs' = Jobs \cup {j}
  BY <1>1, AppendJobs DEF Typed, JobType, Jobs
<1>3. /\ j.kind \in {"mergeBack", "mergeKeep"}
      /\ j # Job("discard", "exit") /\ j # Job("probe", "exit")
  BY <1>1 DEF Job
<1>4. status' \in Statuses
  BY <1>1, NextStatusMoves DEF Typed, Statuses
<1> QED
  BY <1>1, <1>2, <1>3, <1>4
  DEF Typed, Waits, ExitFoundClean, LandedIsGone, session, flights

\* What _mergeAndReset does to the session and the queue.
LEMMA MergeAndResetDoes ==
  ASSUME Typed, MergeAndReset
  PROVE  \/ /\ status' \in Statuses /\ teardown' = "merging" /\ state' = state
            /\ queue' \in Seq(JobType)
            /\ Jobs' = Jobs \cup {Job("mergeBack", "finish")}
         \/ /\ status' \in {status, "none"} /\ teardown' = "none"
            /\ state' \in {state, "DORMANT"} /\ queue' = queue
<1>1. CASE Merges("mergeBack", "finish") /\ teardown' = "merging" /\ UNCHANGED state
  BY <1>1, AppendJobs, NextStatusMoves DEF Merges, Typed, JobType, Jobs, Statuses
<1>2. CASE ResetFrom(state, own, status) /\ UNCHANGED queue
  BY <1>2, ResetEnds DEF Typed
<1> QED
  BY <1>1, <1>2 DEF MergeAndReset

\* A finish, before and after its exit.
LEMMA FinishInv ==
  ASSUME MergeInv, FinishAndMerge \/ ExitReported
  PROVE  MergeInv'
<1> USE DEF MergeInv
<1>1. /\ UNCHANGED <<own, disk, work, landed, discarding, sig, rebasing>>
      /\ settling' \in {settling, "done"}
      /\ settling' = "done" => settling # "no"
      /\ process' = process \/ (process = "live" /\ process' = "dying")
  BY DEF FinishAndMerge, ExitReported, flights, ExitFoundClean
<1>2. /\ \/ MergeAndReset
         \/ UNCHANGED <<status, queue>> /\ state' = "DONE" /\ teardown' = "finishing"
         \/ UNCHANGED <<state, teardown, status, queue>>
  BY DEF FinishAndMerge, ExitReported
<1>3. /\ queue' \in Seq(JobType) /\ Jobs \subseteq Jobs'
      /\ Jobs' \subseteq Jobs \cup {Job("mergeBack", "finish")}
      /\ status' \in Statuses /\ teardown' \in {"none", "finishing", "merging"}
      /\ state' \in {"RUNNING", "IDLE", "DONE", "DORMANT"}
      /\ teardown' = "merging" => Job("mergeBack", "finish") \in Jobs'
      /\ status' = "merging" => \E j \in Jobs' : j.kind \in {"mergeBack", "mergeKeep"}
  <2>1. CASE MergeAndReset
    <3>1. CASE /\ status' \in Statuses /\ teardown' = "merging" /\ state' = state
               /\ queue' \in Seq(JobType)
               /\ Jobs' = Jobs \cup {Job("mergeBack", "finish")}
      <4>1. Job("mergeBack", "finish").kind \in {"mergeBack", "mergeKeep"}
        BY DEF Job
      <4> QED
        BY <3>1, <4>1 DEF Typed
    <3>2. CASE /\ status' \in {status, "none"} /\ teardown' = "none"
               /\ state' \in {state, "DORMANT"} /\ queue' = queue
      BY <3>2 DEF Typed, Waits, Jobs, Statuses
    <3> QED
      BY <2>1, <3>1, <3>2, MergeAndResetDoes
  <2>2. CASE UNCHANGED <<status, queue>> /\ state' = "DONE" /\ teardown' = "finishing"
    BY <2>2 DEF Typed, Waits, Jobs
  <2>3. CASE UNCHANGED <<state, teardown, status, queue>>
    BY <2>3 DEF Typed, Waits, Jobs
  <2> QED
    BY <1>2, <2>1, <2>2, <2>3
<1>4. Job("mergeBack", "finish") \notin {Job("discard", "exit"), Job("probe", "exit")}
  BY DEF Job
<1>5. Typed'
  BY <1>1, <1>3 DEF Typed
<1>6. Waits'
  BY <1>1, <1>3 DEF Waits
<1>7. ExitFoundClean' /\ LandedIsGone'
  <2>1. settling' # "no" => settling # "no"
    BY <1>1 DEF Typed
  <2> QED
    BY <1>1, <1>3, <1>4, <2>1 DEF ExitFoundClean, LandedIsGone
<1> QED
  BY <1>5, <1>6, <1>7

\* The job that runs leaves the queue, and nothing else does.
LEMMA RunningDoes ==
  ASSUME Typed, NEW kind, Running(kind)
  PROVE  /\ queue' \in Seq(JobType) /\ Head(queue) \in Jobs \cap JobType
         /\ Head(queue).kind = kind
         /\ Jobs' \subseteq Jobs /\ Jobs \subseteq Jobs' \cup {Head(queue)}
BY TailJobs DEF Running, Typed, Jobs

\* Who a job of each kind is for.
LEMMA ByWhom ==
  ASSUME NEW j \in JobType
  PROVE  /\ j.kind = "mergeBack" => j.by \in {"operator", "finish"}
         /\ j.kind = "discard" => j \in {Job("discard", "operator"), Job("discard", "exit")}
         /\ j.kind = "probe" => j = Job("probe", "exit")
         /\ j.kind = "rebase" => j = Job("rebase", "check")
         /\ j.kind = "mergeBack" /\ j.by = "finish" => j = Job("mergeBack", "finish")
         /\ \A k, b : Job(k, b).kind = k /\ Job(k, b).by = b
BY DEF JobType, Job

\* A merge back ends: no status is left merging, and the work has landed or is there.
LEMMA MergeBackInv ==
  ASSUME MergeInv, MergeBackEnds
  PROVE  MergeInv'
<1> USE DEF MergeInv
<1>1. PICK o \in BackOutcomes :
        /\ disk' = o.disk /\ work' = o.work /\ own' = (own /\ o.status # "merged")
        /\ landed' = IF o.status = "merged" THEN Head(queue).by ELSE landed
        /\ IF Head(queue).by = "finish"
           THEN ResetFrom(state, own', NextStatus(status, o.status))
           ELSE status' = NextStatus(status, o.status) /\ UNCHANGED <<state, teardown>>
  <2>1. PICK o \in BackOutcomes :
          LET s == NextStatus(status, o.status)
              owns == own /\ o.status # "merged"
          IN  /\ disk' = o.disk /\ work' = o.work /\ own' = owns
              /\ landed' = IF o.status = "merged" THEN Head(queue).by ELSE landed
              /\ IF Head(queue).by = "finish" THEN ResetFrom(state, owns, s)
                 ELSE status' = s /\ UNCHANGED <<state, teardown>>
    BY Zenon DEF MergeBackEnds
  <2>2. own' = (own /\ o.status # "merged")
    BY <2>1
  <2> QED
    BY <2>1, <2>2
<1>2. /\ o.status \in {"pending-review", "parked", "merged"}
      /\ o.disk \in BOOLEAN /\ o.work \in Works
      /\ o.disk => disk /\ o.work = work /\ o.status # "merged"
      /\ disk /\ ~o.disk /\ work # Clean => o.status = "merged"
  BY BackLeaves
<1>3. /\ queue' \in Seq(JobType) /\ Head(queue) \in JobType
      /\ Head(queue).kind = "mergeBack"
      /\ Jobs' \subseteq Jobs /\ Jobs \subseteq Jobs' \cup {Head(queue)}
  BY RunningDoes DEF MergeBackEnds
<1>4. /\ Head(queue).by \in {"operator", "finish"}
      /\ Head(queue).by = "finish" => Head(queue) = Job("mergeBack", "finish")
      /\ \A k, b : Job(k, b).kind = k /\ Job(k, b).by = b
  BY <1>3, ByWhom
<1>5. NextStatus(status, o.status) \in Statuses \ {"merging"}
  BY <1>2, NextStatusMoves DEF Typed, Statuses
<1>6. /\ status' \in Statuses \ {"merging"}
      /\ state' \in {state, "DORMANT"}
      /\ teardown' = "none" \/ (teardown' = teardown /\ Head(queue).by # "finish")
  <2>1. CASE Head(queue).by = "finish"
    BY <1>1, <1>5, <2>1, ResetEnds DEF Statuses
  <2>2. CASE Head(queue).by # "finish"
    BY <1>1, <1>5, <2>2
  <2> QED
    BY <2>1, <2>2
<1>7. UNCHANGED <<process, settling, discarding, sig, rebasing>>
  BY DEF MergeBackEnds, flights
<1>8. Typed'
  <2>1. own' \in BOOLEAN
    BY <1>1, Zenon
  <2>2. landed' \in {"no", "operator", "finish"}
    BY <1>1, <1>4 DEF Typed
  <2> QED
    BY <1>1, <1>2, <1>3, <1>6, <1>7, <2>1, <2>2 DEF Typed
<1>9. Waits'
  BY <1>3, <1>4, <1>6, <1>7 DEF Waits
<1>10. ExitFoundClean' /\ LandedIsGone'
  <2>1. disk' => disk /\ work' = work
    BY <1>1, <1>2
  <2>2. disk' => landed' = landed
    BY <1>1, <1>2
  <2> QED
    BY <1>3, <1>7, <2>1, <2>2 DEF ExitFoundClean, LandedIsGone
<1> QED
  BY <1>8, <1>9, <1>10

\* A merge that keeps the worktree ends; no status is left merging.
LEMMA MergeKeepInv ==
  ASSUME MergeInv, MergeKeepEnds
  PROVE  MergeInv'
<1> USE DEF MergeInv
<1>1. PICK o \in KeepOutcomes :
        disk' = o.disk /\ work' = o.work /\ status' = NextStatus(status, o.status)
  BY DEF MergeKeepEnds
<1>2. /\ o.status \in {"none", "pending-review", "parked"}
      /\ o.disk = disk /\ o.work \in Works
      /\ work = Clean => o.work = Clean
  BY KeepLeaves
<1>3. /\ queue' \in Seq(JobType) /\ Head(queue) \in JobType
      /\ Head(queue).kind = "mergeKeep"
      /\ Jobs' \subseteq Jobs /\ Jobs \subseteq Jobs' \cup {Head(queue)}
  BY RunningDoes DEF MergeKeepEnds
<1>4. \A k, b : Job(k, b).kind = k /\ Job(k, b).by = b
  BY <1>3, ByWhom
<1>5. status' \in Statuses \ {"merging"}
  BY <1>1, <1>2, NextStatusMoves DEF Typed, Statuses
<1>6. UNCHANGED <<state, process, teardown, own, landed, settling, discarding, sig, rebasing>>
  BY DEF MergeKeepEnds, session, flights
<1>7. Typed'
  BY <1>1, <1>2, <1>3, <1>5, <1>6 DEF Typed
<1>8. Waits'
  BY <1>3, <1>4, <1>5, <1>6 DEF Waits
<1>9. ExitFoundClean' /\ LandedIsGone'
  BY <1>1, <1>2, <1>3, <1>6 DEF ExitFoundClean, LandedIsGone
<1> QED
  BY <1>7, <1>8, <1>9

\* What the probe of an exit finds clean is clean.
LEMMA ProbeInv ==
  ASSUME MergeInv, ProbeEnds
  PROVE  MergeInv'
<1> USE DEF MergeInv
<1>1. PICK unmerged \in LooksUnmerged :
        /\ settling' = IF unmerged THEN "settled" ELSE "releasing"
        /\ status' = IF unmerged THEN NextStatus(status, "pending-review") ELSE status
  BY DEF ProbeEnds
<1>2. /\ queue' \in Seq(JobType) /\ Head(queue) \in Jobs /\ Head(queue) = Job("probe", "exit")
      /\ Jobs' \subseteq Jobs /\ Jobs \subseteq Jobs' \cup {Head(queue)}
  BY RunningDoes, ByWhom DEF ProbeEnds
<1>3. \A k, b : Job(k, b).kind = k /\ Job(k, b).by = b
  BY DEF Job
<1>4. status' \in Statuses /\ (status' = "merging" => status = "merging")
  BY <1>1, NextStatusMoves DEF Typed, Statuses
<1>5. settling' = "releasing" => disk /\ work = Clean
  BY <1>1 DEF LooksUnmerged, Typed
<1>6. UNCHANGED <<state, process, teardown, own, disk, work, landed, discarding, sig, rebasing>>
  BY DEF ProbeEnds, session
<1>7. Typed'
  BY <1>1, <1>2, <1>4, <1>6 DEF Typed
<1>8. Waits'
  BY <1>1, <1>2, <1>3, <1>4, <1>6 DEF Waits
<1>9. Job("probe", "exit") # Job("discard", "exit")
  BY <1>3
<1> QED
  BY <1>1, <1>2, <1>5, <1>6, <1>7, <1>8, <1>9 DEF ExitFoundClean, LandedIsGone

\* A discard ends: an exit's takes no work with it, and the operator's may.
LEMMA DiscardInv ==
  ASSUME MergeInv, DiscardEnds
  PROVE  MergeInv'
<1> USE DEF MergeInv
<1>1. /\ queue' \in Seq(JobType) /\ Head(queue) \in JobType
      /\ Head(queue).kind = "discard"
      /\ Jobs' \subseteq Jobs /\ Jobs \subseteq Jobs' \cup {Head(queue)}
  BY RunningDoes DEF DiscardEnds
<1>2. /\ Head(queue) \in {Job("discard", "operator"), Job("discard", "exit")}
      /\ \A k, b : Job(k, b).kind = k /\ Job(k, b).by = b
  BY <1>1, ByWhom
<1>3. /\ disk' \in BOOLEAN /\ (disk' => disk /\ work' = work) /\ work' \in Works
  <2>1. Clean \in Works
    BY DEF Clean, Works
  <2>2. disk' \in BOOLEAN /\ (disk' => disk)
    <3>1. disk' = disk \/ disk' = FALSE
      BY DEF DiscardEnds
    <3>2. CASE disk' = disk
      BY <3>2, Zenon DEF Typed
    <3>3. CASE disk' = FALSE
      BY <3>3, Zenon
    <3> QED
      BY <3>1, <3>2, <3>3
  <2>3. work' = IF disk' THEN work ELSE Clean
    BY DEF DiscardEnds
  <2> QED
    BY <2>1, <2>2, <2>3 DEF Typed
<1>4. own' = FALSE /\ status' \in Statuses \ {"merging"}
  BY NextStatusMoves DEF DiscardEnds, Typed, Statuses
<1>5. IF Head(queue) = Job("discard", "exit")
      THEN settling' = "settled" /\ UNCHANGED discarding
      ELSE discarding' = "no" /\ UNCHANGED settling
  BY <1>2 DEF DiscardEnds
<1>6. UNCHANGED <<state, process, teardown, landed, sig, rebasing>>
  BY DEF DiscardEnds, session
<1>7. Typed'
  <2>1. settling' \in {settling, "settled"} /\ discarding' \in {discarding, "no"}
    BY <1>5
  <2>2. own' \in BOOLEAN
    BY <1>4
  <2> QED
    BY <1>1, <1>3, <1>4, <1>6, <2>1, <2>2 DEF Typed
<1>8. Waits'
  BY <1>1, <1>2, <1>4, <1>5, <1>6 DEF Waits
<1>9. ExitFoundClean' /\ LandedIsGone'
  <2>1. Head(queue) = Job("discard", "exit") => process = "gone"
    BY RunningDoes DEF DiscardEnds, ExitFoundClean
  <2> QED
    BY <1>1, <1>3, <1>5, <1>6, <2>1 DEF ExitFoundClean, LandedIsGone
<1> QED
  BY <1>7, <1>8, <1>9

\* A discard that was released is queued, or there is none to queue.
LEMMA ReleasedInv ==
  ASSUME MergeInv, OperatorReleased \/ ExitReleased
  PROVE  MergeInv'
<1> USE DEF MergeInv
<1>1. /\ UNCHANGED <<state, process, teardown, own, disk, work, landed, sig, rebasing>>
      /\ Job("discard", "operator") # Job("discard", "exit")
      /\ Job("discard", "operator") # Job("probe", "exit")
      /\ Job("discard", "exit") # Job("probe", "exit")
  BY DEF OperatorReleased, ExitReleased, session, DiscardQueued, Job
<1>2. ASSUME NEW by \in {"operator", "exit"}, DiscardQueued(by)
      PROVE  /\ queue' \in Seq(JobType)
             /\ Jobs' = IF own THEN Jobs \cup {Job("discard", by)} ELSE Jobs
             /\ status' \in Statuses /\ (status' = "merging" => status = "merging")
  <2>1. CASE own
    BY <1>2, <2>1, AppendJobs DEF DiscardQueued, Typed, JobType, Jobs
  <2>2. CASE ~own
    BY <1>2, <2>2, NextStatusMoves DEF DiscardQueued, Typed, Jobs, Statuses
  <2> QED
    BY <2>1, <2>2
<1>3. CASE OperatorReleased
  <2>1. /\ DiscardQueued("operator") /\ UNCHANGED settling
        /\ discarding' = IF own THEN "discarding" ELSE "no"
    BY <1>3 DEF OperatorReleased
  <2>2. Typed' /\ Waits'
    BY <1>1, <1>2, <2>1 DEF Typed, Waits
  <2> QED
    BY <1>1, <1>2, <2>1, <2>2 DEF ExitFoundClean, LandedIsGone
<1>4. CASE ExitReleased
  <2>1. /\ DiscardQueued("exit") /\ UNCHANGED discarding /\ settling = "releasing"
        /\ settling' = IF own THEN "discarding" ELSE "settled"
    BY <1>4 DEF ExitReleased
  <2>2. Typed' /\ Waits'
    BY <1>1, <1>2, <2>1 DEF Typed, Waits
  <2> QED
    BY <1>1, <1>2, <2>1, <2>2 DEF ExitFoundClean, LandedIsGone
<1> QED
  BY <1>3, <1>4

\* An exit asks for its probe when the process is gone.
LEMMA ExitsInv ==
  ASSUME MergeInv, Exits
  PROVE  MergeInv'
<1> USE DEF MergeInv
<1>1. /\ process' = "gone" /\ state' = "DONE" /\ process # "gone"
      /\ UNCHANGED <<teardown, own, status, disk, work, landed, discarding, sig, rebasing>>
  BY DEF Exits, tree
<1>2. /\ queue' \in Seq(JobType) /\ settling' \in {"probing", "settled"}
      /\ Jobs \subseteq Jobs' /\ Jobs' \subseteq Jobs \cup {Job("probe", "exit")}
      /\ settling' = "probing" => Job("probe", "exit") \in Jobs'
  BY AppendJobs DEF Exits, Typed, JobType, Jobs
<1>3. Job("probe", "exit") # Job("discard", "exit")
  BY DEF Job
<1>4. Typed' /\ Waits'
  BY <1>1, <1>2 DEF Typed, Waits
<1> QED
  BY <1>1, <1>2, <1>3, <1>4 DEF ExitFoundClean, LandedIsGone

\* The worktree check moves the status off pending-review and parked only, and
\* its rebase is queued; the rebase's end is the last of it.
LEMMA CheckInv ==
  ASSUME MergeInv, CheckApplies \/ RebaseEnds
  PROVE  MergeInv'
<1> USE DEF MergeInv
<1>1. CASE CheckApplies
  <2>1. /\ UNCHANGED <<state, process, teardown, own, disk, work, landed, settling, discarding>>
        /\ sig' = NoCheck
    BY <1>1 DEF CheckApplies, session
  <2>2. PICK rebase \in BOOLEAN :
          /\ status' \in Statuses /\ (status' = "merging" => status = "merging")
          /\ rebasing' = (rebasing \/ rebase)
          /\ queue' = IF rebase THEN Append(queue, Job("rebase", "check")) ELSE queue
    <3>1. PICK behind \in BOOLEAN :
            IF status = "merging" THEN UNCHANGED <<status, queue, rebasing>>
            ELSE LET s == Demoted(status, sig, behind)
                     rebase == own /\ ~rebasing /\ teardown = "none" /\ s # "parked"
                               /\ state # "RUNNING" /\ ~sig.dirty /\ behind
                 IN  /\ status' = s
                     /\ rebasing' = (rebasing \/ rebase)
                     /\ queue' = IF rebase THEN Append(queue, Job("rebase", "check")) ELSE queue
      BY <1>1 DEF CheckApplies
    <3>2. CASE status = "merging"
      BY <3>1, <3>2 DEF Typed
    <3>3. CASE status # "merging"
      <4> DEFINE s == Demoted(status, sig, behind)
      <4> DEFINE rebase == own /\ ~rebasing /\ teardown = "none" /\ s # "parked"
                           /\ state # "RUNNING" /\ ~sig.dirty /\ behind
      <4>1. s \in Statuses /\ s # "merging"
        BY <3>3 DEF Demoted, Typed, Statuses
      <4>2. rebase \in BOOLEAN
        OBVIOUS
      <4> HIDE DEF s, rebase
      <4>3. /\ status' = s /\ rebasing' = (rebasing \/ rebase)
            /\ queue' = IF rebase THEN Append(queue, Job("rebase", "check")) ELSE queue
        BY <3>1, <3>3 DEF s, rebase
      <4> QED
        BY <4>1, <4>2, <4>3
    <3> QED
      BY <3>2, <3>3
  <2>3. /\ queue' \in Seq(JobType) /\ rebasing' \in BOOLEAN
        /\ Jobs \subseteq Jobs' /\ Jobs' \subseteq Jobs \cup {Job("rebase", "check")}
        /\ rebasing' => Job("rebase", "check") \in Jobs'
    <3>1. CASE rebase
      BY <2>2, <3>1, AppendJobs DEF Typed, JobType, Jobs
    <3>2. CASE ~rebase
      BY <2>2, <3>2 DEF Typed, Waits, Jobs
    <3> QED
      BY <3>1, <3>2
  <2>4. Job("rebase", "check") \notin {Job("discard", "exit"), Job("probe", "exit")}
    BY DEF Job
  <2>5. Typed' /\ Waits'
    BY <2>1, <2>2, <2>3 DEF Typed, Waits
  <2> QED
    BY <2>1, <2>3, <2>4, <2>5 DEF ExitFoundClean, LandedIsGone
<1>2. CASE RebaseEnds
  <2>1. /\ UNCHANGED <<state, process, teardown, own, status, disk, work, landed,
                       settling, discarding, sig>>
        /\ rebasing' = FALSE /\ rebasing' \in BOOLEAN
    BY <1>2 DEF RebaseEnds, session, tree
  <2>2. /\ queue' \in Seq(JobType) /\ Head(queue) = Job("rebase", "check")
        /\ Jobs' \subseteq Jobs /\ Jobs \subseteq Jobs' \cup {Head(queue)}
    BY <1>2, RunningDoes, ByWhom DEF RebaseEnds
  <2>3. \A k, b : Job(k, b).kind = k /\ Job(k, b).by = b
    BY DEF Job
  <2>4. Typed' /\ Waits'
    BY <2>1, <2>2, <2>3 DEF Typed, Waits
  <2> QED
    BY <2>1, <2>2, <2>4 DEF ExitFoundClean, LandedIsGone
<1> QED
  BY <1>1, <1>2

----------------------------------------------------------------------------
\* Initially nothing waits for the engine.
LEMMA InitInv == Init => MergeInv
<1> SUFFICES ASSUME Init PROVE MergeInv
  OBVIOUS
<1> USE DEF Init
<1>1. Typed
  BY EmptySeq DEF Typed, Statuses, Clean, Works
<1>2. Jobs = {}
  BY DEF Jobs, ToSet
<1> QED
  BY <1>1, <1>2 DEF MergeInv, Waits, ExitFoundClean, LandedIsGone

\* Every step keeps the invariant.
LEMMA StepInv == MergeInv /\ [Next]_vars => MergeInv'
<1> SUFFICES ASSUME MergeInv, [Next]_vars PROVE MergeInv'
  OBVIOUS
<1>1. CASE Next
  BY <1>1, QuietInv, BeginsInv, FinishInv, MergeBackInv, MergeKeepInv, ProbeInv,
     DiscardInv, ReleasedInv, ExitsInv, CheckInv DEF Next
<1>2. CASE UNCHANGED vars
  BY <1>2 DEF vars, session, tree, flights, MergeInv, Typed, Waits, ExitFoundClean,
              LandedIsGone, Jobs
<1> QED
  BY <1>1, <1>2

\* A step that removes a worktree with work has landed it, or is the operator's
\* discard: an exit's discard finds it clean, and no other step removes any.
LEMMA StepKeeps ==
  ASSUME MergeInv, [Next]_vars, disk, ~disk', work # Clean
  PROVE  landed' # landed \/ (Running("discard") /\ Head(queue).by = "operator")
<1> USE DEF MergeInv
<1>1. disk' # disk
  OBVIOUS
<1>2. CASE MergeBackEnds
  <2>1. PICK o \in BackOutcomes :
          /\ disk' = o.disk
          /\ landed' = IF o.status = "merged" THEN Head(queue).by ELSE landed
    BY <1>2, Zenon DEF MergeBackEnds
  <2>2. o.status = "merged"
    BY <2>1, BackLeaves DEF Typed
  <2>3. Head(queue).by \in {"operator", "finish"} /\ landed = "no"
    BY <1>2, RunningDoes, ByWhom DEF MergeBackEnds, LandedIsGone
  <2> QED
    BY <2>1, <2>2, <2>3
<1>3. CASE DiscardEnds
  <2>1. Running("discard") /\ Head(queue) \in Jobs
        /\ Head(queue) \in {Job("discard", "operator"), Job("discard", "exit")}
    BY <1>3, RunningDoes, ByWhom DEF DiscardEnds
  <2>2. Head(queue) # Job("discard", "exit")
    BY <2>1 DEF ExitFoundClean
  <2> QED
    BY <2>1, <2>2 DEF Job
<1>4. CASE MergeKeepEnds
  BY <1>1, <1>4, KeepLeaves DEF MergeKeepEnds
<1>5. CASE AgentEdits \/ TurnChanges \/ Kill \/ Exits \/ CheckReads \/ CheckApplies
           \/ UNCHANGED vars
  BY <1>1, <1>5
  DEF AgentEdits, TurnChanges, Kill, Exits, CheckReads, CheckApplies, vars, tree
<1>6. CASE MergeWorktree \/ MergeAndContinue \/ FinishAndMerge \/ OperatorDiscards
           \/ OperatorReleased \/ ExitReleased \/ ExitReported \/ ProbeEnds \/ RebaseEnds
  BY <1>1, <1>6
  DEF MergeWorktree, MergeAndContinue, FinishAndMerge, OperatorDiscards,
      OperatorReleased, ExitReleased, ExitReported, ProbeEnds, RebaseEnds, tree
<1> QED
  BY <1>2, <1>3, <1>4, <1>5, <1>6 DEF Next

\* The types hold, and every wait of the session for the engine has its job.
THEOREM WaitsAreQueued == Spec => []TypeOK
<1>1. Spec => []MergeInv
  BY InitInv, StepInv, PTL DEF Spec
<1> QED
  BY <1>1, InvTypeOK, PTL

\* Work is removed only once it has landed, or by the operator's discard.
THEOREM WorkIsKept == Spec => WorkKept
<1>1. Spec => []MergeInv
  BY InitInv, StepInv, PTL DEF Spec
<1>2. MergeInv /\ [Next]_vars =>
        [disk /\ ~disk' /\ work # Clean
           => landed' # landed \/ (Running("discard") /\ Head(queue).by = "operator")]_vars
  BY StepKeeps
<1> QED
  BY <1>1, <1>2, PTL DEF Spec, WorkKept
=============================================================================
