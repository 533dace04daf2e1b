---------------------------- MODULE CommunityLane ---------------------------
(* The community lane (src/server/community): questions that the watcher     *)
(* delivers until they are saved, judged or admitted by a tick, researched   *)
(* a few at a time, set aside and re-run by the operator; over restarts of   *)
(* the poller and of the server.                                             *)
(*                                                                           *)
(* A stop of a poller awaits its research runs and its saves, but not a tick *)
(* whose judge has not answered: that tick goes on with the old state.       *)
EXTENDS Integers, FiniteSets

CONSTANTS
  Questions,
  Discord,       \* those that a judge must call questions first
  MaxRuns,       \* MAX_CONCURRENT_RUNS
  MaxPollers,    \* bound on the pollers: the first and those that replace it
  MaxEvents      \* bound on the restarts of the poller and of the server, the
                 \* failed writes and the actions of the operator, together

ASSUME QuestionsAssumption == Discord \subseteq Questions /\ IsFiniteSet(Questions)
ASSUME LaneBounds ==
  MaxRuns \in Nat \ {0} /\ MaxPollers \in Nat \ {0} /\ MaxEvents \in Nat

Pollers == 1..MaxPollers

VARIABLES
  pollers,     \* each poller: its life, its state, its runs, its tick, its saves
  poller,      \* the one the runner has, or 0
  file,        \* the entries in the state file
  loaded,      \* the entries that readState answers with
  acked,       \* history: what the watcher was told is saved
  dropped,     \* history: what the judge called no question
  setAside,    \* history: what the operator was told is set aside
  overtaken,   \* history: a poller was replaced while its judge was asked
  events

communityVars ==
  <<pollers, poller, file, loaded, acked, dropped, setAside, overtaken, events>>

Statuses == {"none", "pending", "queued", "retried", "running", "runningAgain",
             "ready", "error", "aside"}

\* A run after a timeout is the last: queued with retriedAfterTimeout.
Queued == {"queued", "retried"}
Running == {"running", "runningAgain"}

Empty == [q \in Questions |-> "none"]

Unmade == [life |-> "unmade", entries |-> Empty, runs |-> {}, judging |-> {},
           rows |-> {}, aside |-> {}, saves |-> FALSE]

CommunityInit ==
  /\ pollers = [p \in Pollers |-> IF p = 1 THEN [Unmade EXCEPT !.life = "starting"] ELSE Unmade]
  /\ poller = 1 /\ file = Empty /\ loaded = Empty
  /\ acked = {} /\ dropped = {} /\ setAside = {} /\ overtaken = FALSE
  /\ events = 0

Happens == events < MaxEvents /\ events' = events + 1

IsStopped(pl) == pl.life \in {"stopping", "dead"}

-----------------------------------------------------------------------------
(* The entries. *)

RequeueInterrupted(entries) ==
  [q \in Questions |->
     CASE entries[q] = "running" -> "queued"
       [] entries[q] = "runningAgain" -> "retried"
       [] OTHER -> entries[q]]

Marked(entry) == IF entry = "retried" THEN "runningAgain" ELSE "running"

FreeSlots(pl) == MaxRuns - Cardinality(pl.runs)

\* What selectRuns may select: as many as are free, the oldest first.
Selections(pl) ==
  LET waiting == {q \in Questions : pl.entries[q] \in Queued}
      free == FreeSlots(pl)
  IN {s \in SUBSET waiting :
        Cardinality(s) = (IF Cardinality(waiting) < free THEN Cardinality(waiting) ELSE free)}

\* dispatchRuns
Dispatched(pl) ==
  IF IsStopped(pl) \/ FreeSlots(pl) <= 0 THEN {pl}
  ELSE {[pl EXCEPT !.runs = @ \cup s,
                   !.entries = [q \in Questions |-> IF q \in s THEN Marked(@[q]) ELSE @[q]]]
          : s \in Selections(pl)}

\* Mutant: what arrived while the judge was asked is dropped with the rest.
AdmittedAll(entries, keys, isQuestion) ==
  [q \in Questions |->
     IF entries[q] = "pending"
       THEN IF q \in isQuestion THEN "queued" ELSE "none"
       ELSE entries[q]]

Admitted(entries, keys, isQuestion) ==
  [q \in Questions |->
     IF q \in keys /\ entries[q] = "pending"
       THEN IF q \in isQuestion THEN "queued" ELSE "none"
       ELSE entries[q]]

Pending(entries, source) == {q \in source : entries[q] = "pending"}

-----------------------------------------------------------------------------
(* Saves.  What is written is the state at that moment. *)

\* A write that failed is what readState answers with all the same.
Write(p, ok) ==
  /\ loaded' = pollers[p].entries
  /\ file' = IF ok THEN pollers[p].entries ELSE file
  /\ IF ok THEN UNCHANGED events ELSE Happens

SaveRows(p, ok) ==
  /\ pollers[p].rows # {} /\ Write(p, ok)
  /\ pollers' = [pollers EXCEPT ![p].rows = {}]
  /\ acked' = IF ok THEN acked \cup pollers[p].rows ELSE acked

SaveAside(p, ok) ==
  /\ pollers[p].aside # {} /\ Write(p, ok)
  /\ pollers' = [pollers EXCEPT ![p].aside = {}]
  /\ setAside' = IF ok THEN setAside \cup pollers[p].aside ELSE setAside

Persist(p, ok) ==
  /\ pollers[p].saves /\ Write(p, ok)
  /\ pollers' = [pollers EXCEPT ![p].saves = FALSE]

Save(p) ==
  /\ \E ok \in BOOLEAN :
       \/ SaveRows(p, ok) /\ UNCHANGED setAside
       \/ SaveAside(p, ok) /\ UNCHANGED acked
       \/ Persist(p, ok) /\ UNCHANGED <<acked, setAside>>
  /\ UNCHANGED <<poller, dropped, overtaken>>

-----------------------------------------------------------------------------
(* A poller. *)

\* Mutant: a run that was interrupted is left as it is.
LoadAsIs(p) ==
  /\ pollers[p].life = "starting"
  /\ pollers' = [pollers EXCEPT ![p].life = "up", ![p].entries = loaded]
  /\ UNCHANGED <<poller, file, loaded, acked, dropped, setAside, overtaken, events>>

Load(p) ==
  /\ pollers[p].life = "starting"
  /\ pollers' = [pollers EXCEPT ![p].life = "up", ![p].entries = RequeueInterrupted(loaded)]
  /\ UNCHANGED <<poller, file, loaded, acked, dropped, setAside, overtaken, events>>

\* The watcher delivers a question until it is told that it is saved.
AcceptRows(q) ==
  /\ poller # 0 /\ q \notin acked
  /\ pollers[poller].life = "up" /\ q \notin pollers[poller].rows
  /\ pollers' = [pollers EXCEPT ![poller].rows = @ \cup {q},
                                ![poller].entries[q] = IF @ = "none" THEN "pending" ELSE @]
  /\ UNCHANGED <<poller, file, loaded, acked, dropped, setAside, overtaken, events>>

\* What follows the judge in a tick, or the admission when there is none.
TickGoesOn(p, pl) ==
  \E next \in Dispatched(pl) :
    pollers' = [pollers EXCEPT ![p] = [next EXCEPT !.saves = TRUE]]

\* A tick admits what the forum asks, and has the rest judged.
Tick(p) ==
  /\ pollers[p].life = "up" /\ pollers[p].judging = {} /\ ~pollers[p].saves
  /\ LET forum == Questions \ Discord
         entries == Admitted(pollers[p].entries, Pending(pollers[p].entries, forum), forum)
         candidates == Pending(entries, Discord)
         admitted == [pollers[p] EXCEPT !.entries = entries]
     IN IF candidates # {}
          THEN pollers' = [pollers EXCEPT ![p] = [admitted EXCEPT !.judging = candidates]]
          ELSE TickGoesOn(p, admitted)
  /\ UNCHANGED <<poller, file, loaded, acked, dropped, setAside, overtaken, events>>

\* The judge answers, or gives no usable answer.  Nothing stops this tick.
JudgeAnswers(p) ==
  /\ pollers[p].judging # {}
  /\ LET judged == pollers[p].judging
         idle == [pollers[p] EXCEPT !.judging = {}]
     IN \/ TickGoesOn(p, idle) /\ UNCHANGED dropped
        \/ \E isQuestion \in SUBSET judged :
             /\ TickGoesOn(p, [idle EXCEPT !.entries = Admitted(@, judged, isQuestion)])
             /\ dropped' = dropped \cup (judged \ isQuestion)
  /\ UNCHANGED <<poller, file, loaded, acked, setAside, overtaken, events>>

\* entryFromRun: only a question that is still researched takes its result.
EntryFromRun(entry, outcome) ==
  CASE entry \notin Running -> entry
    [] entry = "running" /\ outcome = "timeout" -> "retried"
    [] entry = "runningAgain" /\ outcome = "timeout" -> "error"
    [] OTHER -> outcome

\* A research run ends, by itself, by its time or because it was aborted.
FinishRun(p, q) ==
  /\ q \in pollers[p].runs
  /\ \E outcome \in {"ready", "error", "timeout"} :
       LET left == [pollers[p] EXCEPT !.runs = @ \ {q}]
       IN IF IsStopped(left) THEN pollers' = [pollers EXCEPT ![p] = left]
          ELSE \E next \in Dispatched([left EXCEPT !.entries[q] = EntryFromRun(@, outcome)]) :
                 pollers' = [pollers EXCEPT ![p] =
                   [next EXCEPT !.saves = @ \/ left.entries[q] \in Running]]
  /\ UNCHANGED <<poller, file, loaded, acked, dropped, setAside, overtaken, events>>

-----------------------------------------------------------------------------
(* The operator, the configuration, the server. *)

SetAside(q) ==
  /\ poller # 0 /\ pollers[poller].life = "up"
  /\ Happens
  /\ pollers[poller].entries[q] \notin {"none", "pending"}
  /\ \E next \in Dispatched([pollers[poller] EXCEPT !.entries[q] = "aside"]) :
       pollers' = [pollers EXCEPT ![poller] = [next EXCEPT !.aside = @ \cup {q}]]
  /\ UNCHANGED <<poller, file, loaded, acked, dropped, setAside, overtaken>>

CanRerun(pl, q) ==
  q \notin pl.runs /\ pl.entries[q] \notin {"none", "pending"} \cup Running

Rerun(q) ==
  /\ poller # 0 /\ pollers[poller].life = "up"
  /\ Happens
  /\ CanRerun(pollers[poller], q)
  /\ \E next \in Dispatched([pollers[poller] EXCEPT !.entries[q] = "queued", !.aside = @ \ {q}]) :
       pollers' = [pollers EXCEPT ![poller] = [next EXCEPT !.saves = TRUE]]
  /\ setAside' = setAside \ {q}
  /\ UNCHANGED <<poller, file, loaded, acked, dropped, overtaken>>

\* The runner replaces the poller, which aborts its runs.
Restart ==
  /\ poller # 0 /\ poller < MaxPollers /\ pollers[poller].life = "up"
  /\ Happens
  /\ pollers' = [pollers EXCEPT ![poller].life = "stopping"]
  /\ poller' = 0
  /\ overtaken' = (overtaken \/ pollers[poller].judging # {})
  /\ UNCHANGED <<file, loaded, acked, dropped, setAside>>

\* What stop() awaits: the runs that are tracked, and the saves.
Drained(pl) == pl.runs = {} /\ ~pl.saves /\ pl.rows = {} /\ pl.aside = {}

\* Of a poller that is down only what its tick still holds is kept.
Stopped(p) ==
  /\ pollers[p].life = "stopping" /\ Drained(pollers[p])
  /\ pollers' = [pollers EXCEPT ![p].life = "dead", ![p + 1].life = "starting",
                                ![p].entries = IF pollers[p].judging = {} THEN Empty ELSE @]
  /\ poller' = p + 1
  /\ UNCHANGED <<file, loaded, acked, dropped, setAside, overtaken, events>>

\* The server starts again, and reads the file.
Crash ==
  /\ Happens
  /\ pollers' = [p \in Pollers |-> IF p = 1 THEN [Unmade EXCEPT !.life = "starting"] ELSE Unmade]
  /\ poller' = 1 /\ loaded' = file
  /\ UNCHANGED <<file, acked, dropped, setAside, overtaken>>

CommunityNext ==
  \/ \E p \in Pollers : Load(p) \/ Tick(p) \/ JudgeAnswers(p) \/ Save(p) \/ Stopped(p)
  \/ \E p \in Pollers, q \in Questions : FinishRun(p, q)
  \/ \E q \in Questions : AcceptRows(q) \/ SetAside(q) \/ Rerun(q)
  \/ Restart \/ Crash

CommunitySpec == CommunityInit /\ [][CommunityNext]_communityVars

\* Ticks recur, runs and judges end in their time, and the saves that wait are
\* made in turn.
CommunityFairness ==
  /\ \A p \in Pollers :
       /\ WF_communityVars(Load(p)) /\ WF_communityVars(Tick(p))
       /\ WF_communityVars(JudgeAnswers(p))
       /\ WF_communityVars(Save(p)) /\ WF_communityVars(Stopped(p))
  /\ \A p \in Pollers, q \in Questions : WF_communityVars(FinishRun(p, q))

CommunityFairSpec == CommunitySpec /\ CommunityFairness

-----------------------------------------------------------------------------
(* Properties *)

PollerStates ==
  [life : {"unmade", "starting", "up", "stopping", "dead"},
   entries : [Questions -> Statuses],
   runs : SUBSET Questions, judging : SUBSET Discord,
   rows : SUBSET Questions, aside : SUBSET Questions, saves : BOOLEAN]

CommunityTypeOK ==
  /\ pollers \in [Pollers -> PollerStates] /\ poller \in 0..MaxPollers
  /\ file \in [Questions -> Statuses] /\ loaded \in [Questions -> Statuses]
  /\ {acked, dropped, setAside} \subseteq SUBSET Questions
  /\ overtaken \in BOOLEAN /\ events \in 0..MaxEvents

\* A question that the watcher was told is saved, and will not deliver again,
\* stays in the file, unless the judge called it none.
AckedIsKept == \A q \in acked \ dropped : file[q] # "none"

\* What the operator was told is set aside stays so in the file.
AsideStays == \A q \in setAside : file[q] = "aside"

Runs(p) == {p} \X pollers[p].runs

\* However pollers are replaced, no question is researched twice at a time and
\* no more are researched than MaxRuns.
FewRuns ==
  LET all == UNION {Runs(p) : p \in Pollers}
  IN /\ Cardinality(all) <= MaxRuns
     /\ \A r1, r2 \in all : r1[2] = r2[2] => r1 = r2

\* A question that shows as researched is: nothing else would end it.
RunningHasRun ==
  \A p \in Pollers : pollers[p].life = "up" =>
    \A q \in Questions : pollers[p].entries[q] \in Running => q \in pollers[p].runs

\* The types, and no question is lost, revived, researched twice or left
\* hanging: the first two unless a judge answered to a poller that was replaced.
QuestionsKept ==
  /\ CommunityTypeOK /\ FewRuns /\ RunningHasRun
  /\ ~overtaken => AckedIsKept /\ AsideStays

\* A forum question the watcher has read is researched, or set aside, in the
\* end, over timeouts, a new poller, a crash, a failed write and a re-run.
Researched ==
  \A q \in Questions \ Discord :
    (q \in acked) ~> (overtaken \/ file[q] \in {"ready", "error", "aside"})
=============================================================================
