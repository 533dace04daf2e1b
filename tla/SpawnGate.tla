----------------------------- MODULE SpawnGate ------------------------------
(* The gate that automatic starts of sessions pass (createSpawnGate and      *)
(* createMemoryAdmission in src/server/spawn-gate.ts), with its two callers: *)
(* the resumes at boot (session-registry.ts) and the children that agents    *)
(* spawn (agent-spawn.ts).  Starts go through one serial queue; the one at   *)
(* its head waits until there is memory for it and for every recent start.   *)
(* Memory is counted in sessions; a reading is as of the decision that uses  *)
(* it, and a start needs some (a reserve of 0 switches the gate off).        *)
EXTENDS Integers, Sequences, FiniteSets, SequencesExt

CONSTANTS
  Resumes,          \* the dormant sessions that boot resumes
  Spawns,           \* the children that agents ask for
  Parents, ParentOf,\* the sessions that ask, and for which children
  Memory,           \* how many sessions there is room for
  MaxInFlight, MaxLiveChildren, MaxLifetimeSpawns,
  MayFailToRead     \* the reading of the headroom may fail

Starts == Resumes \cup Spawns

ASSUME GateAssumption ==
  /\ IsFiniteSet(Starts) /\ Resumes \cap Spawns = {}
  /\ ParentOf \in [Spawns -> Parents] /\ MayFailToRead \in BOOLEAN
  /\ {Memory, MaxInFlight, MaxLiveChildren, MaxLifetimeSpawns} \subseteq Nat

VARIABLES
  queue,          \* the starts that were handed to run and have not ended
  step,           \* how far each one is
  wanted,         \* still dormant (a resume), not destroyed (a spawn)
  held,           \* isHeadStartHeld
  flagged,        \* flaggedStarts
  heldStartCount,
  reserved,       \* the starts whose reservation has not expired
  settled,        \* the sessions whose memory a reading sees
  inFlight, liveChildren, lifetime, \* the budget of each parent
  overlooked      \* history: the sessions whose reservation ended before a
                  \* reading saw their memory, until one does

gateVars == <<queue, step, wanted, held, flagged, heldStartCount, reserved,
              settled, inFlight, liveChildren, lifetime, overlooked>>

budget == <<inFlight, liveChildren, lifetime>>

Steps == {"idle", "asking", "refused", "queued", "probing", "sleeping",
          "starting", "up", "over"}

Waiting == {"queued", "probing", "sleeping"}

\* The sessions whose memory the gate has to count.
Admitted == {x \in Starts : step[x] \in {"starting", "up"}}

Init ==
  /\ queue = <<>> /\ step = [x \in Starts |-> "idle"] /\ wanted = Starts
  /\ held = FALSE /\ flagged = {} /\ heldStartCount = 0
  /\ reserved = {} /\ settled = {} /\ overlooked = {}
  /\ inFlight = [p \in Parents |-> 0]
  /\ liveChildren = [p \in Parents |-> 0]
  /\ lifetime = [p \in Parents |-> 0]

-----------------------------------------------------------------------------
(* Memory. *)

Headroom == IF Cardinality(settled) >= Memory THEN 0
            ELSE Memory - Cardinality(settled)

\* Mutant: recent starts are not counted.
EnoughOnPaper == Headroom >= 1

Enough == Headroom - Cardinality(reserved) >= 1

-----------------------------------------------------------------------------
(* The queue and its flags. *)

StillWanted(x) == x \in Spawns \/ x \in wanted

\* Every start in S that is wanted and has no flag gets one.
Flag(S) ==
  LET new == {x \in S \ flagged : StillWanted(x)} IN
  /\ flagged' = flagged \cup new
  /\ heldStartCount' = heldStartCount + Cardinality(new)

InQueue == {x \in Starts : step[x] \in Waiting}

Enter(x) ==
  /\ queue' = Append(queue, x) /\ step' = [step EXCEPT ![x] = "queued"]
  /\ IF held THEN Flag({x}) ELSE UNCHANGED <<flagged, heldStartCount>>

\* Mutant: a start that leaves is still counted.
LeaveQueueCounted(x) ==
  flagged' = flagged \ {x} /\ UNCHANGED heldStartCount

LeaveQueue(x) ==
  /\ flagged' = flagged \ {x}
  /\ heldStartCount' = heldStartCount - (IF x \in flagged THEN 1 ELSE 0)

\* Nobody wants x any more: its caller's function does nothing.
EndOf(x) ==
  IF x \in Spawns
  THEN inFlight' = [inFlight EXCEPT ![ParentOf[x]] = @ - 1]
  ELSE UNCHANGED inFlight

CallFn(x) ==
  /\ LeaveQueue(x)
  /\ IF x \in wanted
     THEN step' = [step EXCEPT ![x] = "starting"] /\ UNCHANGED <<queue, inFlight>>
     ELSE step' = [step EXCEPT ![x] = "over"] /\ queue' = Tail(queue) /\ EndOf(x)
  /\ UNCHANGED <<liveChildren, lifetime>>

-----------------------------------------------------------------------------
(* The callers. *)

RunAutoResume(x) ==
  /\ x \in Resumes /\ step[x] = "idle" /\ Enter(x)
  /\ UNCHANGED <<wanted, held, reserved, settled, inFlight, liveChildren,
                 lifetime, overlooked>>

Allowed(p) ==
  /\ inFlight[p] < MaxInFlight /\ liveChildren[p] < MaxLiveChildren
  /\ lifetime[p] < MaxLifetimeSpawns

Ask(x) ==
  /\ x \in Spawns /\ step[x] = "idle"
  /\ step' = [step EXCEPT ![x] =
                IF Allowed(ParentOf[x]) THEN "asking" ELSE "refused"]
  /\ UNCHANGED <<queue, wanted, held, flagged, heldStartCount, reserved,
                 settled, inFlight, liveChildren, lifetime, overlooked>>

\* describeShortfallNow is a dry run: it reserves nothing.
MaySpawn(x, read) ==
  /\ read => heldStartCount = 0 /\ Enough
  /\ Allowed(ParentOf[x])

Answer(x) ==
  /\ x \in Spawns /\ step[x] = "asking"
  /\ \E read \in (IF MayFailToRead THEN BOOLEAN ELSE {TRUE}) :
       LET p == ParentOf[x] IN
       IF MaySpawn(x, read)
       THEN /\ Enter(x)
            /\ inFlight' = [inFlight EXCEPT ![p] = @ + 1]
            /\ lifetime' = [lifetime EXCEPT ![p] = @ + 1]
            /\ liveChildren' = [liveChildren EXCEPT ![p] = @ + 1]
       ELSE /\ step' = [step EXCEPT ![x] = "refused"]
            /\ UNCHANGED <<queue, flagged, heldStartCount, inFlight,
                           liveChildren, lifetime>>
  /\ UNCHANGED <<wanted, held, reserved, settled, overlooked>>

-----------------------------------------------------------------------------
(* The start at the head of the queue. *)

AtHead(x) == queue # <<>> /\ Head(queue) = x

Turn(x) ==
  /\ AtHead(x) /\ step[x] = "queued"
  /\ IF StillWanted(x)
     THEN /\ step' = [step EXCEPT ![x] = "probing"]
          /\ UNCHANGED <<queue, flagged, heldStartCount, inFlight,
                         liveChildren, lifetime>>
     ELSE CallFn(x)
  /\ UNCHANGED <<wanted, held, reserved, settled, overlooked>>

\* The reading is there: the start is admitted, dropped or held.
Decide(x) ==
  /\ AtHead(x) /\ step[x] = "probing"
  /\ \/ /\ Enough \/ MayFailToRead
        /\ reserved' = reserved \cup {x} /\ held' = FALSE /\ CallFn(x)
     \/ /\ ~Enough /\ ~held /\ ~StillWanted(x)
        /\ CallFn(x) /\ UNCHANGED <<held, reserved>>
     \/ /\ ~Enough /\ (held \/ StillWanted(x))
        /\ step' = [step EXCEPT ![x] = "sleeping"] /\ held' = TRUE
        /\ IF held THEN UNCHANGED <<flagged, heldStartCount>> ELSE Flag(InQueue)
        /\ UNCHANGED <<queue, reserved, inFlight, liveChildren, lifetime>>
  /\ UNCHANGED <<wanted, settled, overlooked>>

\* Mutant: a held start is not asked again whether it is wanted.
WakeAnyway(x) ==
  /\ AtHead(x) /\ step[x] = "sleeping"
  /\ step' = [step EXCEPT ![x] = "probing"]
  /\ UNCHANGED <<queue, wanted, held, flagged, heldStartCount, reserved,
                 settled, inFlight, liveChildren, lifetime, overlooked>>

Wake(x) ==
  /\ AtHead(x) /\ step[x] = "sleeping"
  /\ IF StillWanted(x)
     THEN /\ step' = [step EXCEPT ![x] = "probing"]
          /\ UNCHANGED <<queue, held, flagged, heldStartCount, inFlight,
                         liveChildren, lifetime>>
     ELSE held' = FALSE /\ CallFn(x)
  /\ UNCHANGED <<wanted, reserved, settled, overlooked>>

StartEnds(x) ==
  /\ step[x] = "starting" /\ queue' = Tail(queue) /\ EndOf(x)
  /\ step' = [step EXCEPT ![x] = "up"]
  /\ UNCHANGED <<wanted, held, flagged, heldStartCount, reserved, settled,
                 liveChildren, lifetime, overlooked>>

-----------------------------------------------------------------------------
(* The sessions. *)

\* releaseChildSlot: once for each child, by its exit or its teardown.
ReleaseChildSlot(x) ==
  IF x \in Spawns /\ x \in wanted
  THEN liveChildren' = [liveChildren EXCEPT ![ParentOf[x]] = @ - 1]
  ELSE UNCHANGED liveChildren

\* The operator starts a dormant session, or closes a child.
Unwant(x) ==
  /\ x \in wanted /\ wanted' = wanted \ {x}
  /\ step[x] \in Waiting \/ (x \in Spawns /\ step[x] = "starting")
  /\ ReleaseChildSlot(x)
  /\ UNCHANGED <<queue, step, held, flagged, heldStartCount, reserved,
                 settled, inFlight, lifetime, overlooked>>

Settle(x) ==
  /\ x \in Admitted \ settled /\ settled' = settled \cup {x}
  /\ overlooked' = overlooked \ {x}
  /\ UNCHANGED <<queue, step, wanted, held, flagged, heldStartCount,
                 reserved, inFlight, liveChildren, lifetime>>

Unseen(x) == x \in Admitted \ settled

(* MEMORY_RESERVATION_SETTLE_MS after the admission, whatever the start does *)
(* and whether or not its memory was seen.                                   *)
Expire(x) ==
  /\ x \in reserved /\ reserved' = reserved \ {x}
  /\ overlooked' = overlooked \cup (IF Unseen(x) THEN {x} ELSE {})
  /\ UNCHANGED <<queue, step, wanted, held, flagged, heldStartCount, settled,
                 inFlight, liveChildren, lifetime>>

Exit(x) ==
  /\ step[x] = "up" /\ step' = [step EXCEPT ![x] = "over"]
  /\ settled' = settled \ {x} /\ overlooked' = overlooked \ {x}
  /\ ReleaseChildSlot(x) /\ wanted' = wanted \ {x}
  /\ UNCHANGED <<queue, held, flagged, heldStartCount, reserved, inFlight,
                 lifetime>>

HeadMoves == \E x \in Starts : Turn(x) \/ Decide(x) \/ Wake(x) \/ StartEnds(x)

Next ==
  \/ \E x \in Starts : RunAutoResume(x) \/ Ask(x) \/ Answer(x)
  \/ HeadMoves
  \/ \E x \in Starts : Unwant(x) \/ Settle(x) \/ Expire(x) \/ Exit(x)

Spec == Init /\ [][Next]_gateVars

\* Readings, timers and starts come to an end; sessions need not.
FairSpec == Spec /\ WF_gateVars(HeadMoves)

-----------------------------------------------------------------------------
(* Properties. *)

TypeOK ==
  /\ queue \in Seq(Starts) /\ IsInjective(queue)
  /\ step \in [Starts -> Steps] /\ wanted \subseteq Starts
  /\ held \in BOOLEAN /\ flagged \subseteq Starts /\ heldStartCount \in Int
  /\ reserved \subseteq Starts /\ settled \subseteq Admitted
  /\ overlooked \subseteq Admitted
  /\ {inFlight, liveChildren, lifetime} \subseteq [Parents -> Nat]

(* When the gate lets a start through, there is room for it beside every     *)
(* session it let through before, seen in a reading or not, save those whose *)
(* reservation ran out unseen (CHANGELOG.md:1024: "600 MB for every start in *)
(* the last 30 seconds").                                                    *)
AdmitsWhatFits ==
  [][ \A x \in Starts : step[x] = "probing" /\ step'[x] = "starting"
        => Cardinality(Admitted \ overlooked) < Memory ]_gateVars

(* There is room beside every session let through: fails in the code.  A     *)
(* start that takes longer than its reservation (reaps, the queue of git, a  *)
(* worktree) is counted by nothing when it is over.                          *)
AdmitsWhatFitsAnyhow ==
  [][ \A x \in Starts : step[x] = "probing" /\ step'[x] = "starting"
        => Cardinality(Admitted) < Memory ]_gateVars

(* While a start is counted as held, one really waits: a spawn is not        *)
(* refused for the sake of a start that has left the queue.                  *)
HeldStartsWait ==
  /\ heldStartCount = Cardinality(flagged)
  /\ flagged \subseteq InQueue

(* A parent never has more children than it may, nor more spawns under way,  *)
(* nor more in all its life, though the budget is read before and after the  *)
(* memory is.                                                                *)
BudgetHolds ==
  \A p \in Parents :
    LET count(S) == Cardinality({x \in Spawns : ParentOf[x] = p /\ step[x] \in S})
    IN
    /\ count(Waiting \cup {"starting"}) <= MaxInFlight
    /\ Cardinality({x \in wanted \cap Spawns : ParentOf[x] = p /\
                       step[x] \in Waiting \cup {"starting", "up"}})
         <= MaxLiveChildren
    /\ count(Waiting \cup {"starting", "up", "over"}) <= MaxLifetimeSpawns

\* What is counted is true: the types, HeldStartsWait and BudgetHolds.
CountsHold == TypeOK /\ HeldStartsWait /\ BudgetHolds

(* A resume that nobody wants any more leaves the queue, whether or not      *)
(* there will be memory for it: it holds up those behind it only until the   *)
(* next look at the memory.                                                  *)
UnwantedLeave ==
  \A x \in Resumes : AtHead(x) /\ x \notin wanted ~> ~AtHead(x)

(* What CHANGELOG.md:1025 says of a spawn: it is refused at once "instead of *)
(* waiting silently for memory".                                             *)
SpawnsNeverWait == \A x \in Spawns : step[x] # "sleeping"
=============================================================================
