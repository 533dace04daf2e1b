---------------------------- MODULE StatusSource ----------------------------
(* The arbiter between the agent's hooks and its terminal title             *)
(* (src/detection/status-source.ts).  A signal of work or of a question is  *)
(* resolved as it arrives; a signal that the turn has ended is held for the *)
(* conflict window, and anything but another such signal cancels it.        *)
(*                                                                          *)
(* Times are counted in ticks of a clock that stops at a horizon; a timer   *)
(* fires at its time or, when the server is busy, at any moment after it.   *)
EXTENDS Integers

CONSTANTS
  ConflictWindow,
  DedupWindow,
  MaxPark,       \* how old a parked question may be when it is ingested
  LastInput,     \* bound on the time of the last input
  Horizon,       \* bound on the time
  Nothing        \* null

VARIABLES
  now,
  pending,       \* the ready on hold: its confidence, time and timer
  last,          \* _last
  destroyed,
  \* history
  heard,         \* the last word of the agent, of those that say how it is
  since,         \* since when it is the same
  told,          \* the last of them that was emitted
  hookEnded,     \* an authoritative ready was heard since it said another
  hookEndTold    \* and emitted

history == <<heard, since, told, hookEnded, hookEndTold>>
vars == <<now, pending, last, destroyed, history>>

Confidences == {"low", "high"}
Activity    == {"working", "resume"}
Words       == Activity \cup {"awaiting-input", "ready"}
Immediate   == Activity \cup {"awaiting-input", "session-start", "session-end"}

\* What the hooks, the title and the agent's own requests send here: the title
\* is of low confidence, and so is the hook that finds the prompt idle.
Inputs ==
  (Immediate \X {"high"})
    \cup ({"working", "awaiting-input", "ready"} \X {"low"})
    \cup {<<"ready", "high">>}

Readies  == [confidence : Confidences, ts : Nat, due : Nat]
Statuses == [signal : Immediate \cup {"ready"}, confidence : Confidences,
             ts : Nat]

ASSUME WindowsAssumption ==
  {ConflictWindow, DedupWindow, MaxPark, LastInput, Horizon} \subseteq Nat
ASSUME NothingAssumption == Nothing \notin Readies \cup Statuses

Init ==
  /\ now = 0 /\ pending = Nothing /\ last = Nothing /\ destroyed = FALSE
  /\ heard = "none" /\ since = 0 /\ told = "none"
  /\ hookEnded = FALSE /\ hookEndTold = FALSE

-----------------------------------------------------------------------------

\* isRapidDuplicate && !isHigherConfidence
Repeats(signal, confidence, ts) ==
  /\ last # Nothing
  /\ last.signal = signal /\ ts - last.ts < DedupWindow
  /\ ~(confidence = "high" /\ last.confidence = "low")

\* _resolve: what is not a repeat is emitted.
Resolve(signal, confidence, ts) ==
  \/ /\ Repeats(signal, confidence, ts)
     /\ UNCHANGED <<last, told>>
  \/ /\ ~Repeats(signal, confidence, ts)
     /\ last' = [signal |-> signal, confidence |-> confidence, ts |-> ts]
     /\ told' = IF signal \in Words THEN signal ELSE told

\* Mutant: only work cancels an end on hold.
CancelsWorkOnly(signal) == signal \in Activity

\* The signals that cancel a ready on hold.
Cancels(signal) == signal \in Activity \cup {"awaiting-input"}

\* ingest of any signal but ready.
HearNow(signal, confidence, ts) ==
  /\ signal \in Immediate
  /\ pending' = IF Cancels(signal) THEN Nothing ELSE pending
  /\ Resolve(signal, confidence, ts)
  /\ IF signal \in Words
       THEN /\ heard' = signal /\ since' = now
            /\ hookEnded' = FALSE /\ hookEndTold' = FALSE
       ELSE UNCHANGED <<heard, since, hookEnded, hookEndTold>>

\* Mutant: a surer ready that joins is not heard.
JoinedUnheard(confidence) == pending

\* A ready on hold that a surer one joins takes its confidence and its time,
\* and keeps its timer.
Joined(confidence) ==
  IF confidence = "high" /\ pending.confidence # "high"
    THEN [pending EXCEPT !.confidence = confidence, !.ts = now] ELSE pending

\* ingest of ready.
HearReady(confidence) ==
  /\ pending' = IF pending # Nothing THEN Joined(confidence)
                ELSE [confidence |-> confidence, ts |-> now,
                      due |-> now + ConflictWindow]
  /\ heard' = "ready"
  /\ since' = IF heard = "ready" THEN since ELSE now
  /\ hookEnded' = (hookEnded \/ confidence = "high")
  /\ UNCHANGED <<last, told, hookEndTold>>

\* A question may have been parked while its answer was sought.
Stamps(signal) ==
  IF signal = "awaiting-input" THEN Nat \cap ((now - MaxPark)..now) ELSE {now}

\* Mutant: a destroyed source still listens.
ListensAlways == now <= LastInput

Listens == ~destroyed /\ now <= LastInput

Ingest ==
  /\ Listens
  /\ \E input \in Inputs :
       \/ input[1] = "ready" /\ HearReady(input[2])
       \/ \E ts \in Stamps(input[1]) : HearNow(input[1], input[2], ts)
  /\ UNCHANGED <<now, destroyed>>

\* The timer of the ready on hold.
PendingReadyFires ==
  /\ pending # Nothing /\ now >= pending.due
  /\ pending' = Nothing
  /\ Resolve("ready", pending.confidence, pending.ts)
  /\ hookEndTold' = (hookEndTold \/ ( /\ pending.confidence = "high"
                                      /\ ~Repeats("ready", "high", pending.ts)))
  /\ UNCHANGED <<now, destroyed, heard, since, hookEnded>>

\* Mutant: the last signal outlives a reset.
ResetPendingOnly ==
  /\ now <= LastInput
  /\ pending' = Nothing
  /\ heard' = "none" /\ told' = "none"
  /\ hookEnded' = FALSE /\ hookEndTold' = FALSE
  /\ UNCHANGED <<now, last, destroyed, since>>

\* reset(): a clear or a compaction starts the conversation afresh.
Reset ==
  /\ now <= LastInput
  /\ pending' = Nothing /\ last' = Nothing
  /\ heard' = "none" /\ told' = "none"
  /\ hookEnded' = FALSE /\ hookEndTold' = FALSE
  /\ UNCHANGED <<now, destroyed, since>>

Destroy ==
  /\ ~destroyed /\ destroyed' = TRUE
  /\ pending' = Nothing
  /\ UNCHANGED <<now, last, history>>

Tick == /\ now < Horizon /\ now' = now + 1
        /\ UNCHANGED <<pending, last, destroyed, history>>

Next == Ingest \/ PendingReadyFires \/ Reset \/ Destroy \/ Tick

Spec == Init /\ [][Next]_vars

\* Time passes and timers fire.
Fairness == WF_vars(Tick) /\ WF_vars(PendingReadyFires)

FairSpec == Spec /\ Fairness

-----------------------------------------------------------------------------
(* Properties *)

TypeOK ==
  /\ now \in 0..Horizon /\ since \in 0..Horizon
  /\ pending \in Readies \cup {Nothing}
  /\ last \in Statuses \cup {Nothing}
  /\ {heard, told} \subseteq Words \cup {"none"}
  /\ {destroyed, hookEnded, hookEndTold} \subseteq BOOLEAN
  /\ destroyed => pending = Nothing

Turn == INSTANCE TurnReport
  WITH word <- heard, report <- told, Window <- ConflictWindow,
       AtOnce <- Words \ {"ready"}

\* Every question and every sign of work is told the session at once, and an
\* end of turn only after a conflict window in which the agent said nothing
\* else: a question that races the end of a turn is never told as finished.
ReportsTurns == Turn!Spec

\* A hook wins any conflict: once nothing is on hold, the end of a turn that a
\* hook vouched for has been told with its confidence, even when the title or
\* the idle prompt told of it first.
HookWins == pending = Nothing /\ ~destroyed => (hookEnded => hookEndTold)

\* The last word of the agent is told in the end: neither the de-duplication
\* nor an end that was cancelled or repeated leaves the session with another.
LastWordTold == (heard = "ready") ~> (told = heard \/ destroyed)
=============================================================================
