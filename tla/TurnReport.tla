----------------------------- MODULE TurnReport -----------------------------
(* What the session may rely on when the status source tells it something:  *)
(* an agent that works or asks is reported at once, an agent that has ended *)
(* its turn only once it has said nothing else for a whole window.          *)
EXTENDS Integers

CONSTANTS
  Window,     \* how long an end must stand
  AtOnce      \* the words that are reported at once

VARIABLES
  now,
  word,       \* the last thing the agent said
  since,      \* since when its last word is the same
  report      \* the last thing that was reported

vars == <<now, word, since, report>>

Init == now = 0 /\ since = 0 /\ word = "none" /\ report = "none"

Say == /\ word' \in AtOnce
       /\ report' = word' /\ since' = now
       /\ UNCHANGED now

EndTurn == /\ word' = "ready"
           /\ since' = IF word = "ready" THEN since ELSE now
           /\ UNCHANGED <<now, report>>

Report == /\ word = "ready" /\ now - since >= Window
          /\ report' = "ready"
          /\ UNCHANGED <<now, word, since>>

\* The conversation starts afresh: nothing that was said before counts.
Forget == /\ word' = "none" /\ report' = "none"
          /\ UNCHANGED <<now, since>>

Time == now' > now /\ UNCHANGED <<word, since, report>>

Next == Say \/ EndTurn \/ Report \/ Forget \/ Time

Spec == Init /\ [][Next]_vars
=============================================================================
