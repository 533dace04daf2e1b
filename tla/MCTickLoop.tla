----------------------------- MODULE MCTickLoop -----------------------------
(* TickLoop for TLC: the kinds of lane that make a loop.                     *)
EXTENDS TickLoop

\* The issues; the pull requests of the operator and of the team, whose refresh
\* reads first; a lane without a delay, as the loop's defaults have it.
MCLanes ==
  {[quickRetries |-> TRUE,  beforeTick |-> FALSE, delayed |-> TRUE],
   [quickRetries |-> TRUE,  beforeTick |-> TRUE,  delayed |-> TRUE],
   [quickRetries |-> FALSE, beforeTick |-> FALSE, delayed |-> FALSE]}
=============================================================================
