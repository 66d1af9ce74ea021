----------------------------- MODULE BoundedCall -----------------------------
(***************************************************************************)
(* What run_bounded promises its callers, without its threads: a call goes *)
(* from "called" to "running" to "returned", returns exactly once, and a   *)
(* call that returns one of the clean outcomes has nothing at work any     *)
(* more, then or later.  Whoever composes with the transport relies on     *)
(* this and on nothing else.                                               *)
(***************************************************************************)
CONSTANTS
  Workers,       \* the processes and threads a call may put to work
  Outcomes,      \* every result or exception a call may return
  CleanOutcomes  \* those that promise that nothing was left behind

VARIABLES
  phase,   \* "called", "running" or "returned"
  result,  \* what the call returned, "none" before that
  busy     \* the workers that are at work

callVars == <<phase, result, busy>>

Init == phase = "called" /\ result = "none" /\ busy = {}

\* The child starts; workers come and go while the call runs.
Work ==
  /\ phase \in {"called", "running"}
  /\ phase' = "running"
  /\ busy' \in SUBSET Workers
  /\ UNCHANGED result

Return ==
  /\ phase \in {"called", "running"}
  /\ phase' = "returned"
  /\ result' \in Outcomes
  /\ busy' \in SUBSET Workers
  /\ result' \in CleanOutcomes => busy' = {}

\* Only a call that reported that it could not clean up has leftovers.
Leftovers ==
  /\ phase = "returned" /\ result \notin CleanOutcomes
  /\ busy' \in SUBSET Workers
  /\ UNCHANGED <<phase, result>>

Next == Work \/ Return \/ Leftovers

Spec == Init /\ [][Next]_callVars
=============================================================================
