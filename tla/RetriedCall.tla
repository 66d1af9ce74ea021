----------------------------- MODULE RetriedCall -----------------------------
(***************************************************************************)
(* What _run_company_wiki_json_retry of scripts/fetch_filing.py promises a *)
(* request, without its clock, its backoffs and the catalog lock: calls    *)
(* follow each other one at a time, each but the last met contention, the  *)
(* last one answers for the request, and a request that gives up instead   *)
(* is told of the latest contention.  FilingFetch has the loop in this     *)
(* form: repeated calls, and whether one of them was contended.            *)
(***************************************************************************)
CONSTANTS
  Clients,      \* requests, one call at a time each
  Contentions,  \* the causes of a call that is worth another
  NoContention, \* there was none yet
  Answers,      \* the results of every other call
  NoAnswer,     \* there is none yet
  GaveUp        \* what a request is told instead, by its latest contention or NoContention

VARIABLES
  phase,       \* "between" calls, "calling" or "over"
  contention,  \* the latest contention
  result       \* what the request is told

callVars == <<phase, contention, result>>

Init ==
  /\ phase = [c \in Clients |-> "between"]
  /\ contention = [c \in Clients |-> NoContention]
  /\ result = [c \in Clients |-> NoAnswer]

Call(c) ==
  /\ phase[c] = "between" /\ phase' = [phase EXCEPT ![c] = "calling"]
  /\ UNCHANGED <<contention, result>>

Contend(c) ==
  /\ phase[c] = "calling" /\ phase' = [phase EXCEPT ![c] = "between"]
  /\ contention'[c] \in Contentions
  /\ contention' = [contention EXCEPT ![c] = contention'[c]]
  /\ UNCHANGED result

Tell(c) ==
  /\ phase' = [phase EXCEPT ![c] = "over"]
  /\ result' = [result EXCEPT ![c] = result'[c]]
  /\ UNCHANGED contention

Answer(c) == phase[c] = "calling" /\ Tell(c) /\ result'[c] \in Answers
GiveUp(c) == phase[c] = "between" /\ Tell(c) /\ result'[c] = GaveUp[contention[c]]

Next == \E c \in Clients : Call(c) \/ Contend(c) \/ Answer(c) \/ GiveUp(c)

Spec == Init /\ [][Next]_callVars
=============================================================================
