------------------------------- MODULE Clients -------------------------------
(***************************************************************************)
(* The two clients of company-wiki next to the filing request: a process   *)
(* runs the companion transcript (TranscriptCompanion) or the statements   *)
(* client (StatementsFetch).  They share no state; whichever a process     *)
(* runs, it takes the steps of that client and of no other.                *)
(***************************************************************************)
EXTENDS TranscriptCompanion, ConnectionRules

CONSTANTS Invocations, Configurations \* of the statements client

VARIABLES
  client, \* "transcript" or "statements": which script the process runs
  invocation, configuration, s_pc, s_child, fetched, s_response \* of the statements client

statementsVars == <<invocation, configuration, s_pc, s_child, fetched, s_response>>
clientsVars == <<client, vars, statementsVars>>

Statements == INSTANCE StatementsFetch WITH pc <- s_pc, child <- s_child, response <- s_response

ClientsInit == client \in {"transcript", "statements"} /\ Init /\ Statements!Init
ClientsNext ==
  \/ client = "transcript" /\ Next /\ UNCHANGED <<client, statementsVars>>
  \/ client = "statements" /\ Statements!Next /\ UNCHANGED <<client, vars>>
ClientsSpec == ClientsInit /\ [][ClientsNext]_clientsVars
-----------------------------------------------------------------------------
(* Properties: those of StatementsFetch, of a process that may run either. *)

\* "Business statuses exit 0", of a child that ended well and no other.
StatementsAnswerTrue == Statements!StatementsAnswerTrue

\* No child works at the provider without the ceilings of its caller.
StatementsWorkBounded == Statements!StatementsWorkBounded
=============================================================================
