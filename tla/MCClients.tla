------------------------------ MODULE MCClients ------------------------------
(* Every use of the companion, and direct acquisitions; statements requests  *)
(* with every intent, limits and continuation, every kind of input, and      *)
(* configurations that are whole, broken, bare or without the command.       *)
EXTENDS Clients

MCOptions ==
  {o \in AnyOption : o.entry = "direct" => o.intent = "fetch_if_missing" /\ o.provider # "unsupported"}

Root == [readable |-> TRUE, contract |-> TRUE, form |-> "root", place |-> "absolute", commands |-> {}]
MCConfigurations ==
  {Root, [Root EXCEPT !.readable = FALSE], [Root EXCEPT !.contract = FALSE],
   [Root EXCEPT !.place = "token"], [Root EXCEPT !.place = "gone"],
   [Root EXCEPT !.form = "connection", !.commands = {"financial_statements"}],
   [Root EXCEPT !.form = "connection", !.commands = {"catalog"}]}

Fetching == [contract |-> TRUE, text |-> "good", intent |-> "fetch_if_missing", limits |-> "good",
             continuation |-> "absent", period |-> "open"]
MCStatementRequests ==
  {[Fetching EXCEPT !.intent = i, !.limits = l, !.continuation = c] :
     i \in {"absent", "reuse_only", "fetch_if_missing", "refresh", "bad"},
     l \in {"absent", "good", "bad"}, c \in {"absent", "good", "bad"}}
  \cup {[Fetching EXCEPT !.contract = FALSE], [Fetching EXCEPT !.text = "bad"],
        [Fetching EXCEPT !.text = "unencodable"], [Fetching EXCEPT !.period = "both"],
        [Fetching EXCEPT !.period = "all"]}
MCInvocations ==
  {[timeout |-> "good", source |-> "read", request |-> r] : r \in MCStatementRequests}
  \cup {[timeout |-> "bad", source |-> "read", request |-> Fetching]}
  \cup {[timeout |-> "good", source |-> s, request |-> Fetching] :
          s \in {"unreadable", "not_json", "not_utf8"}}

\* The client that is not run stays where it starts: one start is enough.
Unused ==
  \/ client = "statements" /\ option = (CHOOSE o \in Options : TRUE) /\ ~late /\ catalog = Missing
  \/ client = "transcript" /\ invocation = (CHOOSE i \in Invocations : TRUE) /\ configuration = Root
MCInit == ClientsInit /\ Unused
MCSpec == MCInit /\ [][ClientsNext]_clientsVars
=============================================================================
