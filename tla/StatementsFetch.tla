--------------------------- MODULE StatementsFetch ---------------------------
(***************************************************************************)
(* One run of scripts/fetch_statements.py over                             *)
(* scripts/ff_financial_statements.py: a request for financial statements, *)
(* one bounded company-wiki child, and the answer of that child or an      *)
(* error.  The child may fetch at a public provider; it works in one step  *)
(* and answers in another, so that it can be stopped in between.           *)
(***************************************************************************)
EXTENDS ConnectionRules, Integers

CONSTANTS
  Invocations,    \* the invocations considered: a subset of AnyInvocation
  Configurations  \* the configuration files considered

\* contract: an object with known fields, the market and lists of known names.
\* "unencodable" is text with a lone surrogate: it passes the rules, and cannot
\* be sent.  period: both ends of "all_history or period_end_from".
StatementRequests ==
  [contract : BOOLEAN, text : {"good", "bad", "unencodable"},
   intent : {"absent", "reuse_only", "fetch_if_missing", "refresh", "bad"},
   limits : {"absent", "good", "bad"}, continuation : {"absent", "good", "bad"},
   period : {"open", "from", "all", "both"}]
AnyInvocation ==
  [timeout : {"good", "bad"}, source : {"read", "unreadable", "not_json", "not_utf8"},
   request : StatementRequests]

VARIABLES
  invocation,    \* the request, where it comes from and the timeout
  configuration, \* the configuration file
  pc,            \* "main", "call" or "done"
  child,         \* the company-wiki child; after the call, the answer that was read
  fetched,       \* the child worked at the provider
  response       \* what main wrote, and its exit code

vars == <<invocation, configuration, pc, child, fetched, response>>

Business == {"complete", "partial", "not_found", "unavailable"}
Refusals == {"request_error", "config_error", "fatal"}
Payloads == Business \cup Refusals \cup {"other_status", "other_schema", "not_json"}
NoChild == [state |-> "none"]
Running == [state |-> "running"]
Answered(exit, payload) == [state |-> "answered", exit |-> exit, payload |-> payload]
NoResponse == [exit |-> -1]
-----------------------------------------------------------------------------
(* The request. *)

IntentReuse(r) == IF r.intent = "absent" THEN "reuse_only" ELSE r.intent
Intent(r) == IF r.intent = "absent" THEN "fetch_if_missing" ELSE r.intent
RequestAccepted(r) ==
  /\ r.contract /\ r.text # "bad" /\ r.intent # "bad" /\ r.continuation # "bad"
  /\ Intent(r) = "reuse_only" => r.continuation = "absent"
  /\ Intent(r) # "reuse_only" => r.limits = "good"
  /\ r.period # "both"

Init ==
  /\ invocation \in Invocations /\ configuration \in Configurations
  /\ pc = "main" /\ child = NoChild /\ fetched = FALSE /\ response = NoResponse

\* Only an error of a FilingFetchError has a retry flag, and the child's exit code
\* when the child has failed.
Respond(exit, status, retryable, with_exit) ==
  /\ pc' = "done"
  /\ response' = [exit |-> exit, status |-> status, retryable |-> retryable, with_exit |-> with_exit]
Typed(code) == Respond(2, code, code = "upstream_error", FALSE)
Escaped == Respond(1, "fatal", FALSE, FALSE)

\* A timeout is refused, and undecodable bytes end main, without an envelope.
ReadInput ==
  /\ pc = "main" /\ response = NoResponse
  /\ \/ invocation.timeout = "bad" /\ Respond(2, "silent", FALSE, FALSE)
     \/ /\ invocation.timeout = "good" /\ invocation.source = "not_utf8"
        /\ Respond(1, "silent", FALSE, FALSE)
     \/ /\ invocation.timeout = "good" /\ invocation.source \in {"unreadable", "not_json"}
        /\ Respond(2, "request_error", FALSE, FALSE)
     \/ /\ invocation.timeout = "good" /\ invocation.source = "read"
        /\ pc' = "call" /\ UNCHANGED response
  /\ UNCHANGED <<invocation, configuration, child, fetched>>

Sendable == invocation.request.text = "good"
Configured == "financial_statements" \in ConfiguredCommands(configuration)
Refuse ==
  /\ pc = "call" /\ child = NoChild
  /\ LET accepted == RequestAccepted(invocation.request)
     IN  \/ ~accepted /\ Typed("request_error")
         \/ accepted /\ ~ConfigAccepted(configuration) /\ Typed("config_error")
         \/ accepted /\ ConfigAccepted(configuration) /\ ~(Configured /\ Sendable) /\ Escaped
  /\ UNCHANGED <<invocation, configuration, child, fetched>>

Invoke ==
  /\ pc = "call" /\ child = NoChild
  /\ RequestAccepted(invocation.request) /\ ConfigAccepted(configuration) /\ Configured /\ Sendable
  /\ child' = Running
  /\ UNCHANGED <<invocation, configuration, pc, fetched, response>>
-----------------------------------------------------------------------------
(* The child. *)

ChildFetches ==
  /\ child = Running /\ invocation.request.intent # "reuse_only" /\ fetched' = TRUE
  /\ UNCHANGED <<invocation, configuration, pc, child, response>>
ChildAnswers ==
  /\ child = Running
  /\ \E exit \in {0, 1}, payload \in Payloads : child' = Answered(exit, payload)
  /\ UNCHANGED <<invocation, configuration, pc, fetched, response>>

\* The transport gives the call up: time, size, start, pipes; or an exception that
\* fetch_statements does not handle.
CallFails ==
  /\ pc = "call" /\ child # NoChild
  /\ Typed("upstream_error") \/ Escaped
  /\ child' = NoChild
  /\ UNCHANGED <<invocation, configuration, fetched>>

\* A child that failed is believed only when it refuses.
ReadableKnown(payload) == payload \in Business \cup Refusals
ReadableRefusal(payload) == payload \in Refusals
AcceptedAny(exit, payload) == ReadableKnown(payload)
Accepted(exit, payload) == IF exit = 0 THEN ReadableKnown(payload) ELSE ReadableRefusal(payload)
ExitOf(status) ==
  IF status \in {"request_error", "config_error"} THEN 2 ELSE IF status = "fatal" THEN 1 ELSE 0
Read ==
  /\ pc = "call" /\ child.state = "answered"
  /\ IF Accepted(child.exit, child.payload)
     THEN Respond(ExitOf(child.payload), child.payload, FALSE, FALSE)
     ELSE Respond(2, "upstream_error", TRUE, child.exit # 0)
  /\ UNCHANGED <<invocation, configuration, child, fetched>>

Done == pc = "done" /\ UNCHANGED vars

Next == ReadInput \/ Refuse \/ Invoke \/ ChildFetches \/ ChildAnswers \/ CallFails \/ Read \/ Done
Spec == Init /\ [][Next]_vars
-----------------------------------------------------------------------------
(* Properties. *)

\* "Business statuses exit 0", and only the status of a child that ended well is
\* one; a refusal of the child keeps "the true status", however the child ended,
\* and is never offered for a retry.
StatementsAnswerTrue ==
  response # NoResponse =>
    /\ response.exit = 0 <=> response.status \in Business
    /\ response.exit = 0 => child = Answered(0, response.status)
    /\ child.state = "answered" /\ child.payload \in Refusals =>
         response.status = child.payload /\ ~response.retryable
    /\ response.with_exit => child.state = "answered" /\ child.exit # 0

\* No child works at the provider without the ceilings of its caller, nor
\* continues a listing that a reuse has not begun.
StatementsWorkBounded ==
  /\ fetched => invocation.request.limits = "good"
  /\ child # NoChild /\ invocation.request.continuation = "good" => invocation.request.limits = "good"
=============================================================================
