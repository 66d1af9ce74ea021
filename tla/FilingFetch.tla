----------------------------- MODULE FilingFetch -----------------------------
(***************************************************************************)
(* One filing-fetch request from stdin to its response: scripts/           *)
(* fetch_filing.py main and resolve_filing, with the local preparation of  *)
(* scripts/ff_local_source_prepare.py, the companion transcript as a part  *)
(* of the same response and the envelopes of scripts/ff_v2_envelope.py.    *)
(* A company-wiki call works on the catalog in one step and answers in     *)
(* another, so that it can be killed, or its answer lost, in between.      *)
(* The retry loop of CatalogRetry appears as repeated calls; the shared    *)
(* deadline as the moment after which no call is started.  Which requests, *)
(* configurations and candidates are accepted is in the three modules of   *)
(* rules.                                                                  *)
(***************************************************************************)
EXTENDS SourceFailure, TranscriptResult, RequestRules, CandidateRules, ConnectionRules, Integers

CONSTANTS
  Requests,       \* the requests considered: images of raw requests
  Configurations, \* the configuration files considered
  Candidates,     \* the candidates that company-wiki may answer with
  CallCap         \* bound: where the counters of calls stop

ASSUME FetchAssumption ==
  /\ \A r \in Requests : r.raw \in RawRequests /\ r = Request(r.raw)
  /\ Configurations \subseteq AnyConfiguration
  /\ Candidates \subseteq AnyCandidate
  /\ CallCap \in Nat \ {0}

VARIABLES
  request,    \* the caller's request
  configuration, \* the configuration file
  pc,         \* the call or the part of main that is next
  prepared,   \* the local preparation was made
  contended,  \* the loop around the present call has met contention
  child,      \* the company-wiki child of the present call
  late,       \* the shared deadline has passed
  stats,      \* {"calls", "downloads"}
  handle,     \* what resolve_filing returned
  error,      \* the exception on its way to main
  transcript, \* what _resolve_v2_companion returned
  response,   \* what main wrote, and its exit code
  catalog,    \* of the source asked for: "absent", "local" (a file that the
              \*   catalog does not know) or "registered"
  invoked,    \* company-wiki calls made for this request
  commits,    \* downloads its children committed
  wrote,      \* its children wrote to the catalog
  receipt,    \* download events of the last answer that was delivered
  missing     \* the source was absent at some time

mainVars  == <<handle, error, transcript, response>>
ghostVars == <<invoked, commits, wrote, receipt>>
worldVars == <<catalog, missing>>
vars == <<request, configuration, pc, prepared, contended, child, late, stats,
          mainVars, ghostVars, worldVars>>

Idle == [state |-> "idle"]
Running(op) == [state |-> "running", op |-> op]
Answered(op, answer, events) ==
  [state |-> "answered", op |-> op, answer |-> answer, events |-> events]
NoHandle == [kind |-> "none", events |-> 0]
\* The document that the caller will open, and whether its company was named.
Candidate(events, filing, named) ==
  [kind |-> "candidate", events |-> events, filing |-> filing, named |-> named]
Gap == [kind |-> "gap", events |-> 0]
NoError == [code |-> "none", cause |-> NoCause]
FetchError(code, cause) == [code |-> code, cause |-> cause]
\* An exception that is not a FilingFetchError.
Escaped == [code |-> "escaped", cause |-> NoCause]
NoResponse == [exit |-> -1]

Calls == {"identify", "query", "local_prepare", "ensure", "resolve"}
Retrying == {"identify", "ensure", "resolve"}
Answers == Statuses \cup {"resolved", "unresolved", "found", "ready", "gap"}
ErrorCodes == {"none", "escaped", "request_error", "config_error", "identity_error",
               "not_found", "ambiguous", "source_blocked", "upstream_error",
               "fatal", "worker_paused"}
Bump(n, k) == IF n + k > CallCap THEN CallCap ELSE n + k
-----------------------------------------------------------------------------
(* The routes. *)

Pathless(r) == r.source_ref_v2 \/ r.version = 2
AcquiresLatest(r) == r.download \/ r.latest
\* Only a download intent puts --allow-download on an ensure command.
Acquires(r) == r.download
QueryRoute(r) == Pathless(r) /\ ~r.download /\ ~r.latest
SourceCall(r) == IF QueryRoute(r) THEN "query"
                 ELSE IF Pathless(r) \/ r.download \/ r.latest THEN "ensure" ELSE "resolve"
PreparesFlagged(r) == r.source_ref_v2
\* The reuse-only miss of a v2 request that looks for the file locally.
Prepares(r) == r.version = 2 /\ ~r.download

Init ==
  /\ request \in Requests /\ configuration \in Configurations
  /\ pc = "main" /\ prepared = FALSE /\ contended = FALSE /\ child = Idle /\ late = FALSE
  /\ stats = [calls |-> 0, downloads |-> 0]
  /\ handle = NoHandle /\ error = NoError /\ transcript = "none" /\ response = NoResponse
  /\ catalog \in {"absent", "local", "registered"}
  /\ missing = (catalog = "absent")
  /\ invoked = 0 /\ commits = 0 /\ wrote = FALSE /\ receipt = 0

Raise(e) == pc' = "except" /\ error' = e /\ UNCHANGED <<handle, transcript, response>>
GoTo(step) == pc' = step /\ UNCHANGED mainVars
Configured(command) == command \in ConfiguredCommands(configuration)

\* Everything before the first call: the request, the deadline, the configuration.
Accept ==
  /\ pc = "main"
  /\ \/ request.verdict = "refused" /\ Raise(FetchError("request_error", NoCause))
     \/ request.verdict = "raises" /\ Raise(Escaped)
     \/ request.verdict = "accepted" /\ late /\ Raise(FetchError("upstream_error", NoCause))
     \/ /\ request.verdict = "accepted" /\ ~late /\ ~ConfigAccepted(configuration)
        /\ Raise(FetchError("config_error", NoCause))
     \/ /\ request.verdict = "accepted" /\ ~late /\ ConfigAccepted(configuration)
        /\ IF Configured("catalog") THEN GoTo("identify") ELSE Raise(Escaped)
  /\ UNCHANGED <<request, configuration, prepared, contended, child, late, stats, ghostVars, worldVars>>
-----------------------------------------------------------------------------
(* A company-wiki call. *)

OutOfTimeOnce(op) == late /\ ~contended
OutOfTime(op) == late
NeedsCommand(op) == IF op \in Retrying THEN "catalog" ELSE op

\* No time left: the loop names the contention it met, the query that nothing was
\* started, the local preparation nothing.
TooLateCause(op) ==
  IF op = "local_prepare" THEN {NoCause}
  ELSE IF contended
       THEN {DiagnoseCause(op, t, NoReceipt) : t \in {s \in StderrTypes : DiagnoseCode(s) \in RetryCodes}}
       ELSE {NotStartedCause(op)}
TooLate(op) ==
  /\ pc = op /\ child = Idle /\ OutOfTime(op)
  /\ \E cause \in TooLateCause(op) : Raise(FetchError("upstream_error", cause))
  /\ UNCHANGED <<request, configuration, prepared, contended, child, late, stats, ghostVars, worldVars>>

CountedUnlessLocal(op) == IF op = "local_prepare" THEN stats.calls ELSE Bump(stats.calls, 1)
Counted(op) == Bump(stats.calls, 1)
Invoke(op) ==
  /\ pc = op /\ child = Idle /\ ~OutOfTime(op)
  /\ IF Configured(NeedsCommand(op))
     THEN /\ child' = Running(op)
          /\ stats' = [stats EXCEPT !.calls = Counted(op)]
          /\ invoked' = Bump(invoked, 1)
          /\ UNCHANGED <<pc, mainVars>>
     ELSE Raise(Escaped) /\ UNCHANGED <<child, stats, invoked>>
  /\ UNCHANGED <<request, configuration, prepared, contended, late, commits, wrote, receipt, worldVars>>

Answer(op, answer, events) == child' = Answered(op, answer, events)
Registers == catalog' = "registered" /\ wrote' = TRUE

\* The child looks at the catalog, writes what its command may, and answers.
ChildIdentifies ==
  /\ child = Running("identify")
  /\ \E a \in {"resolved", "unresolved"} : Answer("identify", a, 0)
  /\ UNCHANGED <<catalog, commits, wrote>>

ChildLooks ==
  /\ child.state = "running" /\ child.op \in {"query", "resolve"}
  /\ Answer(child.op, IF catalog = "registered" THEN "found" ELSE "not_found", 0)
  /\ UNCHANGED <<catalog, commits, wrote>>

ChildPrepares ==
  /\ child = Running("local_prepare")
  /\ \/ catalog = "absent" /\ Answer("local_prepare", "not_found", 0) /\ UNCHANGED <<catalog, wrote>>
     \/ catalog = "local" /\ Answer("local_prepare", "ready", 0) /\ Registers
     \/ catalog = "registered" /\ Answer("local_prepare", "ready", 0) /\ UNCHANGED <<catalog, wrote>>
  /\ UNCHANGED commits

\* Only a pathless answer must state its download; a legacy one may have no envelope,
\* and leaves the count where it was.
EventsStated == IF Pathless(request) THEN {1} ELSE {0, 1}
ChildEnsures ==
  /\ child = Running("ensure")
  /\ \/ catalog = "registered" /\ Answer("ensure", "found", 0) /\ UNCHANGED <<catalog, commits, wrote>>
     \/ catalog = "local" /\ Answer("ensure", "found", 0) /\ Registers /\ UNCHANGED commits
     \/ catalog = "absent" /\ Acquires(request)
        /\ \E stated \in EventsStated : Answer("ensure", "found", stated)
        /\ Registers /\ commits' = Bump(commits, 1)
     \/ catalog = "absent" /\ Answer("ensure", "gap", 0) /\ UNCHANGED <<catalog, commits, wrote>>

ChildRefuses ==
  /\ child.state = "running" /\ child.op # "identify"
  /\ \E s \in Statuses \ {"not_found"} : Answer(child.op, s, 0)
  /\ UNCHANGED <<catalog, commits, wrote>>

ChildWorks ==
  /\ ChildIdentifies \/ ChildLooks \/ ChildPrepares \/ ChildEnsures \/ ChildRefuses
  /\ UNCHANGED <<request, configuration, pc, prepared, contended, late, stats, mainVars, invoked, receipt, missing>>
-----------------------------------------------------------------------------
(* The call returns, with the child's work done or not. *)

\* What the call raises when no answer can be used: the stderr of a child that
\* failed, or a condition of the transport.  OSError loses its retry scope.
Failures(op) ==
  IF op \in Retrying
  THEN {FetchError(DiagnoseCode(t), DiagnoseCause(op, t, NoReceipt)) :
          t \in {s \in StderrTypes : DiagnoseCode(s) \notin RetryCodes}}
       \cup {FetchError(Condition[c][1], ConditionCause(op, c)) : c \in Conditions}
       \cup {FetchError("fatal", [ConditionCause(op, "producer_transport_failure")
                                    EXCEPT !.retry_scope = "none"])}
  ELSE {FetchError("upstream_error", ConditionCause(op, c)) : c \in Conditions}

CallFails(op) ==
  /\ pc = op /\ child.state # "idle"
  /\ \/ \E e \in Failures(op) :
          /\ e.cause.code = "producer_start_failed" => child.state = "running"
          /\ e.cause.code = "producer_deadline_exceeded" => late
          /\ Raise(e)
     \/ Raise(Escaped)
  /\ child' = Idle
  /\ UNCHANGED <<request, configuration, prepared, contended, late, stats, ghostVars, worldVars>>

Contended(op) ==
  /\ pc = op /\ op \in Retrying /\ child.state # "idle"
  /\ contended' = TRUE /\ child' = Idle
  /\ UNCHANGED <<request, configuration, pc, prepared, late, stats, mainVars, ghostVars, worldVars>>

\* An answer was delivered, and its call is over.
Consumed ==
  /\ child' = Idle /\ receipt' = child.events /\ contended' = FALSE
  /\ UNCHANGED <<request, configuration, late, invoked, commits, wrote, worldVars>>

\* The payload is not JSON or its schema is unknown: nothing of it is read.
UnreadableErrors(op) ==
  {FetchError(code, cause) :
     code \in IF op = "identify" THEN {"fatal", "identity_error"}
              ELSE IF op \in Retrying THEN {"fatal", "upstream_error"} ELSE {"upstream_error"},
     cause \in {NoCause, SourceCondition(op, "invalid_producer_schema")}}
Unreadable(op) ==
  /\ pc = op /\ child.state = "answered"
  /\ \E e \in UnreadableErrors(op) : Raise(e)
  /\ child' = Idle
  /\ UNCHANGED <<request, configuration, prepared, contended, late, stats, ghostVars, worldVars>>

\* The candidate of a readable answer: a pathless one is held against the request
\* field by field, a legacy one is opened here and only dated.  Only a query has no
\* receipt of downloads.
Usable(c) ==
  /\ QueryRoute(request) \/ ReceiptAccepted(c)
  /\ IF Pathless(request) THEN CandidateAccepted(request, c) ELSE LegacyHandleAccepted(c)
Opened(c) == IF Pathless(request) THEN c.ref ELSE c.own

\* It is refused before its download events are recorded.
RejectionCode(c) ==
  IF ~Pathless(request) /\ ~c.capture_ready THEN "not_found" ELSE "upstream_error"
Rejected(op) ==
  /\ pc = op /\ child.state = "answered" /\ child.answer = "found"
  /\ \E c \in Candidates : ~Usable(c) /\ Raise(FetchError(RejectionCode(c), NoCause))
  /\ Consumed
  /\ UNCHANGED <<prepared, stats>>

\* A legacy call knows only "not reusable".  The cause is that of an answer without
\* receipt and local preparation; CatalogRetry has the others.
LegacyRefusal(op) == op \in {"ensure", "resolve"} /\ ~Pathless(request)
Refusal(op, status) ==
  IF LegacyRefusal(op) THEN FetchError("not_found", SourceCondition(op, "source_not_found"))
  ELSE FetchError(RefusalCode(status), SourceCondition(op, Reason(status)))

\* A read-only miss of a v2 request has the local files prepared, once.
PreparesOn(op, status) == op = "query" /\ status = "not_found" /\ Prepares(request) /\ ~prepared
Refused(op) ==
  /\ pc = op /\ child.state = "answered" /\ child.answer \in Statuses
  /\ IF PreparesOn(op, child.answer) THEN GoTo("local_prepare") ELSE Raise(Refusal(op, child.answer))
  /\ Consumed
  /\ UNCHANGED <<prepared, stats>>

Identified ==
  /\ pc = "identify" /\ child.state = "answered"
  /\ \/ child.answer = "resolved" /\ GoTo(SourceCall(request))
     \/ child.answer = "unresolved" /\ Raise(FetchError("identity_error", NoCause))
  /\ Consumed
  /\ UNCHANGED <<prepared, stats>>

Prepared ==
  /\ pc = "local_prepare" /\ child.state = "answered" /\ child.answer = "ready"
  /\ GoTo("query") /\ prepared' = TRUE
  /\ Consumed
  /\ UNCHANGED stats

AfterSource(r) == IF r.version = 2 THEN "companion" ELSE "output"
Return(h, downloads) ==
  /\ pc' = AfterSource(request) /\ handle' = h
  /\ stats' = [stats EXCEPT !.downloads = downloads]
  /\ UNCHANGED <<error, transcript, response, prepared>>

\* _record_download_events: the query route never downloads and records nothing.
RecordIntent(op, events) == IF Acquires(request) THEN 1 ELSE events
Record(op, events) == IF op = "query" THEN stats.downloads ELSE events
Found(op) ==
  /\ pc = op /\ child.state = "answered"
  /\ \/ /\ child.answer = "found"
        /\ \E c \in Candidates : Usable(c) /\
             Return(Candidate(child.events, Opened(c), c.says_company), Record(op, child.events))
     \/ child.answer = "gap" /\ Return(Gap, 0)
  /\ Consumed

CallReturns(op) == CallFails(op) \/ Contended(op) \/ Unreadable(op) \/ Rejected(op)
                   \/ Refused(op) \/ Found(op)
-----------------------------------------------------------------------------
(* The companion transcript of a v2 response: another part of the same     *)
(* answer, which never changes the filing's: TranscriptCompanion, whose    *)
(* calls are counted after it returned.                                    *)

Intent(r) == IF r.companion = "fetch" THEN "fetch_if_missing" ELSE "reuse_only"
AsksUnfiled(r) == r.companion \in {"reuse", "fetch"}
Asks(r) == r.companion \in {"reuse", "fetch"} /\ handle.kind = "candidate"
NotAsked ==
  IF handle.kind = "gap" THEN "not_applicable"
  ELSE IF request.companion = "none" THEN "not_requested" ELSE "period_unresolved"

SkipCompanion ==
  /\ pc = "companion" /\ ~Asks(request)
  /\ transcript' = NotAsked /\ pc' = "output"
  /\ UNCHANGED <<request, configuration, prepared, contended, child, late, stats, handle, error, response,
                 ghostVars, worldVars>>

\* A call that the deadline stopped is counted all the same.
ResolveCompanion ==
  /\ pc = "companion" /\ Asks(request)
  /\ \E n \in 0..CompanionCalls, stopped \in 0..1, t \in CompanionStatuses(Intent(request)) :
       /\ stopped = 1 => late /\ n > 0
       /\ transcript' = t
       /\ stats' = [stats EXCEPT !.calls = Bump(@, n)]
       /\ invoked' = Bump(invoked, n - stopped)
  /\ pc' = "output"
  /\ UNCHANGED <<request, configuration, prepared, contended, child, late, handle, error, response,
                 commits, wrote, receipt, worldVars>>

\* Its configuration or its tool is not there: an exception before its first call.
CompanionRaises ==
  /\ pc = "companion" /\ Asks(request)
  /\ transcript' = "upstream_error" /\ pc' = "output"
  /\ UNCHANGED <<request, configuration, prepared, contended, child, late, stats, handle, error, response,
                 ghostVars, worldVars>>
-----------------------------------------------------------------------------
(* The response. *)

\* Of a request that failed before its companion was dispatched.
UndispatchedOption(r) == IF r.version = 1 THEN "none" ELSE r.companion
Undispatched(r) ==
  IF r.version = 1 THEN "none"
  ELSE CASE r.companion = "none" -> "not_requested" [] r.companion = "invalid" -> "invalid"
         [] r.companion = "unresolved" -> "period_unresolved" [] OTHER -> "not_run"

\* Only v2 envelopes, v1 successes and v1 errors that are FilingFetchErrors
\* have the counts.
RespondedCounts(counted) == IF counted THEN stats ELSE [calls |-> -1, downloads |-> -1]

Output ==
  /\ pc = "output" /\ pc' = "done"
  /\ response' =
       [exit |-> 0,
        status |-> IF handle.kind = "gap" THEN "gap"
                   ELSE IF request.version = 2 THEN "source_candidate" ELSE "capture_ready",
        counts |-> RespondedCounts(request.version = 2 \/ handle.kind = "candidate"),
        retryable |-> FALSE, cause |-> NoCause, transcript |-> transcript]
  /\ UNCHANGED <<request, configuration, prepared, contended, child, late, stats, handle, error, transcript,
                 ghostVars, worldVars>>

Except ==
  /\ pc = "except" /\ pc' = "done"
  /\ LET typed == error # Escaped
     IN  response' =
           [exit |-> IF typed THEN 2 ELSE 1,
            status |-> IF typed THEN error.code ELSE "fatal",
            counts |-> RespondedCounts(request.version = 2 \/ typed),
            retryable |-> typed /\ Retryable(error.code),
            cause |-> error.cause, transcript |-> Undispatched(request)]
  /\ UNCHANGED <<request, configuration, prepared, contended, child, late, stats, handle, error, transcript,
                 ghostVars, worldVars>>

Main == Accept \/ SkipCompanion \/ ResolveCompanion \/ CompanionRaises \/ Output \/ Except
Call == \E op \in Calls : TooLate(op) \/ Invoke(op)
Returns == Identified \/ Prepared \/ \E op \in Calls : CallReturns(op)

\* Time, and the other processes that work on the same catalog.
Expire ==
  /\ ~late /\ late' = TRUE
  /\ UNCHANGED <<request, configuration, pc, prepared, contended, child, stats, mainVars, ghostVars, worldVars>>
OthersWork ==
  /\ \/ catalog = "absent" /\ catalog' \in {"local", "registered"}
     \/ catalog = "local" /\ catalog' \in {"absent", "registered"}
  /\ missing' = (missing \/ catalog' = "absent")
  /\ UNCHANGED <<request, configuration, pc, prepared, contended, child, late, stats, mainVars, ghostVars>>
Done == pc = "done" /\ UNCHANGED vars

Next == Main \/ Call \/ Returns \/ ChildWorks \/ Expire \/ OthersWork \/ Done

\* The process is scheduled, a call returns (ProcessTransport) and the deadline
\* comes.  Nothing is assumed of company-wiki.
Fairness == WF_vars(Main \/ Call) /\ WF_vars(Returns) /\ WF_vars(Expire)

Spec == Init /\ [][Next]_vars /\ Fairness
-----------------------------------------------------------------------------
(* Properties. *)

Dispatched == CompanionStatuses("fetch_if_missing")
Transcripts == Dispatched \cup {"none", "not_requested", "period_unresolved", "not_applicable"}
Outcomes ==
  [exit : 0..2, status : (ErrorCodes \ {"none", "escaped"}) \cup {"gap", "source_candidate", "capture_ready"},
   counts : [calls : {-1} \cup 0..CallCap, downloads : {-1, 0, 1}],
   retryable : BOOLEAN, cause : Causes \cup {NoCause},
   transcript : Transcripts \cup {"not_run", "invalid"}]

TypeOK ==
  /\ request \in Requests /\ configuration \in Configurations
  /\ pc \in Calls \cup {"main", "companion", "output", "except", "done"}
  /\ prepared \in BOOLEAN /\ contended \in BOOLEAN /\ late \in BOOLEAN
  /\ child \in {Idle} \cup {Running(op) : op \in Calls}
               \cup {Answered(op, a, n) : op \in Calls, a \in Answers, n \in 0..1}
  /\ stats \in [calls : 0..CallCap, downloads : 0..1]
  /\ handle \in {NoHandle, Gap} \cup {Candidate(n, d, b) : n \in 0..1, d \in Documents, b \in BOOLEAN}
  /\ error \in [code : ErrorCodes, cause : Causes \cup {NoCause}]
  /\ transcript \in Transcripts
  /\ response \in Outcomes \cup {NoResponse}
  /\ catalog \in {"absent", "local", "registered"}
  /\ invoked \in 0..CallCap /\ commits \in 0..CallCap /\ wrote \in BOOLEAN
  /\ receipt \in 0..1 /\ missing \in BOOLEAN

\* Whatever the route, the retries and the failures: a request without download
\* intent commits no download, and one that is neither that, nor for the latest
\* filing, nor a v2 reuse leaves the catalog as it found it ("the default path
\* calls the read-only resolve command").
EffectsAuthorized ==
  /\ commits > 0 => request.download
  /\ wrote => request.download \/ request.latest \/ request.version = 2

\* Every source call of a request has bounds: the year of the filing, or the latest
\* one at a date (only a 1.1 request may leave it open), and, when a v2 call may
\* reach a provider, the ceilings that the caller declared.
WorkBounded ==
  child.state # "idle" /\ child.op # "identify" =>
    /\ request.raw.version # "1.1" => request.raw.year = "good" \/ request.raw.mode = "latest_as_of"
    /\ child.op = "ensure" /\ request.raw.version = "2.0" => request.raw.limits = "good"

\* The document that the caller is given to open was published by the date asked
\* for; on the pathless routes it is also of the kind and the year that were asked
\* for, and of the company when the answer names one.
DeliversWhatWasAsked ==
  handle.kind = "candidate" =>
    /\ handle.filing.published = "in_time"
    /\ Pathless(request) =>
         /\ handle.filing.kind = "asked"
         /\ request.dated => handle.filing.year = "asked"
         /\ handle.named => handle.filing.company = "asked"

\* READ-09: a response that has counts has the count of every company-wiki call
\* that was made for it: contention, local preparation and companion included.
\* The one call too many that it may have is a companion's after the deadline.
CallsReconciled ==
  response # NoResponse /\ response.counts.calls # -1 =>
    \/ response.counts.calls = invoked
    \/ response.counts.calls = invoked + 1 /\ late /\ response.transcript \in Dispatched

\* READ-10: a reported download was committed, and a filing that is delivered
\* reports the events of the answer it came from.
DownloadsReconciled ==
  response # NoResponse =>
    /\ response.counts.downloads = 1 => commits > 0 /\ catalog = "registered"
    /\ response.status \in {"source_candidate", "capture_ready"} => response.counts.downloads = receipt

\* "Resolve one exact-period companion without changing filing success": once the
\* companion is at work, the filing is delivered; and a transcript is sought for
\* no other filing.
CompanionKeepsSuccess ==
  pc = "done" =>
    /\ handle.kind = "candidate" => response.exit = 0 /\ response.status # "gap"
    /\ response.transcript \in Dispatched => response.status = "source_candidate"

\* A v2 reuse says "not_found" only of a source that was not there: a file that the
\* catalog does not know yet is prepared and found, whatever other processes do.
LocalFileFound ==
  response # NoResponse /\ response.status = "not_found" /\ request.version = 2
    /\ QueryRoute(request) => missing

\* Every request is answered, however long the catalog is contended.
EveryRequestAnswered == <>(response # NoResponse)

\* "stats["downloads"] is the download event count from the final resolution
\* envelope", on success and on failure.
FinalEventsReported ==
  response # NoResponse /\ response.counts.downloads # -1 => response.counts.downloads = receipt
=============================================================================
