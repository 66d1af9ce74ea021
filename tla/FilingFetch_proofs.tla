-------------------------- MODULE FilingFetch_proofs --------------------------
(***************************************************************************)
(* What holds of one filing-fetch request for every set of requests,       *)
(* configurations and candidates and every bound on the counters.          *)
(***************************************************************************)
EXTENDS FilingFetch, TLAPS

\* What can be on its way to main.
Errors == {Escaped} \cup [code : ErrorCodes \ {"none", "escaped"}, cause : Causes \cup {NoCause}]
Before == Calls \cup {"main"}

\* A call is made on the route that its request has.
RouteInv ==
  /\ child.state # "idle" => child.op = pc
  /\ pc \in {"query", "local_prepare"} => QueryRoute(request)
  /\ pc = "local_prepare" => request.version = 2
  /\ pc \in {"ensure", "resolve"} => ~QueryRoute(request)
  /\ pc = "ensure" => request.download \/ request.latest \/ request.version = 2

\* An answer that is on its way is still true of the catalog, or of its past.
AnswerInv ==
  child.state = "answered" =>
    /\ child.events # 0 => commits > 0 /\ catalog = "registered" /\ child.op = "ensure"
    /\ child.op = "identify" => child.answer \in {"resolved", "unresolved"}
    /\ child.op = "local_prepare" /\ child.answer = "ready" => catalog = "registered"
    /\ child.op = "local_prepare" /\ child.answer = "not_found" => missing
    /\ child.op = "query" /\ child.answer = "not_found" => ~prepared

\* A prepared source is registered, and an error says "not_found" of a query only
\* if the source was missing.
LocalInv ==
  /\ prepared => catalog = "registered"
  /\ catalog = "absent" => missing
  /\ error.code = "not_found" /\ request.version = 2 /\ QueryRoute(request) => missing

\* The counts of the response, before it is written.
StatsInv ==
  /\ \/ stats.calls = invoked
     \/ stats.calls = invoked + 1 /\ late /\ transcript \in Dispatched
  /\ stats.downloads # 0 => commits > 0 /\ catalog = "registered"
  /\ handle.kind = "none" => stats.downloads = 0
  /\ handle.kind = "candidate" => stats.downloads = receipt

\* The handle comes before its companion, and both before the response.
HandleInv ==
  /\ handle.kind # "none" => pc \in {"companion", "output", "done"}
  /\ pc \in {"companion", "output"} => handle.kind # "none"
  /\ pc = "companion" => request.version = 2
  /\ transcript # "none" => request.version = 2 /\ pc \in {"output", "done"}
  /\ transcript \in Dispatched => handle.kind = "candidate"
  /\ pc = "except" => error \in Errors

\* What the response says of all this.
ResponseInv ==
  /\ response # NoResponse <=> pc = "done"
  /\ pc = "done" =>
       /\ response.counts.calls # -1 => response.counts = stats
       /\ response.counts.calls = -1 => response.counts.downloads = -1
       /\ handle.kind = "candidate" =>
            /\ response.exit = 0 /\ response.counts = stats
            /\ response.status \in {"source_candidate", "capture_ready"}
            /\ request.version = 2 => response.status = "source_candidate"
       /\ response.status \in {"source_candidate", "capture_ready"} => handle.kind = "candidate"
       /\ response.transcript \in Dispatched \/ transcript \in Dispatched =>
            transcript = response.transcript
       /\ response.status = "not_found" => error.code = "not_found"

IInv == TypeOK /\ RouteInv /\ AnswerInv /\ EffectsAuthorized /\ LocalInv /\ StatsInv
        /\ HandleInv /\ ResponseInv

-----------------------------------------------------------------------------
(* Errors. *)

\* Every cause that is built is one of the wire format.
LEMMA CauseTyped ==
  ASSUME NEW op \in Calls
  PROVE  /\ \A t \in StderrTypes : DiagnoseCause(op, t, NoReceipt) \in Causes
         /\ \A c \in Conditions : ConditionCause(op, c) \in Causes
         /\ \A r \in LocalSourceCodes \cup {"unknown"} : SourceCondition(op, r) \in Causes
         /\ NotStartedCause(op) \in Causes
<1>1. op \in Operations
  BY DEF Calls, Operations
<1>2. \A t \in StderrTypes : Mapped[t][2] \in CauseCodes
  BY DEF StderrTypes, Mapped, CauseCodes, Conditions
<1>3. \A c \in CauseCodes, s \in Tri, u \in Tri : BuildCause(op, c, s, u) \in Causes
  BY <1>1 DEF BuildCause, Causes, RetryScope
<1>4. \A c \in Conditions : Condition[c][2] \in Tri /\ Condition[c][3] \in Tri
  BY DEF Conditions, Condition, Tri
<1>5. Conditions \subseteq CauseCodes /\ LocalSourceCodes \cup {"unknown"} \subseteq CauseCodes
  BY DEF CauseCodes
<1>6. "null" \in Tri /\ "no" \in Tri /\ "yes" \in Tri
  BY DEF Tri
<1>7. \A t \in StderrTypes : DiagnoseCause(op, t, NoReceipt) \in Causes
  BY <1>2, <1>3, <1>6 DEF DiagnoseCause
<1>8. \A c \in Conditions : ConditionCause(op, c) \in Causes
  BY <1>3, <1>4, <1>5 DEF ConditionCause
<1>9. \A r \in LocalSourceCodes \cup {"unknown"} : SourceCondition(op, r) \in Causes
  BY <1>3, <1>5, <1>6 DEF SourceCondition
<1>10. NotStartedCause(op) \in Causes
  BY <1>3, <1>5, <1>6 DEF NotStartedCause, Conditions
<1> QED
  BY <1>7, <1>8, <1>9, <1>10

\* What a failed call raises is an error of the vocabulary, and never "not_found".
LEMMA FailureTyped ==
  ASSUME NEW op \in Calls, NEW e \in Failures(op) \cup {Escaped}
  PROVE  e \in Errors /\ e.code # "not_found"
<1>1. CASE e = Escaped
  BY <1>1 DEF Escaped, Errors, ErrorCodes
<1>2. ASSUME NEW t \in StderrTypes, DiagnoseCode(t) \notin RetryCodes,
             e = FetchError(DiagnoseCode(t), DiagnoseCause(op, t, NoReceipt))
      PROVE  e \in Errors /\ e.code # "not_found"
  <2>1. DiagnoseCode(t) \in {"fatal", "worker_paused"}
    BY <1>2 DEF DiagnoseCode, Mapped, StderrTypes, RetryCodes
  <2> QED
    BY <1>2, <2>1, CauseTyped DEF FetchError, Errors, ErrorCodes
<1>3. ASSUME NEW c \in Conditions,
             e \in {FetchError(Condition[c][1], ConditionCause(op, c)),
                    FetchError("upstream_error", ConditionCause(op, c))}
      PROVE  e \in Errors /\ e.code # "not_found"
  <2>1. Condition[c][1] \in {"fatal", "upstream_error"}
    BY <1>3 DEF Condition, Conditions
  <2> QED
    BY <1>3, <2>1, CauseTyped DEF FetchError, Errors, ErrorCodes
<1>4. CASE e = FetchError("fatal", [ConditionCause(op, "producer_transport_failure")
                                      EXCEPT !.retry_scope = "none"])
  <2>1. ConditionCause(op, "producer_transport_failure") \in Causes
    BY CauseTyped DEF Conditions
  <2> QED
    BY <1>4, <2>1 DEF FetchError, Errors, ErrorCodes, Causes
<1> QED
  BY <1>1, <1>2, <1>3, <1>4 DEF Failures

\* The same of an answer that cannot be read, and of a refusal; a refusal says
\* "not_found" only of an answer that says it, or on the legacy route.
LEMMA RefusalTyped ==
  ASSUME NEW op \in Calls
  PROVE  /\ \A e \in UnreadableErrors(op) : e \in Errors /\ e.code # "not_found"
         /\ \A s \in Statuses : Refusal(op, s) \in Errors
         /\ \A s \in Statuses \ {"not_found"} : Pathless(request) => Refusal(op, s).code # "not_found"
<1>1. \A r \in {"source_not_found", "unknown", "invalid_producer_schema"} :
        SourceCondition(op, r) \in Causes
  BY CauseTyped DEF LocalSourceCodes
<1>2. \A s \in Statuses : RefusalCode(s) \in ErrorCodes \ {"none", "escaped"} /\ (s # "not_found" => RefusalCode(s) # "not_found")
  BY DEF Statuses, RefusalCode, ErrorCodes
<1>3. \A e \in UnreadableErrors(op) : e \in Errors /\ e.code # "not_found"
  BY <1>1 DEF UnreadableErrors, FetchError, Errors, ErrorCodes
<1>4. \A s \in Statuses : Refusal(op, s) \in Errors
  BY <1>1, <1>2 DEF Refusal, Reason, FetchError, Errors, ErrorCodes
<1>5. \A s \in Statuses \ {"not_found"} : Pathless(request) => Refusal(op, s).code # "not_found"
  BY <1>2 DEF Refusal, LegacyRefusal, FetchError
<1> QED
  BY <1>3, <1>4, <1>5

\* What the rest of the program knows of a raw request.
LEMMA RequestTyped ==
  ASSUME NEW raw \in RawRequests
  PROVE  Request(raw) \in AnyRequest
<1>1. raw.version \in Versions /\ raw.allow_download \in BOOLEAN /\ raw.source_ref_v2 \in BOOLEAN
  BY DEF RawRequests
<1>2. Verdict(raw) \in {"accepted", "refused", "raises"}
  <2>1. CASE ~FieldsKnown(raw) \/ raw.text = "bad"
    BY <2>1 DEF Verdict
  <2>2. CASE FieldsKnown(raw) /\ raw.text # "bad"
    <3>1. raw.text = "good"
      BY <2>2 DEF RawRequests
    <3> QED
      BY <2>2, <3>1 DEF Verdict
  <2> QED
    BY <2>1, <2>2
<1>3. DownloadIntent(raw) \in BOOLEAN
  BY <1>1 DEF DownloadIntent
<1>4. CompanionOption(raw) \in CompanionOptions
  BY DEF CompanionOption, CompanionOptions
<1>5. /\ (raw.mode = "latest_as_of") \in BOOLEAN /\ (raw.year = "good") \in BOOLEAN
      /\ (IF raw.version = "2.0" THEN 2 ELSE 1) \in {1, 2}
  OBVIOUS
<1> QED
  BY <1>1, <1>2, <1>3, <1>4, <1>5 DEF Request, AnyRequest

\* The bounds of the work that an accepted request asks for.
LEMMA AcceptedBounds ==
  ASSUME NEW raw \in RawRequests, Verdict(raw) = "accepted"
  PROVE  /\ raw.version # "1.1" => raw.year = "good" \/ raw.mode = "latest_as_of"
         /\ raw.version = "2.0" /\ (DownloadIntent(raw) \/ raw.mode = "latest_as_of") => raw.limits = "good"
<1>1. FieldsKnown(raw) /\ raw.text = "good" /\ raw.mode # "unhashable"
      /\ raw.mode # "bad" /\ WorkAccepted(raw) /\ YearAccepted(raw)
  <2>1. FieldsKnown(raw) /\ raw.text # "bad"
    BY DEF Verdict
  <2>2. raw.text = "good"
    BY <2>1 DEF RawRequests
  <2> QED
    BY <2>1, <2>2 DEF Verdict
<1>2. raw.version # "1.1" => raw.year = "good" \/ raw.mode = "latest_as_of"
  BY <1>1 DEF YearAccepted, NeedsYear, RawRequests, Modes
<1>3. raw.version = "2.0" /\ (DownloadIntent(raw) \/ raw.mode = "latest_as_of") => raw.limits = "good"
  BY <1>1 DEF WorkAccepted, LimitsAccepted, DownloadIntent
<1> QED
  BY <1>2, <1>3

\* The route of a request.
LEMMA RouteTyped ==
  ASSUME request \in Requests
  PROVE  /\ request \in AnyRequest
         /\ SourceCall(request) \in {"query", "ensure", "resolve"}
         /\ SourceCall(request) = "query" <=> QueryRoute(request)
         /\ SourceCall(request) = "ensure" =>
              request.download \/ request.latest
         /\ QueryRoute(request) => Pathless(request) /\ ~request.download /\ ~request.latest
         /\ QueryRoute(request) /\ request.version = 2 => Prepares(request)
<1>1. request \in AnyRequest
  BY FetchAssumption, RequestTyped
<1> QED
  BY <1>1 DEF AnyRequest, SourceCall, QueryRoute, Pathless, Prepares

\* Counters stay within their bound.
LEMMA BumpTyped ==
  ASSUME NEW n \in 0..CallCap, NEW k \in 0..CompanionCalls
  PROVE  Bump(n, k) \in 0..CallCap
  BY FetchAssumption DEF Bump, CompanionCalls

-----------------------------------------------------------------------------
(* The invariant. *)

Types == {Idle} \cup {Running(op) : op \in Calls}
         \cup {Answered(op, a, n) : op \in Calls, a \in Answers, n \in 0..1}

\* What a typed child is.
LEMMA ChildTyped ==
  ASSUME child \in Types
  PROVE  /\ child.state \in {"idle", "running", "answered"}
         /\ child.state = "idle" <=> child = Idle
         /\ child.state = "running" => child.op \in Calls /\ child = Running(child.op)
         /\ child.state = "answered" =>
              child.op \in Calls /\ child.answer \in Answers /\ child.events \in 0..1
  BY DEF Types, Idle, Running, Answered

\* The initial states satisfy the invariant.
LEMMA InitIInv == Init => IInv
<1> SUFFICES ASSUME Init PROVE IInv
  OBVIOUS
<1> USE DEF Init
<1>1. TypeOK
  <2>1. 0 \in 0..CallCap /\ stats \in [calls : 0..CallCap, downloads : 0..1]
    BY FetchAssumption
  <2>2. error \in [code : ErrorCodes, cause : Causes \cup {NoCause}] /\ transcript \in Transcripts
    BY DEF NoError, ErrorCodes, Transcripts
  <2>3. missing \in BOOLEAN /\ prepared \in BOOLEAN /\ contended \in BOOLEAN /\ late \in BOOLEAN
        /\ wrote \in BOOLEAN
    BY Zenon
  <2>4. /\ request \in Requests /\ configuration \in Configurations
        /\ pc = "main" /\ child = Idle /\ handle = NoHandle /\ response = NoResponse
        /\ catalog \in {"absent", "local", "registered"}
        /\ invoked = 0 /\ commits = 0 /\ receipt = 0
    OBVIOUS
  <2> HIDE DEF Init
  <2> QED
    BY <2>1, <2>2, <2>3, <2>4 DEF TypeOK
<1>2. RouteInv /\ AnswerInv
  BY DEF RouteInv, AnswerInv, Idle
<1>3. EffectsAuthorized /\ LocalInv
  <2>1. ~(commits > 0) /\ wrote = FALSE
    OBVIOUS
  <2>2. error.code # "not_found"
    BY DEF NoError
  <2>3. missing = (catalog = "absent") /\ prepared = FALSE
    OBVIOUS
  <2> HIDE DEF Init
  <2> QED
    BY <2>1, <2>2, <2>3, Zenon DEF EffectsAuthorized, LocalInv
<1>4. StatsInv /\ HandleInv /\ ResponseInv
  BY DEF StatsInv, HandleInv, ResponseInv, NoHandle, Dispatched, CompanionStatuses
<1> QED
  BY <1>1, <1>2, <1>3, <1>4 DEF IInv

\* A call, or the part of main before the calls, ends in an exception: the error is
\* on its way to main, with no handle, and nothing was done meanwhile.
LEMMA RaiseStep ==
  ASSUME IInv, pc \in Before, NEW e \in Errors, Raise(e),
         e.code = "not_found" /\ request.version = 2 /\ QueryRoute(request) => missing,
         child' = Idle, contended' \in BOOLEAN, receipt' \in 0..1,
         UNCHANGED <<request, configuration, prepared, late, stats, invoked, commits, wrote, worldVars>>
  PROVE  IInv'
<1> USE DEF Raise, worldVars
<1>1. handle.kind = "none" /\ transcript = "none"
  <2>1. pc \notin {"companion", "output", "done"}
    BY DEF Before, Calls
  <2>2. handle.kind \in {"none", "gap", "candidate"}
    BY DEF IInv, TypeOK, NoHandle, Gap, Candidate
  <2> QED
    BY <2>1, <2>2 DEF IInv, HandleInv
<1>2. TypeOK'
  <2>1. e \in [code : ErrorCodes, cause : Causes \cup {NoCause}]
    BY DEF Errors, Escaped, ErrorCodes
  <2> QED
    BY <2>1 DEF IInv, TypeOK
<1>3. (RouteInv /\ AnswerInv)'
  BY DEF RouteInv, AnswerInv, Idle
<1>4. (EffectsAuthorized /\ LocalInv)'
  BY DEF IInv, EffectsAuthorized, LocalInv, QueryRoute, Pathless
<1>5. StatsInv'
  BY <1>1 DEF IInv, StatsInv
<1>6. HandleInv'
  BY <1>1 DEF IInv, HandleInv
<1>7. response = NoResponse
  BY DEF IInv, ResponseInv, Before, Calls
<1>8. ResponseInv'
  BY <1>7 DEF ResponseInv
<1> QED
  BY <1>2, <1>3, <1>4, <1>5, <1>6, <1>8 DEF IInv

\* The flow of control goes on to another call of the same route.
LEMMA GoToStep ==
  ASSUME IInv, pc \in Before, NEW step \in Calls, GoTo(step),
         step = "query" => QueryRoute(request),
         step = "local_prepare" => QueryRoute(request) /\ request.version = 2,
         step = "ensure" => ~QueryRoute(request) /\ (request.download \/ request.latest \/ request.version = 2),
         step = "resolve" => ~QueryRoute(request),
         child' = Idle, contended' \in BOOLEAN, prepared' \in BOOLEAN, receipt' \in 0..1,
         prepared' => catalog = "registered",
         UNCHANGED <<request, configuration, late, stats, invoked, commits, wrote, worldVars>>
  PROVE  IInv'
<1> USE DEF GoTo, mainVars, worldVars
<1>1. handle.kind = "none" /\ transcript = "none"
  <2>1. pc \notin {"companion", "output", "done"}
    BY DEF Before, Calls
  <2>2. handle.kind \in {"none", "gap", "candidate"}
    BY DEF IInv, TypeOK, NoHandle, Gap, Candidate
  <2> QED
    BY <2>1, <2>2 DEF IInv, HandleInv
<1>2. TypeOK'
  BY DEF IInv, TypeOK
<1>3. (RouteInv /\ AnswerInv)'
  BY DEF RouteInv, AnswerInv, Idle, QueryRoute, Pathless
<1>4. (EffectsAuthorized /\ LocalInv)'
  BY DEF IInv, EffectsAuthorized, LocalInv, QueryRoute, Pathless
<1>5. StatsInv'
  BY <1>1 DEF IInv, StatsInv
<1>6. HandleInv'
  BY <1>1 DEF IInv, HandleInv, Calls
<1>7. response = NoResponse
  BY DEF IInv, ResponseInv, Before, Calls
<1>8. ResponseInv'
  BY <1>7 DEF ResponseInv, Calls
<1> QED
  BY <1>2, <1>3, <1>4, <1>5, <1>6, <1>8 DEF IInv

\* The child answers: the catalog, and what is known of it, only grows.
LEMMA AnswerStep ==
  ASSUME IInv, child.state = "running", NEW a \in Answers, NEW n \in 0..1, Answer(child.op, a, n),
         catalog' \in {catalog, "registered"}, commits' \in 0..CallCap, wrote' \in BOOLEAN,
         commits > 0 => commits' > 0,
         commits' > 0 => request.download,
         wrote' => request.download \/ request.latest \/ request.version = 2,
         n # 0 => commits' > 0 /\ catalog' = "registered" /\ child.op = "ensure",
         child.op = "identify" => a \in {"resolved", "unresolved"},
         child.op = "local_prepare" /\ a = "ready" => catalog' = "registered",
         child.op = "local_prepare" /\ a = "not_found" => catalog = "absent",
         child.op = "query" /\ a = "not_found" => catalog # "registered",
         UNCHANGED <<request, configuration, pc, prepared, contended, late, stats, mainVars, invoked,
                     receipt, missing>>
  PROVE  IInv'
<1> USE DEF Answer, mainVars
<1>1. child.op \in Calls /\ child.op = pc
  BY ChildTyped DEF IInv, TypeOK, Types, RouteInv
<1>2. TypeOK'
  <2>1. child' \in Types
    BY <1>1 DEF Types
  <2> QED
    BY <2>1 DEF IInv, TypeOK, Types
<1>3. RouteInv'
  BY <1>1 DEF IInv, RouteInv, Answered, QueryRoute, Pathless
<1>4. AnswerInv'
  BY <1>1 DEF IInv, AnswerInv, LocalInv, Answered
<1>5. (EffectsAuthorized /\ LocalInv)'
  BY DEF IInv, EffectsAuthorized, LocalInv, QueryRoute, Pathless
<1>6. StatsInv'
  BY DEF IInv, StatsInv
<1>7. (HandleInv /\ ResponseInv)'
  BY DEF IInv, HandleInv, ResponseInv
<1> QED
  BY <1>2, <1>3, <1>4, <1>5, <1>6, <1>7 DEF IInv

-----------------------------------------------------------------------------
(* One lemma per action of main and of a call. *)

\* No child works for a part of main that makes no call.
LEMMA IdleOutsideCalls ==
  ASSUME IInv, pc \notin Calls
  PROVE  child = Idle
  BY ChildTyped DEF IInv, TypeOK, Types, RouteInv

\* The request is refused, or its first call is next.
LEMMA AcceptStep == ASSUME IInv, Accept PROVE IInv'
<1> USE DEF Accept, ghostVars, worldVars
<1>1. pc \in Before /\ child' = Idle
  BY IdleOutsideCalls DEF Before, Calls
<1>2. contended' \in BOOLEAN /\ receipt' \in 0..1
  BY DEF IInv, TypeOK
<1>3. ASSUME NEW e \in {Escaped} \cup {FetchError(code, NoCause) :
                                        code \in {"request_error", "upstream_error", "config_error"}},
             Raise(e)
      PROVE  IInv'
  <2>1. e \in Errors /\ e.code # "not_found"
    BY DEF Errors, Escaped, FetchError, ErrorCodes
  <2> QED
    BY <1>1, <1>2, <1>3, <2>1, RaiseStep
<1>4. ASSUME GoTo("identify") PROVE IInv'
  <2>1. prepared' \in BOOLEAN /\ (prepared' => catalog = "registered")
    BY DEF IInv, TypeOK, LocalInv
  <2> QED
    BY <1>1, <1>2, <1>4, <2>1, GoToStep DEF Calls
<1> QED
  BY <1>3, <1>4

\* The deadline has passed before a call.
LEMMA TooLateStep == ASSUME IInv, NEW op \in Calls, TooLate(op) PROVE IInv'
<1> USE DEF TooLate, ghostVars, worldVars
<1>1. PICK cause \in TooLateCause(op) : Raise(FetchError("upstream_error", cause))
  OBVIOUS
<1>2. cause \in Causes \cup {NoCause}
  BY CauseTyped DEF TooLateCause
<1>3. FetchError("upstream_error", cause) \in Errors /\ FetchError("upstream_error", cause).code # "not_found"
  BY <1>2 DEF Errors, FetchError, ErrorCodes
<1>4. contended' \in BOOLEAN /\ receipt' \in 0..1
  BY DEF IInv, TypeOK
<1> QED
  BY <1>1, <1>3, <1>4, RaiseStep DEF Before

\* A call is counted and its child started, or its command is not configured.
LEMMA InvokeStep == ASSUME IInv, NEW op \in Calls, Invoke(op) PROVE IInv'
<1> USE DEF Invoke, worldVars
<1>1. CASE ~Configured(NeedsCommand(op))
  <2>1. Escaped \in Errors /\ Escaped.code # "not_found"
    BY DEF Errors, Escaped
  <2>2. contended' \in BOOLEAN /\ receipt' \in 0..1
    BY DEF IInv, TypeOK
  <2> QED
    BY <1>1, <2>1, <2>2, RaiseStep DEF Before
<1>2. CASE Configured(NeedsCommand(op))
  <2> USE <1>2 DEF mainVars
  <2>1. child'.state = "running" /\ child'.op = pc'
    BY DEF Running
  <2>2. handle.kind = "none" /\ transcript = "none" /\ pc \notin {"main", "companion", "output", "except", "done"}
    <3>1. pc \notin {"main", "companion", "output", "except", "done"}
      BY DEF Calls
    <3>2. handle.kind \in {"none", "gap", "candidate"}
      BY DEF IInv, TypeOK, NoHandle, Gap, Candidate
    <3> QED
      BY <3>1, <3>2 DEF IInv, HandleInv
  <2>3. stats.calls = invoked
    BY <2>2 DEF IInv, StatsInv, Dispatched, CompanionStatuses
  <2>4. stats.calls \in 0..CallCap /\ stats.downloads \in 0..1
    BY DEF IInv, TypeOK
  <2>5. Bump(stats.calls, 1) \in 0..CallCap /\ 1 \in 0..CompanionCalls
    BY <2>4, BumpTyped DEF CompanionCalls
  <2>6. stats' = [calls |-> Bump(stats.calls, 1), downloads |-> stats.downloads]
    BY DEF IInv, TypeOK, Counted
  <2>7. TypeOK'
    BY <2>3, <2>4, <2>5, <2>6 DEF IInv, TypeOK
  <2>8. (RouteInv /\ AnswerInv)'
    BY <2>1 DEF IInv, RouteInv, AnswerInv, QueryRoute, Pathless
  <2>9. (EffectsAuthorized /\ LocalInv)'
    BY DEF IInv, EffectsAuthorized, LocalInv, QueryRoute, Pathless
  <2>10. StatsInv'
    BY <2>2, <2>3, <2>6 DEF IInv, StatsInv
  <2>11. (HandleInv /\ ResponseInv)'
    BY <2>2 DEF IInv, HandleInv, ResponseInv
  <2> QED
    BY <2>7, <2>8, <2>9, <2>10, <2>11 DEF IInv
<1> QED
  BY <1>1, <1>2

\* The child does its work on the catalog: only a write route lets it write.
LEMMA ChildStep == ASSUME IInv, ChildWorks PROVE IInv'
<1> USE DEF ChildWorks, Registers
<1>1. /\ child.state = "running" => child.op \in Calls /\ child.op = pc
      /\ catalog \in {"absent", "local", "registered"}
      /\ commits \in 0..CallCap /\ wrote \in BOOLEAN
      /\ commits > 0 => request.download
      /\ wrote => request.download \/ request.latest \/ request.version = 2
      /\ 0 \in 0..1 /\ 1 \in 0..1
  BY ChildTyped DEF IInv, TypeOK, Types, RouteInv, EffectsAuthorized
<1>2. CASE ChildIdentifies
  <2>1. PICK a \in {"resolved", "unresolved"} : Answer("identify", a, 0)
    BY <1>2 DEF ChildIdentifies
  <2>2. child.state = "running" /\ child.op = "identify"
    BY <1>2 DEF ChildIdentifies, Running
  <2>3. a \in Answers
    BY DEF Answers
  <2> QED
    BY <1>1, <1>2, <2>1, <2>2, <2>3, AnswerStep DEF ChildIdentifies
<1>3. CASE ChildLooks
  <2>1. PICK a \in Answers : a = (IF catalog = "registered" THEN "found" ELSE "not_found")
    BY DEF Answers, Statuses
  <2> QED
    BY <1>1, <1>3, <2>1, AnswerStep DEF ChildLooks
<1>4. CASE ChildPrepares
  <2>1. child.state = "running" /\ child.op = "local_prepare"
    BY <1>4 DEF ChildPrepares, Running
  <2>2. "ready" \in Answers /\ "not_found" \in Answers
    BY DEF Answers, Statuses
  <2>3. request.version = 2
    BY <1>1, <2>1 DEF IInv, RouteInv
  <2> QED
    BY <1>1, <1>4, <2>1, <2>2, <2>3, AnswerStep DEF ChildPrepares
<1>5. CASE ChildEnsures
  <2>1. child.state = "running" /\ child.op = "ensure"
    BY <1>5 DEF ChildEnsures, Running
  <2>2. "found" \in Answers /\ "gap" \in Answers
    BY DEF Answers
  <2>3. request.download \/ request.latest \/ request.version = 2
    BY <1>1, <2>1 DEF IInv, RouteInv
  <2>4. Bump(commits, 1) \in 0..CallCap /\ Bump(commits, 1) > 0
    BY <1>1, FetchAssumption DEF Bump
  <2>5. EventsStated \subseteq {0, 1}
    BY DEF EventsStated
  <2> QED
    BY <1>1, <1>5, <2>1, <2>2, <2>3, <2>4, <2>5, AnswerStep DEF ChildEnsures, Acquires
<1>6. CASE ChildRefuses
  <2>1. PICK s \in Statuses \ {"not_found"} : Answer(child.op, s, 0)
    BY <1>6 DEF ChildRefuses
  <2>2. s \in Answers /\ s # "ready"
    BY DEF Answers, Statuses
  <2> QED
    BY <1>1, <1>6, <2>1, <2>2, AnswerStep DEF ChildRefuses
<1> QED
  BY <1>2, <1>3, <1>4, <1>5, <1>6

\* What is known of an answer that is consumed.
LEMMA AnsweredTyped ==
  ASSUME IInv, child.state = "answered"
  PROVE  /\ child.op \in Calls /\ child.op = pc /\ pc \in Before
         /\ child.events \in 0..1 /\ child.answer \in Answers
  BY ChildTyped DEF IInv, TypeOK, Types, RouteInv, Before

\* A call ends without a usable answer.
LEMMA CallFailsStep == ASSUME IInv, NEW op \in Calls, CallFails(op) PROVE IInv'
<1> USE DEF CallFails, ghostVars, worldVars
<1>1. contended' \in BOOLEAN /\ receipt' \in 0..1 /\ pc \in Before
  BY DEF IInv, TypeOK, Before
<1>2. PICK e \in Failures(op) \cup {Escaped} : Raise(e)
  OBVIOUS
<1>3. e \in Errors /\ e.code # "not_found"
  BY FailureTyped
<1> QED
  BY <1>1, <1>2, <1>3, RaiseStep

\* A contended call is made again on the same route.
LEMMA ContendedStep == ASSUME IInv, NEW op \in Calls, Contended(op) PROVE IInv'
<1> USE DEF Contended, ghostVars, worldVars
<1>1. GoTo(op)
  BY DEF GoTo
<1>2. contended' \in BOOLEAN /\ prepared' \in BOOLEAN /\ receipt' \in 0..1 /\ pc \in Before
      /\ (prepared' => catalog = "registered")
  BY DEF IInv, TypeOK, Before, LocalInv
<1>3. /\ op = "query" => QueryRoute(request)
      /\ op = "local_prepare" => QueryRoute(request) /\ request.version = 2
      /\ op = "ensure" => ~QueryRoute(request) /\ (request.download \/ request.latest \/ request.version = 2)
      /\ op = "resolve" => ~QueryRoute(request)
  BY DEF IInv, RouteInv
<1> QED
  BY <1>1, <1>2, <1>3, GoToStep

\* An answer that cannot be read.
LEMMA UnreadableStep == ASSUME IInv, NEW op \in Calls, Unreadable(op) PROVE IInv'
<1> USE DEF Unreadable, ghostVars, worldVars
<1>1. contended' \in BOOLEAN /\ receipt' \in 0..1 /\ pc \in Before
  BY DEF IInv, TypeOK, Before
<1>2. PICK e \in UnreadableErrors(op) : Raise(e)
  OBVIOUS
<1>3. e \in Errors /\ e.code # "not_found"
  BY RefusalTyped
<1> QED
  BY <1>1, <1>2, <1>3, RaiseStep

\* A candidate that is not the document asked for.
LEMMA RejectedStep == ASSUME IInv, NEW op \in Calls, Rejected(op) PROVE IInv'
<1> USE DEF Rejected, Consumed, worldVars
<1>1. contended' \in BOOLEAN /\ receipt' \in 0..1 /\ pc \in Before
  BY AnsweredTyped
<1>2. PICK c \in Candidates : Raise(FetchError(RejectionCode(c), NoCause))
  OBVIOUS
<1>3. FetchError(RejectionCode(c), NoCause) \in Errors
  BY DEF RejectionCode, FetchError, Errors, ErrorCodes
<1>4. FetchError(RejectionCode(c), NoCause).code = "not_found" => ~QueryRoute(request)
  BY DEF RejectionCode, FetchError, QueryRoute
<1> QED
  BY <1>1, <1>2, <1>3, <1>4, RaiseStep

\* "not_found" is the answer of a query, with the local preparation made before it,
\* or of the preparation, for which there was nothing.
LEMMA RefusedStep == ASSUME IInv, NEW op \in Calls, Refused(op) PROVE IInv'
<1> USE DEF Refused, Consumed, worldVars
<1>1. contended' \in BOOLEAN /\ prepared' \in BOOLEAN /\ receipt' \in 0..1 /\ pc \in Before
      /\ (prepared' => catalog = "registered")
  <2>1. contended' \in BOOLEAN /\ receipt' \in 0..1 /\ pc \in Before
    BY AnsweredTyped
  <2>2. prepared \in BOOLEAN /\ (prepared => catalog = "registered") /\ prepared' = prepared
    BY DEF IInv, TypeOK, LocalInv
  <2> HIDE DEF Refused, Consumed, worldVars
  <2>3. prepared' \in BOOLEAN
    BY <2>2
  <2>4. prepared' => catalog = "registered"
    BY <2>2
  <2> QED
    BY <2>1, <2>3, <2>4
<1>2. child.op = op /\ child.answer \in Statuses /\ request \in Requests
  BY AnsweredTyped DEF IInv, TypeOK
<1>3. CASE PreparesOn(op, child.answer)
  <2>1. QueryRoute(request) /\ request.version = 2
    BY <1>3 DEF PreparesOn, Prepares, IInv, RouteInv
  <2> QED
    BY <1>1, <1>3, <2>1, GoToStep DEF Calls
<1>4. CASE ~PreparesOn(op, child.answer)
  <2>1. Refusal(op, child.answer) \in Errors
    BY <1>2, RefusalTyped
  <2>2. ASSUME Refusal(op, child.answer).code = "not_found", request.version = 2, QueryRoute(request)
        PROVE  missing
    <3>1. Pathless(request) /\ Prepares(request)
      BY <1>2, <2>2, RouteTyped
    <3>2. child.answer = "not_found"
      BY <1>2, <2>2, <3>1, RefusalTyped
    <3>3. op \in {"identify", "query", "local_prepare"}
      BY <2>2 DEF IInv, RouteInv, Calls
    <3>4. op # "identify"
      BY <1>2, <3>2 DEF IInv, AnswerInv
    <3>5. op # "query"
      BY <1>2, <1>4, <3>1, <3>2 DEF IInv, AnswerInv, PreparesOn
    <3> QED
      BY <1>2, <3>2, <3>3, <3>4, <3>5 DEF IInv, AnswerInv
  <2> QED
    BY <1>1, <1>4, <2>1, <2>2, RaiseStep
<1> QED
  BY <1>3, <1>4

\* With the identity, the call of the route of the request is next.
LEMMA IdentifiedStep == ASSUME IInv, Identified PROVE IInv'
<1> USE DEF Identified, Consumed, worldVars
<1>1. contended' \in BOOLEAN /\ prepared' \in BOOLEAN /\ receipt' \in 0..1 /\ pc \in Before
      /\ (prepared' => catalog = "registered")
  <2>1. contended' \in BOOLEAN /\ receipt' \in 0..1 /\ pc \in Before
    BY AnsweredTyped
  <2>2. prepared \in BOOLEAN /\ (prepared => catalog = "registered") /\ prepared' = prepared
    BY DEF IInv, TypeOK, LocalInv
  <2> HIDE DEF Identified, Consumed, worldVars
  <2>3. prepared' \in BOOLEAN
    BY <2>2
  <2>4. prepared' => catalog = "registered"
    BY <2>2
  <2> QED
    BY <2>1, <2>3, <2>4
<1>2. CASE GoTo(SourceCall(request))
  <2>1. request \in Requests
    BY DEF IInv, TypeOK
  <2>2. SourceCall(request) \in Calls
    BY <2>1, RouteTyped DEF Calls
  <2> QED
    BY <1>1, <1>2, <2>1, <2>2, RouteTyped, GoToStep
<1>3. CASE Raise(FetchError("identity_error", NoCause))
  <2>1. FetchError("identity_error", NoCause) \in Errors
        /\ FetchError("identity_error", NoCause).code # "not_found"
    BY DEF FetchError, Errors, ErrorCodes
  <2> QED
    BY <1>1, <1>3, <2>1, RaiseStep
<1> QED
  BY <1>2, <1>3

\* With the local source prepared, the query is next again.
LEMMA PreparedStep == ASSUME IInv, Prepared PROVE IInv'
<1> USE DEF Prepared, Consumed, worldVars
<1>1. contended' \in BOOLEAN /\ receipt' \in 0..1 /\ pc \in Before
  BY AnsweredTyped
<1>2. QueryRoute(request) /\ catalog = "registered"
  BY AnsweredTyped DEF IInv, RouteInv, AnswerInv
<1> QED
  BY <1>1, <1>2, GoToStep DEF Calls

\* A handle is returned with the events of the answer that it comes from.
LEMMA FoundStep == ASSUME IInv, NEW op \in Calls, Found(op) PROVE IInv'
<1> USE DEF Found, Consumed, Return, worldVars
<1>1. /\ child.op = op /\ pc \in Before /\ child.events \in 0..1 /\ receipt' = child.events
      /\ child' = Idle /\ contended' = FALSE
  BY AnsweredTyped
<1>2. handle.kind = "none" /\ transcript = "none"
  <2>1. pc \notin {"companion", "output", "done"}
    BY <1>1 DEF Before, Calls
  <2>2. handle.kind \in {"none", "gap", "candidate"}
    BY DEF IInv, TypeOK, NoHandle, Gap, Candidate
  <2> QED
    BY <2>1, <2>2 DEF IInv, HandleInv
<1>3. stats \in [calls : 0..CallCap, downloads : 0..1] /\ stats.downloads = 0
  BY <1>2 DEF IInv, TypeOK, StatsInv
<1>4. PICK h, d :
        /\ Return(h, d)
        /\ \/ h = Gap /\ d = 0
           \/ /\ d = Record(op, child.events)
              /\ \E c \in Candidates : h = Candidate(child.events, Opened(c), c.says_company)
  OBVIOUS
<1>5. d \in 0..1 /\ h \in {Gap} \cup {Candidate(n, f, b) : n \in 0..1, f \in Documents, b \in BOOLEAN}
  <2>1. ASSUME NEW c \in Candidates PROVE Opened(c) \in Documents /\ c.says_company \in BOOLEAN
    BY FetchAssumption DEF Opened, AnyCandidate
  <2> QED
    BY <1>1, <1>3, <1>4, <2>1 DEF Record
<1>6. stats' = [calls |-> stats.calls, downloads |-> d]
  BY <1>3, <1>4
<1>7. h.kind \in {"gap", "candidate"} /\ (h.kind = "candidate" => d = child.events)
  <2>1. op = "query" => child.events = 0
    BY <1>1 DEF IInv, AnswerInv
  <2> QED
    BY <1>3, <1>4, <2>1 DEF Gap, Candidate, Record
<1>8. pc' \in {"companion", "output"} /\ (pc' = "companion" => request.version = 2)
  BY <1>4 DEF AfterSource
<1>9. TypeOK'
  <2>1. stats' \in [calls : 0..CallCap, downloads : 0..1]
    BY <1>3, <1>5, <1>6
  <2>2. handle' \in {NoHandle, Gap} \cup {Candidate(n, f, b) : n \in 0..1, f \in Documents, b \in BOOLEAN}
    BY <1>4, <1>5
  <2>3. UNCHANGED <<request, configuration, prepared, late, error, transcript, response, catalog, invoked,
                    commits, wrote, missing>>
    BY <1>4
  <2>4. contended' \in BOOLEAN /\ receipt' \in 0..1 /\ child' = Idle
    BY <1>1
  <2> HIDE DEF Found, Consumed, Return, worldVars
  <2> QED
    BY <1>8, <2>1, <2>2, <2>3, <2>4 DEF IInv, TypeOK
<1>10. (RouteInv /\ AnswerInv)'
  BY <1>1, <1>8 DEF RouteInv, AnswerInv, Idle
<1>11. (EffectsAuthorized /\ LocalInv)'
  BY <1>4 DEF IInv, EffectsAuthorized, LocalInv, QueryRoute, Pathless
<1>12. StatsInv'
  <2>1. d # 0 => commits > 0 /\ catalog = "registered"
    BY <1>3, <1>4 DEF IInv, AnswerInv, Record
  <2> QED
    BY <1>1, <1>2, <1>4, <1>6, <1>7, <2>1 DEF IInv, StatsInv
<1>13. HandleInv'
  BY <1>2, <1>4, <1>7, <1>8 DEF IInv, HandleInv, Dispatched, CompanionStatuses
<1>14. response = NoResponse
  BY <1>1 DEF IInv, ResponseInv, Before, Calls
<1>15. ResponseInv'
  BY <1>4, <1>8, <1>14 DEF ResponseInv
<1> QED
  BY <1>9, <1>10, <1>11, <1>12, <1>13, <1>15 DEF IInv

\* The companion ends: its status is recorded next to the filing, and its calls
\* are counted.
LEMMA CompanionStep ==
  ASSUME IInv, pc = "companion", pc' = "output",
         NEW n \in 0..CompanionCalls, NEW stopped \in 0..1,
         stopped = 1 => late /\ n > 0,
         NEW t \in Transcripts, transcript' = t,
         t \in Dispatched <=> Asks(request),
         t \notin Dispatched => n = 0,
         stats' = [stats EXCEPT !.calls = Bump(@, n)], invoked' = Bump(invoked, n - stopped),
         UNCHANGED <<request, configuration, prepared, contended, child, late, handle, error, response,
                     commits, wrote, receipt, worldVars>>
  PROVE  IInv'
<1> USE DEF worldVars
<1>1. child = Idle /\ transcript = "none" /\ request.version = 2 /\ handle.kind # "none"
  BY IdleOutsideCalls DEF IInv, HandleInv, Calls
<1>2. stats.calls = invoked /\ invoked \in 0..CallCap /\ stats.calls \in 0..CallCap
      /\ stats.downloads \in 0..1
  BY <1>1 DEF IInv, TypeOK, StatsInv, Dispatched, CompanionStatuses
<1>3. stats' = [calls |-> Bump(stats.calls, n), downloads |-> stats.downloads]
  BY DEF IInv, TypeOK
<1>4. invoked' \in 0..CallCap /\ stats'.calls \in 0..CallCap
      /\ \/ stats'.calls = invoked'
         \/ stats'.calls = invoked' + 1 /\ stopped = 1 /\ n > 0
  BY <1>2, <1>3, FetchAssumption DEF Bump, CompanionCalls
<1>5. TypeOK'
  <2>1. stats' \in [calls : 0..CallCap, downloads : 0..1]
    BY <1>2, <1>3, <1>4
  <2> QED
    BY <1>4, <2>1 DEF IInv, TypeOK
<1>6. (RouteInv /\ AnswerInv)'
  BY <1>1 DEF RouteInv, AnswerInv, Idle
<1>7. (EffectsAuthorized /\ LocalInv)'
  BY DEF IInv, EffectsAuthorized, LocalInv, QueryRoute, Pathless
<1>8. StatsInv'
  BY <1>1, <1>3, <1>4 DEF IInv, StatsInv
<1>9. HandleInv'
  BY <1>1 DEF IInv, HandleInv, Asks
<1>10. response = NoResponse
  BY DEF IInv, ResponseInv
<1>11. ResponseInv'
  BY <1>10 DEF ResponseInv
<1> QED
  BY <1>5, <1>6, <1>7, <1>8, <1>9, <1>11 DEF IInv

\* No companion is sought.
LEMMA SkipCompanionStep == ASSUME IInv, SkipCompanion PROVE IInv'
<1> USE DEF SkipCompanion, ghostVars, worldVars
<1>1. NotAsked \in Transcripts /\ NotAsked \notin Dispatched
  BY DEF NotAsked, Transcripts, Dispatched, CompanionStatuses
<1>2. stats.calls \in 0..CallCap /\ invoked \in 0..CallCap /\ stats = [stats EXCEPT !.calls = stats.calls]
  BY DEF IInv, TypeOK
<1>3. Bump(stats.calls, 0) = stats.calls /\ Bump(invoked, 0 - 0) = invoked
  BY <1>2, FetchAssumption DEF Bump
<1>4. 0 \in 0..CompanionCalls /\ 0 \in 0..1
  BY DEF CompanionCalls
<1> QED
  BY <1>1, <1>2, <1>3, <1>4, CompanionStep

\* The companion was resolved, with whatever status.
LEMMA ResolveCompanionStep == ASSUME IInv, ResolveCompanion PROVE IInv'
<1> USE DEF ResolveCompanion
<1>1. CompanionStatuses(Intent(request)) \subseteq Dispatched /\ Dispatched \subseteq Transcripts
  BY DEF Intent, Dispatched, CompanionStatuses, Transcripts
<1> QED
  BY <1>1, CompanionStep

\* The companion could not be started.
LEMMA CompanionRaisesStep == ASSUME IInv, CompanionRaises PROVE IInv'
<1> USE DEF CompanionRaises, ghostVars, worldVars
<1>1. "upstream_error" \in Transcripts /\ "upstream_error" \in Dispatched
  BY DEF Transcripts, Dispatched, CompanionStatuses
<1>2. stats.calls \in 0..CallCap /\ invoked \in 0..CallCap /\ stats = [stats EXCEPT !.calls = stats.calls]
  BY DEF IInv, TypeOK
<1>3. Bump(stats.calls, 0) = stats.calls /\ Bump(invoked, 0 - 0) = invoked
  BY <1>2, FetchAssumption DEF Bump
<1>4. 0 \in 0..CompanionCalls /\ 0 \in 0..1
  BY DEF CompanionCalls
<1> QED
  BY <1>1, <1>2, <1>3, <1>4, CompanionStep

\* The counts of a response, with or without them.
LEMMA CountsTyped ==
  ASSUME IInv, NEW counted
  PROVE  /\ RespondedCounts(counted) \in [calls : {-1} \cup 0..CallCap, downloads : {-1, 0, 1}]
         /\ counted => RespondedCounts(counted) = stats
         /\ RespondedCounts(counted).calls # -1 => RespondedCounts(counted) = stats
         /\ RespondedCounts(counted).calls = -1 => RespondedCounts(counted).downloads = -1
<1>1. stats \in [calls : 0..CallCap, downloads : 0..1]
  BY DEF IInv, TypeOK
<1>2. stats \in [calls : {-1} \cup 0..CallCap, downloads : {-1, 0, 1}] /\ stats.calls # -1
  BY <1>1, FetchAssumption
<1> QED
  BY <1>2 DEF RespondedCounts

\* Writing the response leaves all but the response as it is.
LEMMA RespondStep ==
  ASSUME IInv, pc \in {"output", "except"}, pc' = "done",
         response' \in Outcomes, response' # NoResponse, ResponseInv',
         UNCHANGED <<request, configuration, prepared, contended, child, late, stats, handle, error, transcript,
                     ghostVars, worldVars>>
  PROVE  IInv'
<1> USE DEF ghostVars, worldVars
<1>1. child = Idle
  BY IdleOutsideCalls DEF Calls
<1>2. TypeOK'
  BY DEF IInv, TypeOK
<1>3. (RouteInv /\ AnswerInv)'
  BY <1>1 DEF RouteInv, AnswerInv, Idle
<1>4. (EffectsAuthorized /\ LocalInv)'
  BY DEF IInv, EffectsAuthorized, LocalInv, QueryRoute, Pathless
<1>5. StatsInv'
  BY DEF IInv, StatsInv
<1>6. HandleInv'
  BY DEF IInv, HandleInv
<1> QED
  BY <1>2, <1>3, <1>4, <1>5, <1>6 DEF IInv

\* The response of a request that has a handle.
LEMMA OutputStep == ASSUME IInv, Output PROVE IInv'
<1> USE DEF Output
<1> DEFINE counted == request.version = 2 \/ handle.kind = "candidate"
<1>1. /\ response'.exit = 0 /\ response'.transcript = transcript
      /\ response'.counts = RespondedCounts(counted)
      /\ response'.status = IF handle.kind = "gap" THEN "gap"
                            ELSE IF request.version = 2 THEN "source_candidate" ELSE "capture_ready"
  OBVIOUS
<1>2. handle.kind \in {"gap", "candidate"} /\ transcript \in Transcripts
  BY DEF IInv, TypeOK, HandleInv, NoHandle, Gap, Candidate
<1>3. response' \in Outcomes
  <2>1. RespondedCounts(counted) \in [calls : {-1} \cup 0..CallCap, downloads : {-1, 0, 1}]
    BY CountsTyped
  <2> QED
    BY <1>2, <2>1 DEF Outcomes
<1>4. response' # NoResponse
  BY <1>1 DEF NoResponse
<1>5. ResponseInv'
  <2>1. /\ response'.counts.calls # -1 => response'.counts = stats
        /\ response'.counts.calls = -1 => response'.counts.downloads = -1
        /\ counted => response'.counts = stats
    BY <1>1, CountsTyped
  <2> QED
    BY <1>1, <1>2, <1>4, <2>1 DEF ResponseInv
<1> QED
  BY <1>3, <1>4, <1>5, RespondStep

\* The response of a request that failed.
LEMMA ExceptStep == ASSUME IInv, Except PROVE IInv'
<1> USE DEF Except
<1> DEFINE typed == error # Escaped
           counted == request.version = 2 \/ typed
<1>1. /\ response'.exit = (IF typed THEN 2 ELSE 1)
      /\ response'.counts = RespondedCounts(counted)
      /\ response'.status = IF typed THEN error.code ELSE "fatal"
      /\ response'.transcript = Undispatched(request)
  OBVIOUS
<1>2. error \in Errors /\ handle.kind = "none" /\ transcript \notin Dispatched
  <2>1. handle.kind \in {"none", "gap", "candidate"}
    BY DEF IInv, TypeOK, NoHandle, Gap, Candidate
  <2> QED
    BY <2>1 DEF IInv, HandleInv
<1>3. Undispatched(request) \in Transcripts \cup {"not_run", "invalid"} /\ Undispatched(request) \notin Dispatched
  BY DEF Undispatched, Transcripts, Dispatched, CompanionStatuses
<1>4. response' \in Outcomes
  <2>1. RespondedCounts(counted) \in [calls : {-1} \cup 0..CallCap, downloads : {-1, 0, 1}]
    BY CountsTyped
  <2>2. error.cause \in Causes \cup {NoCause} /\ (typed => error.code \in ErrorCodes \ {"none", "escaped"})
    BY <1>2 DEF Errors, Escaped
  <2>3. Retryable(error.code) \in BOOLEAN
    BY DEF Retryable
  <2>4. "fatal" \in ErrorCodes \ {"none", "escaped"}
    BY DEF ErrorCodes
  <2>5. (typed /\ Retryable(error.code)) \in BOOLEAN /\ (IF typed THEN 2 ELSE 1) \in 0..2
    BY <2>3
  <2> QED
    BY <1>3, <2>1, <2>2, <2>4, <2>5 DEF Outcomes
<1>5. response' # NoResponse
  BY <1>1 DEF NoResponse
<1>6. ResponseInv'
  <2>1. /\ response'.counts.calls # -1 => response'.counts = stats
        /\ response'.counts.calls = -1 => response'.counts.downloads = -1
    BY <1>1, CountsTyped
  <2>2. response'.status \in (ErrorCodes \ {"none", "escaped"})
    BY <1>1, <1>2 DEF Errors, Escaped, ErrorCodes
  <2>3. response'.status \notin {"source_candidate", "capture_ready"}
    BY <2>2 DEF ErrorCodes
  <2>4. response'.status = "not_found" => error.code = "not_found"
    BY <1>1
  <2> QED
    BY <1>1, <1>2, <1>3, <1>5, <2>1, <2>3, <2>4 DEF ResponseInv
<1> QED
  BY <1>4, <1>5, <1>6, RespondStep

\* Time passes.
LEMMA ExpireStep == ASSUME IInv, Expire PROVE IInv'
<1> USE DEF Expire, mainVars, ghostVars, worldVars
<1>1. TypeOK'
  BY DEF IInv, TypeOK
<1>2. (RouteInv /\ AnswerInv)'
  BY DEF IInv, RouteInv, AnswerInv, QueryRoute, Pathless
<1>3. (EffectsAuthorized /\ LocalInv)'
  BY DEF IInv, EffectsAuthorized, LocalInv, QueryRoute, Pathless
<1>4. (StatsInv /\ HandleInv /\ ResponseInv)'
  BY DEF IInv, StatsInv, HandleInv, ResponseInv
<1> QED
  BY <1>1, <1>2, <1>3, <1>4 DEF IInv

\* Other processes never take back what is registered.
LEMMA OthersStep == ASSUME IInv, OthersWork PROVE IInv'
<1> USE DEF OthersWork, mainVars, ghostVars
<1>1. missing' \in BOOLEAN /\ (missing => missing') /\ (catalog' = "absent" => missing')
  <2>1. missing' = (missing \/ catalog' = "absent")
    OBVIOUS
  <2> HIDE DEF OthersWork
  <2> QED
    BY <2>1, Zenon
<1>2. catalog \in {"absent", "local"} /\ catalog' \in {"absent", "local", "registered"}
  OBVIOUS
<1>3. TypeOK'
  BY <1>1, <1>2 DEF IInv, TypeOK
<1>4. (RouteInv /\ AnswerInv)'
  BY <1>1, <1>2 DEF IInv, RouteInv, AnswerInv, QueryRoute, Pathless
<1>5. (EffectsAuthorized /\ LocalInv)'
  BY <1>1, <1>2 DEF IInv, EffectsAuthorized, LocalInv, QueryRoute, Pathless
<1>6. (StatsInv /\ HandleInv /\ ResponseInv)'
  BY <1>2 DEF IInv, StatsInv, HandleInv, ResponseInv
<1> QED
  BY <1>3, <1>4, <1>5, <1>6 DEF IInv

\* Nothing happens.
LEMMA StutterStep == ASSUME IInv, UNCHANGED vars PROVE IInv'
<1> USE DEF vars, mainVars, ghostVars, worldVars
<1>1. TypeOK'
  BY DEF IInv, TypeOK
<1>2. (RouteInv /\ AnswerInv)'
  BY DEF IInv, RouteInv, AnswerInv, QueryRoute, Pathless
<1>3. (EffectsAuthorized /\ LocalInv)'
  BY DEF IInv, EffectsAuthorized, LocalInv, QueryRoute, Pathless
<1>4. (StatsInv /\ HandleInv /\ ResponseInv)'
  BY DEF IInv, StatsInv, HandleInv, ResponseInv
<1> QED
  BY <1>1, <1>2, <1>3, <1>4 DEF IInv

\* Every step preserves the invariant.
LEMMA NextIInv == IInv /\ [Next]_vars => IInv'
<1> SUFFICES ASSUME IInv, [Next]_vars PROVE IInv'
  OBVIOUS
<1>1. CASE Main
  BY <1>1, AcceptStep, SkipCompanionStep, ResolveCompanionStep, CompanionRaisesStep, OutputStep,
     ExceptStep DEF Main
<1>2. CASE Call
  BY <1>2, TooLateStep, InvokeStep DEF Call
<1>3. CASE Returns
  <2>1. ASSUME NEW op \in Calls, CallReturns(op) PROVE IInv'
    BY <2>1, CallFailsStep, ContendedStep, UnreadableStep, RejectedStep, RefusedStep, FoundStep
       DEF CallReturns
  <2> QED
    BY <1>3, <2>1, IdentifiedStep, PreparedStep DEF Returns
<1>4. CASE ChildWorks
  BY <1>4, ChildStep
<1>5. CASE Expire \/ OthersWork
  BY <1>5, ExpireStep, OthersStep
<1>6. CASE Done \/ UNCHANGED vars
  BY <1>6, StutterStep DEF Done
<1> QED
  BY <1>1, <1>2, <1>3, <1>4, <1>5, <1>6 DEF Next

\* The invariant holds at all times.
LEMMA SpecIInv == Spec => []IInv
  BY InitIInv, NextIInv, PTL DEF Spec

\* Only Accept lets a request in, and nothing changes it.
AcceptedInv == pc \notin {"main", "except", "done"} => request.verdict = "accepted"

LEMMA AcceptedStep == IInv /\ AcceptedInv /\ [Next]_vars => AcceptedInv'
<1> SUFFICES ASSUME IInv, AcceptedInv, [Next]_vars PROVE AcceptedInv'
  OBVIOUS
<1> USE DEF AcceptedInv, Raise, GoTo
<1>1. CASE Main
  BY <1>1 DEF Main, Accept, SkipCompanion, ResolveCompanion, CompanionRaises, Output, Except
<1>2. CASE Call
  BY <1>2 DEF Call, TooLate, Invoke, Calls
<1>3. CASE Returns
  <2>1. ASSUME NEW op \in Calls, CallReturns(op) PROVE AcceptedInv'
    BY <2>1 DEF CallReturns, CallFails, Contended, Unreadable, Rejected, Refused, Found, Return,
       Consumed, Calls
  <2>2. CASE Identified \/ Prepared
    BY <2>2 DEF Identified, Prepared, Consumed
  <2> QED
    BY <1>3, <2>1, <2>2 DEF Returns
<1>4. CASE ChildWorks \/ Expire \/ OthersWork
  BY <1>4 DEF ChildWorks, Expire, OthersWork
<1>5. CASE Done \/ UNCHANGED vars
  BY <1>5 DEF Done, vars
<1> QED
  BY <1>1, <1>2, <1>3, <1>4, <1>5 DEF Next

\* Only a candidate that was accepted becomes the handle.
LEMMA DeliveredStep == DeliversWhatWasAsked /\ [Next]_vars => DeliversWhatWasAsked'
<1> SUFFICES ASSUME DeliversWhatWasAsked, [Next]_vars PROVE DeliversWhatWasAsked'
  OBVIOUS
<1>1. CASE UNCHANGED <<request, handle>>
  BY <1>1 DEF DeliversWhatWasAsked, Pathless
<1>2. ASSUME NEW op \in Calls, Found(op) PROVE DeliversWhatWasAsked'
  <2>1. UNCHANGED request /\ (handle' = Gap \/ \E c \in Candidates :
          Usable(c) /\ handle' = Candidate(child.events, Opened(c), c.says_company))
    BY <1>2 DEF Found, Return, Consumed
  <2>2. CASE handle' = Gap
    BY <2>2 DEF Gap, DeliversWhatWasAsked
  <2>3. ASSUME NEW c \in Candidates, Usable(c), handle' = Candidate(child.events, Opened(c), c.says_company)
        PROVE  DeliversWhatWasAsked'
    BY <2>1, <2>3 DEF DeliversWhatWasAsked, Candidate, Usable, Opened, Pathless, CandidateAccepted,
       LegacyHandleAccepted, HandleAccepted, Bound, Suits
  <2> QED
    BY <2>1, <2>2, <2>3
<1>3. CASE Main
  BY <1>1, <1>3 DEF Main, Accept, SkipCompanion, ResolveCompanion, CompanionRaises, Output, Except,
     Raise, GoTo, mainVars
<1>4. CASE Call
  BY <1>1, <1>4 DEF Call, TooLate, Invoke, Raise, mainVars
<1>5. CASE Returns
  <2>1. ASSUME NEW op \in Calls, CallReturns(op), ~Found(op) PROVE UNCHANGED <<request, handle>>
    BY <2>1 DEF CallReturns, CallFails, Contended, Unreadable, Rejected, Refused, Consumed, Raise,
       GoTo, mainVars
  <2>2. CASE Identified \/ Prepared
    BY <1>1, <2>2 DEF Identified, Prepared, Consumed, Raise, GoTo, mainVars
  <2> QED
    BY <1>1, <1>2, <1>5, <2>1, <2>2 DEF Returns
<1>6. CASE ChildWorks \/ Expire \/ OthersWork
  BY <1>1, <1>6 DEF ChildWorks, Expire, OthersWork, mainVars
<1>7. CASE Done \/ UNCHANGED vars
  BY <1>1, <1>7 DEF Done, vars, mainVars
<1> QED
  BY <1>3, <1>4, <1>5, <1>6, <1>7 DEF Next

-----------------------------------------------------------------------------
(* The theorems. *)

\* One request of scripts/fetch_filing.py keeps its state well-typed, and its
\* response within the wire vocabulary.
THEOREM TypeCorrect == Spec => []TypeOK
<1>1. IInv => TypeOK
  BY DEF IInv
<1> QED
  BY <1>1, SpecIInv, PTL

\* A request without download intent never commits a download, and one that is not
\* for the latest filing, nor a v2 reuse, never writes to the catalog: on every
\* route, with every configuration, after every failure and retry.
THEOREM EffectsAuthorizedAlways == Spec => []EffectsAuthorized
<1>1. IInv => EffectsAuthorized
  BY DEF IInv
<1> QED
  BY <1>1, SpecIInv, PTL

\* The calls of a response are the calls that were made for it (READ-09), however
\* they ended; a companion's call after the deadline is counted and not made.
THEOREM CallsReconciledAlways == Spec => []CallsReconciled
<1>1. IInv => CallsReconciled
  BY DEF IInv, ResponseInv, StatsInv, CallsReconciled
<1> QED
  BY <1>1, SpecIInv, PTL

\* A download that is reported was committed, and a filing that is delivered reports
\* the events of its own answer (READ-10).
THEOREM DownloadsReconciledAlways == Spec => []DownloadsReconciled
<1>1. ASSUME IInv, response # NoResponse, response.counts.downloads = 1
      PROVE  commits > 0 /\ catalog = "registered"
  BY <1>1 DEF IInv, ResponseInv, StatsInv
<1>2. ASSUME IInv, response # NoResponse, response.status \in {"source_candidate", "capture_ready"}
      PROVE  response.counts.downloads = receipt
  BY <1>2 DEF IInv, ResponseInv, StatsInv
<1>3. IInv => DownloadsReconciled
  BY <1>1, <1>2 DEF DownloadsReconciled
<1> QED
  BY <1>3, SpecIInv, PTL

\* The companion transcript never changes what is answered of the filing, and none is
\* sought without a filing.
THEOREM CompanionKeepsSuccessAlways == Spec => []CompanionKeepsSuccess
<1>1. ASSUME IInv, pc = "done", handle.kind = "candidate"
      PROVE  response.exit = 0 /\ response.status # "gap"
  BY <1>1 DEF IInv, ResponseInv
<1>2. ASSUME IInv, pc = "done", response.transcript \in Dispatched
      PROVE  response.status = "source_candidate"
  <2>1. transcript \in Dispatched /\ transcript # "none"
    BY <1>2 DEF IInv, ResponseInv, Dispatched, CompanionStatuses
  <2> QED
    BY <1>2, <2>1 DEF IInv, ResponseInv, HandleInv
<1>3. IInv => CompanionKeepsSuccess
  BY <1>1, <1>2 DEF CompanionKeepsSuccess
<1> QED
  BY <1>3, SpecIInv, PTL

\* A v2 reuse does not miss a source that was there all the time, in the catalog or
\* next to it, whatever other processes register meanwhile.
THEOREM LocalFileFoundAlways == Spec => []LocalFileFound
<1>1. IInv => LocalFileFound
  BY DEF IInv, ResponseInv, LocalInv, LocalFileFound
<1> QED
  BY <1>1, SpecIInv, PTL

\* No source call of a request is unbounded: the years, and the ceilings that a v2 call
\* that may reach a provider must have, were checked before its first call.
THEOREM WorkBoundedAlways == Spec => []WorkBounded
<1>1. Init => AcceptedInv
  BY DEF Init, AcceptedInv
<1>2. ASSUME IInv, AcceptedInv PROVE WorkBounded
  <2> SUFFICES ASSUME child.state # "idle", child.op # "identify"
               PROVE  /\ request.raw.version # "1.1" =>
                           request.raw.year = "good" \/ request.raw.mode = "latest_as_of"
                      /\ child.op = "ensure" /\ request.raw.version = "2.0" => request.raw.limits = "good"
    BY DEF WorkBounded
  <2>1. child.op = pc /\ child.op \in Calls /\ request \in Requests
    BY <1>2, ChildTyped DEF IInv, RouteInv, TypeOK, Types
  <2>2. request.raw \in RawRequests /\ request = Request(request.raw) /\ request.verdict = "accepted"
    BY <1>2, <2>1, FetchAssumption DEF AcceptedInv, Calls
  <2>3. /\ Verdict(request.raw) = "accepted" /\ request.download = DownloadIntent(request.raw)
        /\ request.latest = (request.raw.mode = "latest_as_of")
        /\ request.raw.version = "2.0" => request.version = 2
    BY <2>2 DEF Request
  <2>4. child.op = "ensure" /\ request.raw.version = "2.0" => request.download \/ request.latest
    BY <1>2, <2>1, <2>3 DEF IInv, RouteInv, QueryRoute, Pathless
  <2> QED
    BY <2>2, <2>3, <2>4, AcceptedBounds
<1> QED
  BY <1>1, <1>2, SpecIInv, AcceptedStep, PTL DEF Spec

\* Whatever candidates company-wiki answers with, the document that the caller is given
\* to open is the one that was asked for.
THEOREM DeliversWhatWasAskedAlways == Spec => []DeliversWhatWasAsked
<1>1. Init => DeliversWhatWasAsked
  BY DEF Init, DeliversWhatWasAsked, NoHandle
<1> QED
  BY <1>1, DeliveredStep, PTL DEF Spec
=============================================================================
