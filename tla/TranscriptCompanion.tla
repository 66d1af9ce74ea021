------------------------- MODULE TranscriptCompanion -------------------------
(***************************************************************************)
(* The transcript of one exact fiscal quarter next to a filing:            *)
(* scripts/transcript_companion.py over the transport of                   *)
(* scripts/transcript_tool_transport.py, with the reading of a local query *)
(* in scripts/transcript_reuse_selection.py.  One lookup in company-wiki,  *)
(* then at most one run of the earnings-transcripts tool (ET), which       *)
(* charges the provider's account, and the import of what it fetched.      *)
(* Other processes import and annotate transcripts meanwhile.  Deadlines   *)
(* are the moment after which no child is started; paths, credentials and  *)
(* hashes are good or bad.                                                 *)
(***************************************************************************)
EXTENDS Integers, Sequences, TranscriptResult

CONSTANTS
  Options,     \* the uses considered: a subset of AnyOption
  MaxRequests  \* bound: HTTP requests that one run of ET makes

\* "companion" is resolve_companion_transcript; "direct" is acquire_exact for a
\* transcript that this transport has not looked up.
AnyOption == [entry : {"companion", "direct"}, intent : {"reuse_only", "fetch_if_missing"},
              provider : {"any", "fmp", "unsupported"}]

ASSUME CompanionAssumption == Options \subseteq AnyOption /\ MaxRequests \in Nat \ {0}

VARIABLES
  option,   \* the use
  pc,       \* the call that is next
  child,    \* the child of the present call
  late,     \* the shared deadline has passed
  request_id, \* _pending holds a request id
  usage,    \* _last_provider_usage
  calls,    \* company_wiki_calls
  result,   \* the transcript part of the response
  catalog,  \* the transcript that company-wiki has, or Missing
  started,  \* company-wiki children started
  runs,     \* runs of ET
  requests, \* HTTP requests that ET made
  answer,   \* the last query answer that was read
  manifest  \* the manifest of the last verified open

transportVars == <<request_id, usage, calls>>
ghostVars == <<started, runs, requests, answer, manifest>>
vars == <<option, pc, child, late, transportVars, result, catalog, ghostVars>>

Dates == {"eligible", "after_as_of", "unknown"}
Documents == [provider : {"fmp", "other"}, date : Dates, match : BOOLEAN]
Missing == [provider |-> "none", date |-> "unknown", match |-> FALSE]
\* What a reader of an earlier version says of the bytes that it opens.
NoManifest == [provider |-> "none", date |-> "unknown", match |-> TRUE]

Idle == [state |-> "idle"]
Running(op) == [state |-> "running", op |-> op]
Answered(op, payload) == [state |-> "answered", op |-> op, payload |-> payload]

\* Usage: a number of requests, or what stands for it.
Absent  == -2
Unknown == -1
Result(status, retryable, attempts, used) ==
  [status |-> status, retryable |-> retryable, provider_calls |-> attempts, usage |-> used]
Plain(status) == Result(status, FALSE, Absent, Absent)
NoResult == Plain("none")
\* _local_unavailable: a named refusal before any request.
LocalUnavailable == Result("provider_unavailable", FALSE, 0, 0)
-----------------------------------------------------------------------------
(* What a local query says. *)

\* The wire: a status, the date of the one candidate, and the publication
\* statuses of the excluded ones.
Wire(status, published, excluded) ==
  [status |-> status, published |-> published, excluded |-> excluded]
NonReuse == {"ambiguous", "blocked", "unavailable", "not_indexed"}
\* A result that breaks the contract.
Garbled == Wire("garbled", "unknown", << >>)

Visible == catalog # Missing /\ (option.provider = "any" \/ catalog.provider = option.provider)
Wires ==
  IF ~Visible THEN {Wire("not_found", "unknown", << >>)}
  ELSE CASE catalog.date = "eligible" -> {Wire("found", "eligible", << >>)}
         [] catalog.date = "after_as_of" -> {Wire("not_found", "unknown", <<"after_as_of">>)}
         [] catalog.date = "unknown" ->
              {Wire("unknown_publication", "unknown", << >>), Wire("found", "unknown", << >>),
               Wire("not_found", "unknown", <<"unknown">>),
               Wire("not_found", "unknown", <<"unknown", "after_as_of">>)}
Refusals == {Wire(s, "unknown", << >>) : s \in NonReuse} \cup {Garbled}
Exclusions == {<< >>, <<"unknown">>, <<"after_as_of">>, <<"unknown", "after_as_of">>}
Answers == {Wire(s, d, x) : s \in {"found", "not_found", "unknown_publication"},
                            d \in {"eligible", "unknown"}, x \in Exclusions} \cup Refusals

\* An excluded candidate is evidence that the transcript exists.
NothingUsable(excluded) == excluded # <<"unknown">>
NoCandidate(excluded) == excluded = << >>
\* select_local_outcome
Select(wire) ==
  CASE wire = Garbled -> "contract"
    [] wire.status \in {"found", "unknown_publication"} ->
         IF wire.status = "found" /\ wire.published # "unknown" THEN "match" ELSE "unknown_publication"
    [] wire.status \in NonReuse -> "status"
    [] wire.status = "not_found" ->
         IF NoCandidate(wire.excluded) THEN "missing"
         ELSE IF wire.excluded = <<"unknown">> THEN "unknown_excluded" ELSE "gap"
-----------------------------------------------------------------------------
Init ==
  /\ option \in Options
  /\ pc = "prepare" /\ child = Idle /\ late \in BOOLEAN
  /\ request_id = FALSE /\ usage = Absent /\ calls = 0 /\ result = NoResult
  /\ catalog \in Documents \cup {Missing}
  /\ started = 0 /\ runs = 0 /\ requests = 0 /\ answer = Garbled /\ manifest = Missing

GoTo(step) == pc' = step /\ UNCHANGED result
Finish(r) == pc' = "done" /\ result' = r

\* An exception that the transport does not handle: the companion answers it, a
\* direct caller gets it.
Exception == IF option.entry = "companion" THEN Result("upstream_error", TRUE, Absent, Absent)
             ELSE Plain("raised")
\* An exception of the import or of its verified open, after ET delivered.
ImportFailed == Result("upstream_error", FALSE, 1, usage)

Prepare ==
  /\ pc = "prepare"
  /\ IF option.provider = "unsupported" THEN Finish(Plain("request_error"))
     ELSE GoTo(IF option.entry = "companion" THEN "lookup" ELSE "requery")
  /\ UNCHANGED <<option, child, late, transportVars, catalog, ghostVars>>

\* The company-wiki calls, and what a failure of each becomes.
WikiSteps == {"lookup", "open", "requery", "import", "verify"}
Failure(step) == IF step \in {"import", "verify"} THEN ImportFailed ELSE Exception

\* A call is counted before its deadline is looked at.
CountedUnlessOpen(step) == IF step \in {"open", "verify"} THEN calls ELSE calls + 1
Counted(step) == calls + 1
CallWiki(step) ==
  /\ pc = step /\ child = Idle /\ calls' = Counted(step)
  /\ IF late THEN Finish(Failure(step)) /\ UNCHANGED <<child, started>>
     ELSE child' = Running(step) /\ started' = started + 1 /\ UNCHANGED <<pc, result>>
  /\ UNCHANGED <<option, late, request_id, usage, catalog, runs, requests, answer, manifest>>

\* Exceptions that the transport handles, and others ("can't start new thread").
WikiFails(step) ==
  /\ pc = step /\ child.state # "idle"
  /\ Finish(Failure(step)) \/ Finish(Exception)
  /\ child' = Idle
  /\ UNCHANGED <<option, late, transportVars, catalog, ghostVars>>

WikiAnswers ==
  /\ child.state = "running"
  /\ \/ /\ child.op \in {"lookup", "requery"}
        /\ \E wire \in Wires \cup Refusals : child' = Answered(child.op, wire)
        /\ UNCHANGED catalog
     \/ /\ child.op \in {"open", "verify"} /\ catalog # Missing
        /\ \E m \in {catalog, NoManifest} : child' = Answered(child.op, m)
        /\ UNCHANGED catalog
     \/ /\ child.op = "import"
        /\ \/ child' = Answered("import", "rejected") /\ UNCHANGED catalog
           \/ /\ child' = Answered("import", "imported")
              /\ IF catalog.provider = "fmp" THEN UNCHANGED catalog
                 ELSE catalog' \in {d \in Documents : d.provider = "fmp"}
  /\ UNCHANGED <<option, pc, late, transportVars, result, ghostVars>>
-----------------------------------------------------------------------------
(* The lookup. *)

\* _read_lookup: an unknown date is answered without opening when the query
\* excluded the candidate for it and the caller asked for no provider.
Delivered(step) == pc = step /\ child.state = "answered" /\ child' = Idle
AfterMiss == IF option.intent = "fetch_if_missing" THEN GoTo("acquire") ELSE Finish(Plain("not_found"))

ReadLookup ==
  /\ Delivered("lookup")
  /\ LET kind == Select(child.payload)
     IN  \/ kind = "missing" /\ AfterMiss
         \/ kind \in {"match", "unknown_publication"} /\ GoTo("open")
         \/ kind = "unknown_excluded"
            /\ IF option.provider = "any" THEN Finish(Plain("unknown_publication")) ELSE GoTo("open")
         \/ kind = "status"
            /\ Finish(Plain(IF child.payload.status = "ambiguous" THEN "ambiguous" ELSE "upstream_error"))
         \/ kind \in {"gap", "contract"} /\ Finish(Plain("upstream_error"))
  /\ answer' = child.payload
  /\ request_id' \in BOOLEAN
  /\ UNCHANGED <<option, late, usage, calls, catalog, started, runs, requests, manifest>>

\* _verified_lookup: the manifest that came with the bytes decides, not the query.
PublishedThen(m) == answer.published
Published(m) == IF m = NoManifest THEN answer.published ELSE m.date
Verdict(date) ==
  CASE date = "eligible" -> Plain("reused") [] date = "unknown" -> Plain("unknown_publication")
    [] OTHER -> Plain("upstream_error")
ReadOpen ==
  /\ Delivered("open")
  /\ LET m == child.payload
     IN  \/ /\ \/ ~m.match
               \/ option.provider # "any" /\ m.provider # option.provider
            /\ Finish(Plain("upstream_error"))
         \/ /\ m.match /\ option.provider \in {"any", m.provider}
            /\ Finish(Verdict(Published(m)))
  /\ manifest' = child.payload
  /\ UNCHANGED <<option, late, transportVars, catalog, started, runs, requests, answer>>

\* acquire_exact without a lookup: any answer but a miss is a change of answer.
ReadRequery ==
  /\ Delivered("requery")
  /\ IF Select(child.payload) = "missing" THEN GoTo("acquire")
     ELSE Finish(Result("upstream_error", FALSE, 0, Absent))
  /\ answer' = child.payload
  /\ request_id' \in BOOLEAN
  /\ UNCHANGED <<option, late, usage, calls, catalog, started, runs, requests, manifest>>
-----------------------------------------------------------------------------
(* The acquisition. *)

\* Before ET: no request id, no tool or credentials, no deadline left for it.
RefuseAcquisition ==
  /\ pc = "acquire" /\ child = Idle
  /\ \/ ~request_id /\ Finish(Result("upstream_error", FALSE, 0, Absent))
     \/ request_id /\ Finish(LocalUnavailable)
     \/ request_id /\ late /\ Finish(Result("provider_unavailable", FALSE, 0, Absent))
     \/ request_id /\ Finish(Result("provider_unavailable", TRUE, 0, Absent))
  /\ UNCHANGED <<option, child, late, transportVars, catalog, ghostVars>>

StartET ==
  /\ pc = "acquire" /\ child = Idle /\ request_id /\ ~late
  /\ child' = Running("et") /\ runs' = runs + 1
  /\ UNCHANGED <<option, pc, late, transportVars, result, catalog, started, requests, answer, manifest>>

\* ET asks the provider, and answers with a receipt of its requests or without.
ETRequests ==
  /\ child = Running("et") /\ requests < MaxRequests /\ requests' = requests + 1
  /\ UNCHANGED <<option, pc, child, late, transportVars, result, catalog, started, runs, answer, manifest>>
\* "local" is a refusal that ET makes before its first request, "again" an error
\* of the provider that may pass.
ETOutcomes == {"fetched", "not_found", "local", "again", "failed", "unreadable", "other_request"}
ETAnswers ==
  /\ child = Running("et")
  /\ \E o \in ETOutcomes, r \in {requests, Unknown} :
       /\ o = "local" => requests = 0
       /\ o \in {"fetched", "not_found"} => requests > 0
       /\ child' = Answered("et", [outcome |-> o, receipt |-> r])
  /\ UNCHANGED <<option, pc, late, transportVars, result, catalog, ghostVars>>

\* The run of ET fails: a limit or a deadline leaves its usage unknown, an OSError
\* counts no attempt, and any other exception is not handled.
TransportFailureZero(known) == Result("provider_unavailable", FALSE, 1, 0)
TransportFailure(known) == Result("provider_unavailable", FALSE, 1, known)
ETFails ==
  /\ pc = "acquire" /\ child.state # "idle"
  /\ \/ Finish(TransportFailure(Unknown))
     \/ Finish(Result("provider_unavailable", FALSE, 0, Absent))
     \/ Finish(Exception)
  /\ child' = Idle
  /\ UNCHANGED <<option, late, transportVars, catalog, ghostVars>>

\* Retrying is offered only when the usage is known.
RetryableAlways(outcome, receipt) == outcome = "again"
RetryableET(outcome, receipt) == outcome = "again" /\ receipt # Unknown
ReadET ==
  /\ Delivered("acquire")
  /\ LET o == child.payload.outcome
         r == child.payload.receipt
     IN  /\ usage' = r
         /\ \/ o = "fetched" /\ GoTo("import")
            \/ o = "not_found" /\ Finish(Result("not_found", FALSE, 1, r))
            \/ o = "local" /\ \E again \in {FALSE, RetryableET("again", r)} :
                               Finish(Result("provider_unavailable", again, 0, r))
            \/ o \in {"again", "failed", "unreadable"}
               /\ Finish(Result("provider_unavailable", RetryableET(o, r), 1, r))
            \/ o = "other_request" /\ Finish(Result("upstream_error", FALSE, 1, r))
  /\ UNCHANGED <<option, late, request_id, calls, catalog, ghostVars>>

\* company-wiki owns the bytes: they are imported, and opened again.
ReadImport ==
  /\ Delivered("import")
  /\ IF child.payload = "imported" THEN GoTo("verify") \/ Finish(ImportFailed) ELSE Finish(ImportFailed)
  /\ UNCHANGED <<option, late, transportVars, catalog, ghostVars>>
ReadVerify ==
  /\ Delivered("verify")
  /\ Finish(Result("downloaded", FALSE, 1, usage))
  /\ manifest' = child.payload
  /\ UNCHANGED <<option, late, transportVars, catalog, started, runs, requests, answer>>
-----------------------------------------------------------------------------
Expire ==
  /\ ~late /\ late' = TRUE
  /\ UNCHANGED <<option, pc, child, transportVars, result, catalog, ghostVars>>
\* Other processes import a transcript, or correct the manifest of one.
OthersImport ==
  /\ catalog = Missing /\ catalog' \in Documents
  /\ UNCHANGED <<option, pc, child, late, transportVars, result, ghostVars>>
OthersAnnotate ==
  /\ catalog # Missing /\ \E d \in Dates : catalog' = [catalog EXCEPT !.date = d]
  /\ UNCHANGED <<option, pc, child, late, transportVars, result, ghostVars>>
Done == pc = "done" /\ UNCHANGED vars

Lookup == Prepare \/ ReadLookup \/ ReadOpen \/ ReadRequery
Acquisition == RefuseAcquisition \/ StartET \/ ETFails \/ ReadET \/ ReadImport \/ ReadVerify
Wiki == WikiAnswers \/ \E step \in WikiSteps : CallWiki(step) \/ WikiFails(step)
Next == Lookup \/ Acquisition \/ Wiki \/ ETRequests \/ ETAnswers
        \/ Expire \/ OthersImport \/ OthersAnnotate \/ Done

Spec == Init /\ [][Next]_vars
-----------------------------------------------------------------------------
(* Properties. *)

Places == WikiSteps \cup {"prepare", "acquire", "done"}
Receipts == {Unknown} \cup 0..MaxRequests
Children ==
  {Idle} \cup {Running(op) : op \in WikiSteps \cup {"et"}}
    \cup {Answered(op, w) : op \in {"lookup", "requery"}, w \in Answers}
    \cup {Answered(op, m) : op \in {"open", "verify"}, m \in Documents \cup {NoManifest}}
    \cup {Answered("import", a) : a \in {"imported", "rejected"}}
    \cup {Answered("et", [outcome |-> o, receipt |-> r]) : o \in ETOutcomes, r \in Receipts}
Results ==
  [status : CompanionStatuses("fetch_if_missing") \cup {"none", "raised"},
   retryable : BOOLEAN, provider_calls : {Absent, 0, 1}, usage : Absent..MaxRequests]

TypeOK ==
  /\ option \in Options /\ pc \in Places /\ child \in Children
  /\ late \in BOOLEAN /\ request_id \in BOOLEAN
  /\ usage \in Absent..MaxRequests /\ calls \in 0..CompanionCalls
  /\ result \in Results
  /\ catalog \in Documents \cup {Missing}
  /\ started \in 0..CompanionCalls /\ runs \in 0..1 /\ requests \in 0..MaxRequests
  /\ answer \in Answers /\ manifest \in Documents \cup {Missing, NoManifest}

\* "Reuse an exact transcript, then acquire at most once if requested": the tool
\* that charges the account runs once, only for a caller who asked for it, and
\* only after a query that named no candidate at all, excluded ones included.
AcquiredAfterMiss ==
  runs > 0 => /\ runs = 1
              /\ option.entry = "direct" \/ option.intent = "fetch_if_missing"
              /\ answer.status = "not_found" /\ answer.excluded = << >>

\* A reused transcript is the one asked for, of the provider asked for, and was
\* published in time: by the manifest of the bytes that were opened, although the
\* catalog may have changed since the query.
ReuseVerified ==
  result.status = "reused" =>
    /\ manifest.match /\ option.provider \in {"any", manifest.provider}
    /\ IF manifest = NoManifest THEN answer.published = "eligible" ELSE manifest.date = "eligible"

\* The companion's answer to an exception that acquire_exact does not handle: after a
\* run of ET it erases the usage and offers a retry, whatever the account was charged.
Escaped == runs > 0 /\ result = Exception

\* Reported usage is what the provider was asked, whichever step failed.  Unless an
\* exception escapes acquire_exact, a measured receipt is in the answer ("import or
\* verified-open failures cannot erase it"), and unknown usage "is not automatically
\* retried".  Of an answer that is Escaped the last two are false in the code.
MeasuredUsageKept ==
  /\ result.usage >= 0 => result.usage = requests
  /\ pc = "done" /\ runs > 0 /\ ~Escaped =>
       /\ usage >= 0 => result.usage = usage
       /\ result.retryable => result.usage >= 0

\* What FilingFetch relies on: the status it may get, and a count that has every
\* child, and at most one more: a call that the deadline stopped.
AnswersAsPromised ==
  pc = "done" =>
    /\ option.entry = "companion" => result.status \in CompanionStatuses(option.intent)
    /\ started <= calls /\ calls <= started + 1 /\ calls <= CompanionCalls
    /\ calls # started => late

\* "Only this pre-Popen boundary proves no target/provider could run. Cleanup or
\* pipe errors after this point must retain unknown usage": an answer that counts
\* no attempt made no request.
ZeroAttemptsProven == result.provider_calls = 0 => requests = 0
=============================================================================
