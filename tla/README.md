# A verification project for filing-fetch

filing-fetch resolves one company filing for a caller: it reads a JSON request on stdin, asks
company-wiki (a separate program with a catalog of documents behind a lock) through bounded child
processes, lets company-wiki download the filing only when the caller asked for that, attaches a
companion transcript to a v2 answer, and writes one JSON response with an exit code. This directory
holds TLA+ models of that program, TLC runs on small instances, and TLAPS proofs for all instances.
Paths below are relative to `src/`.

## 1. The system

| Component | Files | State it keeps | Operations | How it interacts |
|---|---|---|---|---|
| Bounded process transport | `scripts/ff_process_transport.py`, `ff_process_tree.py` | stream state under a lock (`retained`, `finished`, `error`, `stderr_truncated`), the owned process group | validate, spawn, start threads, await lifetime, cleanup in five steps; two readers and a writer | every child of the program goes through `run_bounded`; pipes, signals, threads |
| Upstream cause diagnostics | `scripts/ff_provider_cause.py` | none (tables) | classify stderr, a receipt, or a condition, into a filing code and a cause | called by every company-wiki call and by the retry loop |
| Catalog retry loop | `scripts/fetch_filing.py` (`_run_company_wiki_json_retry`) | attempt, backoff, remaining time, last cause, `stats["calls"]` | check the deadline, call, classify, sleep with jitter, raise | several processes contend for one catalog lock |
| Filing request | `scripts/fetch_filing.py` (`main`, `resolve_filing`), `ff_local_source_prepare.py`, `ff_v2_envelope.py` | the route, `stats`, the handle, the response | identify, query / prepare locally / query again, ensure, resolve, companion, output, exception | composes the calls above and the companion |
| Companion transcript | `scripts/transcript_companion.py`, `transcript_tool_transport.py`, `transcript_reuse_selection.py` | `_pending`, `_last_provider_usage`, `company_wiki_calls` | lookup, verified open, requery, acquire by a charging tool, import, verify | company-wiki children and the earnings-transcripts tool (ET) |
| Installer | `tools/sync_installs_b3.py` | the plan and the result rows; on disk the targets and a temporary per file | plan, check, install (read, stage, verify, compare, replace, clean up) | people and other installers change package and targets meanwhile |
| Request and candidate contracts | `scripts/filing_contracts.py`, `ff_source_ref.py`, `ff_source_candidate.py`, `ff_source_failure.py`, ... | none | accept or refuse a request, an answer, a candidate, a handle | decide what the filing request may ask and what it may deliver |
| Configuration and connection | `scripts/ff_configuration.py`, `ff_company_wiki_connection.py` | none | read one of two forms, resolve its place, name a command | gives both clients of company-wiki their commands |
| Financial statements | `scripts/fetch_statements.py`, `ff_financial_statements.py` | the place in `main`, the child, the response | read, validate, one bounded call, read its answer, exit code | the transport; a company-wiki command that may fetch at a public provider |
| Offline contract matrix | `tools/offline_contract_matrix/` | results and traces of worker groups, one shared deadline, proofs, evidence on disk | select, schedule, run groups, prove, merge, clean up, audit, report | threads that run the program against fixtures, each group in a wiki of its own; children through the same transport |
| Repository gates | `tools/ci_tests.py`, `pre_push_gate.py`, ... | an exit code | sequential checks | subprocesses |

What is hard in each of these, and what makes it correct:

* **Transport**: four threads, a process tree and two clocks interleave. A result must be complete
  and within its caps, nothing may be left behind after a clean outcome, diagnostics must not block
  or veto a payload, and the call must return whatever the child does.
* **Retry loop**: only contention may be retried; the backoff must keep its schedule; a request must
  end near its deadline; no cause may claim that the provider was not asked when it may have been.
* **Filing request**: routes, read-only by default; a child may be killed or its answer lost after it
  wrote; the counts in the response must be those of what happened; the companion may not change the
  filing's success; a local file must be found in spite of other processes.
* **Companion**: the tool costs money. It may run once, and only after a clean miss; usage must be
  exact or unknown, and unknown usage not retried; a reused document is verified by its bytes.
* **Contracts**: the bounds of a request are decided in several functions, by version, mode and intent;
  a candidate names its document in three places, and each rule compares two of them. No combination
  may reach a source call without its bounds, or deliver another document than the one asked for.
* **Statements**: a child that fails in many ways, with or without an answer on its stdout. The answer
  must be true to the child, and no child may work at the provider beyond its caller's ceilings.
* **Installer**: no lock. A run may fail or die between any two steps, and others edit the same
  files: no user state is lost, no unplanned byte is written, reports are true, reruns converge.
* **Contract matrix**: worker threads, one absolute deadline and a reserve for the last proof. The exit
  code and the report may claim only what was run and proved, whichever group, proof or cleanup
  fails; case work leaves the reserve; the batch ends, and with it every child it started.

`PROJECT.json` lists every hazard with its source line and the properties that cover it.

## 2. The modules

| Module | Models | How its state and actions correspond to the code |
|---|---|---|
| `ProcessTransport` | one `run_bounded` call on POSIX | `pc` is the controller's place in `run_bounded`, `_await_lifetime` and `_cleanup`; one action per thread step (a read, its end, a write), per process step (fork, setsid, write, close, exit, reap) and per clock. Stream content is its length: each pipe has one reader, which reads in order. `stderrCap` is the window of this call, or `None` |
| `BoundedCall` | what a caller may rely on | phase, result, workers; the abstract specification that `ProcessTransport` implements |
| `ProviderCause` | the tables and constructors of causes | operators; no state. The code's two tables of contention codes (`_CATALOG_CONTENTION_CODES`, `_CATALOG_RETRY_CODES`) are equal, and one set here, `RetryCodes` |
| `SourceFailure` | `_raise_operation_business_failure` and what it calls | operators: the code and the cause of what a failing child left on stdout. A result is unreadable, of another contract, or a refusal, with or without a receipt and a local preparation that blocked it |
| `RetriedCall` | what the retry loop promises a request | calls one at a time, each but the last contended, then an answer or the latest contention; the abstract specification that `CatalogRetry` implements |
| `CatalogRetry` | `_run_company_wiki_json_retry` and `_run_company_wiki_json`, several processes, one lock | the loop's locals per client, `calls` for `stats["calls"]`; time is whole seconds; a call is the promise of `BoundedCall` |
| `RequestRules` | `validate_request` and its rules, `_download_intent`, the companion's option | operators over raw requests: of a field they keep whether it is there and what the rules tell apart in it. `Request(raw)` is what `main` goes on with, or why it refuses |
| `CandidateRules` | `validate_source_ref`, `validate_source_candidate`, the handle rules of `filing_contracts.py` | operators over answers that name a document in several places, which need not be the same document |
| `ConnectionRules` | both forms of the configuration | operators: is it accepted, and which commands does it give |
| `FilingFetch` | `main` to the response | `pc` is the call or part of `main` that is next; a company-wiki call is three steps (invoke, the child works, the answer is read), so that it can be killed or contended before or after its work. The three modules of rules decide what is asked, with which `configuration`, and what is delivered |
| `TranscriptCompanion` | the companion and direct acquisitions | `request_id` for `_pending`, `usage` for `_last_provider_usage`, `calls`; children as above; ET's requests are counted one by one |
| `TranscriptResult` | statuses and call bound that `FilingFetch` assumes and `TranscriptCompanion` is shown to keep (`AnswersAsPromised`) | operators |
| `StatementsFetch` | `fetch_statements.py` over `ff_financial_statements.py` | `pc` is the place of `main`; the child works in one step and answers in another, so that it can be stopped in between |
| `Clients` | the companion and the statements client side by side | `client` is the script that a process runs; it takes the steps of that one (`TranscriptCompanion`, or `Statements`, an instance of `StatementsFetch`), and they share no state |
| `Installer` | `plan_installations`, `_apply`, `main` | one action per file operation; `rows`, `needs`, `before`, `expected` are the plan, `errors`, `written`, `leftovers` the result rows |
| `CaseScheduling` | `static_cost` and `assign_groups` of `case_scheduling.py` | operators; no state. `Plans` is the loop of the greedy, one case at a time |
| `MatrixRun` | `main` and `run_case_group` of the contract matrix | `pc` is main's place, `gpc` each group's; `queue`, `start`, `window` are the loop's locals, `ran` and `done` its traces and results, `parts` and `merged` the proofs, `rows` and `exit` the report; time is whole units, and passes only while somebody waits for a child |
| `MC*` | the instances for TLC | constants; `MCMatrixRun` also evaluates the promises of the scheduler over every cost of small registries (`SchedulingPromises`) |
| `RecursionTheorems` | no code | induction over sets of naturals, and that recursion over them defines a function |
| `*_proofs` | the theorems | see section 5 |

`CatalogRetry` and `FilingFetch` both use `SourceFailure`, which extends `ProviderCause`. The former has
every receipt and local preparation that a refusal may carry (`ChildRefuses`), the latter refusals
without either: there the cause only travels into the response. `FilingFetch` does not repeat the time
of `CatalogRetry`: in it contention is a repeated call and the deadline a moment, which is the form that
`RetriedCall` gives to the loop. `TranscriptCompanion` is one action of `FilingFetch`
(`ResolveCompanion`), which may answer anything that `TranscriptResult` allows; that
`TranscriptCompanion` answers nothing else is checked and proved. `ConnectionRules` is shared by
`FilingFetch` and `StatementsFetch`.

Variables marked as ghosts in a module (`spawned`, `provider`, `leftover`, `invoked`, `commits`,
`wrote`, `receipt`, `missing`, `started`, `runs`, `requests`, `disk`, `settled`, ...) record what
happened in the world, as does `leaked`; no action of the program reads them. Operators with names such
as `WaitUnclamped` or `NeedsAlways` that stand before a definition are wrong forms of it: the mutants
of `PROJECT.json` put them in its place, to show that the property named there notices.

## 3. The runs

| Run | Instance | Shows |
|---|---|---|
| `transport_streams` | root only; a cap of 2 on stdout; a window of 1 on stderr, or none; pipes of 2; at most 3 bytes per stream; input of 0 or 2; group ids may be reused | complete payloads, bounded memory where there is a bound, an honest truncation flag |
| `transport_tree` | root and one descendant; two bytes of stderr, pipe of one; `killpg` may fail | nothing is left behind by a clean outcome, `BoundedCall` is implemented, the call returns, stderr is drained |
| `retry_one` | one client and other holders of the lock, an ensure with a source request, deadline 27, backoff 5 to 15, grace 3, jitter 20%, every stderr type and receipt, every kind of result on stdout | one tree per request, honest causes, agreement of scope and retry, spacing of calls, bounded lateness, the request returns, `RetriedCall` is implemented |
| `fetch_all` | a request of every route and every request one field away from one; six configurations (both forms, complete, incomplete, an unknown command); 16 candidates (the one asked for, and each one field away); counters to 7 | authorised effects, bounded work, the document that was asked for, reconciled counts, companion independent of success, local file found, every request answered |
| `clients_all` | the companion in every use and direct acquisitions, at most 2 provider requests per tool run; the statements client with every intent, limits and continuation, every kind of input, seven configurations | when the tool may run, what may be reused, what a result says of usage; true statements answers and bounded statements work |
| `install_all` | 2 files (one a configuration), 2 roots and an alias of one, 2 contents, 2 runs, any 2 of: edit, failure, death | planned bytes only, user state, convergence, true reports (of success, of exit codes, of `runtime_byte_complete`), every temporary named |
| `matrix_all` | 3 required and 2 supplemental cases (one reads back, one runs a pair), 2 workers, a document that cases of both groups use; no selection and two selections; batch 4, case 2, reserve 1 | an honest report and exit code, each case worked on once, the reserve kept, the batch ends in time |

The five runs of section 4 are expected to be violated.

Every bound, and why it is enough:

* Stream caps are 1 or 2 bytes and a child may send one byte more than the cap, so the exact cap, the
  probe byte beyond it and the trimmed window all occur. Bytes are not told apart. A call with
  `stderr_cap_bytes=None` (the charging tool's, `transcript_tool_transport.py:404`) has no window: the
  code bounds its stderr by nothing, and `BoundedMemory` says of it only that no byte is dropped. The
  pipe, the child's output in the instance, and nothing of the code, keep it finite there.
* One descendant is enough for an orphan inside the group, one that left it with `setsid`, and a pipe
  held open by somebody who is not the root. The descendants cannot interact except through pipes.
* `retry_one` has room for the schedule 5, 10, 15 where jitter shortens it (4, 8, 12), for a wait cut by
  the deadline, and for a call that eats into a backoff. Other requests are, to this one, holders of the
  lock, and `Other` takes and gives it back at any moment; the run is therefore that of one request
  among any number, and the theorems are about any number.
* The deadline of `matrix_all` has room for two cases in one group, for a case that ends by its own
  timeout and for one that is cut by the reserve; five cases in two groups give a group a second case,
  and the selections one group of supplemental cases next to one of required ones. A seed, a proof and a
  cleanup may each take all the time they have.
* `CallCap` stops the counters of a request. Without contention a request makes at most seven calls
  (identify, query, local preparation, query, three of the companion); contended calls add more, and
  then both counters stop at the cap, so that the run is finite. The theorem holds for every cap.
* The fields of a request meet in the rules at most two at a time (version with any field, intent with
  limits, mode with year and limits, companion intent with its limits), so one field away from a request
  of every route reaches every rule from both sides. Every request goes with every configuration.
* A candidate's places agree or differ: four documents, each other than the one asked for in one
  respect, in all places or in all but the candidate's own description, and each fault of shape or of
  the disk. The theorem `DeliversWhatWasAskedAlways` is about every combination.
* `clients_all` is a disjoint sum: its instance lets the client that is not run begin in one state only
  (`Unused`); the theorems about `Clients` do not.
* Two tool requests tell "some usage" from "less than the usage". No more than four children are ever
  started by a companion.
* Two files are what it takes to stop between two files, and two roots what it takes to go on to a
  second row; two runs show a rerun. Two troubles cover an edit and a failure in one run, and a death
  followed by an edit. The second root begins with equal contents in both files only; contents are
  symmetric since the code only compares them.

What the runs and theorems assume of company-wiki: the usage receipt that a failing child publishes
is true of that child (`Truthful`); and a child that publishes no receipt, but the local preparation that
blocked its download, reached no provider. The second is what filing-fetch itself relies on when it sets
`provider_started=False, usage_complete=True` (`fetch_filing.py:926-928`); `_validated_operation` has
checked that the preparation says `blocks_download` and has the status of the result. What is left to the
code, and checked by `ZeroUsageProven`, is that the receipt is asked first and that no older cause takes
the place of the latest one.

Deadlock is checked except in `install_all`, where the program may really stop: the number of its runs
is a bound of the instance. In the others the end is an explicit stuttering step.

**Fairness.** `ProcessTransport`: the controller and the three I/O threads are scheduled, and the two
clocks pass. Nothing is assumed of the child, not even that a killed process ends. `MatrixRun`: the
threads are scheduled, time goes on, and a child is over by its deadline and the grace that the
transport takes to stop it, which is `Returns` again. `CatalogRetry` and `FilingFetch`: the process is
scheduled, a call that was started returns, which is `Returns` of `ProcessTransport`, and time goes on.
Nothing is assumed of company-wiki, of other holders of the lock, or of the lock itself. Fairness is
weak throughout. `TranscriptCompanion`, `StatementsFetch` and `Installer` have no liveness property:
they are finite sequences whose every step ends because its child or its file operation does.

## 4. Disagreements between the code and its text

Each is a run that TLC must find violated, on a property that quotes the repository:

* `transport_ids`, `SignalsOwnTreeOnly`: after `poll()` reaped the root, `kill_owned_group(proc.pid)`
  uses an id that the system may have given to a stranger.
* `retry_clamp`, `NoSleepPastDeadline`: the sleep is clamped by the time that was left *before* the
  call. `BoundedLateness` says what does hold, and is proved.
* `fetch_events`, `FinalEventsReported`: a candidate is validated before the download events of its
  answer are recorded, so a refused candidate loses a committed download from the counts.
  `DownloadsReconciled` says what does hold, and is proved.
* `transcript_zero`, `ZeroAttemptsProven`: an `OSError` of the transport after the tool was started is
  answered like one before it, as no attempt.
* `matrix_owned`, `OwnedTreesEnd`: `launch_ff_run` starts its child before it asks for the time that is
  left, and an expired window leaves that child to itself.

Met on the way, and without a run:

* a v1 answer for a fatal exception or a gap has no counts, while the docstring at
  `scripts/fetch_filing.py:1174` promises them for every response (`CallsReconciled` is about the
  responses that have them);
* an exception that `acquire_exact` does not handle (a `TypeError` in reading ET's answer, say) escapes
  it after the account was charged; `transcript_companion.py:163-164` answers it as a temporary failure,
  `retryable=True` and without usage. `SKILL.md:191-194` says that unknown usage is not automatically
  retried, and the comment at `transcript_tool_transport.py:980-981` that import or verified-open failures
  cannot erase a measured receipt. `MeasuredUsageKept` says what holds of every other answer; this one is
  its exception, `Escaped`;
* the installer removes its temporary by name also after `os.replace` has made it the target
  (`sync_installs_b3.py:299-309`): when that `unlink` fails, a file that is written as planned is reported
  as an error with a `temporary_path` that does not exist. `TemporariesNamed` therefore allows, besides
  the temporaries that are there, names of files that the report lists as written;
* `wait_owned_group_stopped` probes the group with `killpg(pgid, 0)` and catches `ProcessLookupError`
  only: a refused probe (`PermissionError`) leaves `_cleanup` before the joins and the closing of the
  pipes. No property fails by it, since the call ends with an error; `CleanupGroup` has the branch;
* between the installer's last comparison of a target and `os.replace` an edit can be lost: the flag
  `raced` keeps this last instant out of `UserStateSurvives`;
* a read-back of the matrix (`probe_catalog`) has a timeout of its own, which is not cut by the reserve,
  although `run.py:45` says that case work may never consume it; `ReserveKept` states what holds, and
  `BatchEnds` by how much the batch may be late;
* an empty trace of a concurrent pair whose first run raised is read outside the `try` of
  `run_case_group` (`cli_main.py:254`): the group ends, its exception leaves the batch without results,
  and cases that other groups ran are reported as NOT_RUN;
* when the proof of a later group fails, a row can stay PASS by the proof that an earlier group made of
  the same document; the exit code is 1 then. `ReportHonest` is about rows of batches without error;
* the branch `wait <= 0` of the retry loop cannot be taken, as the lemma `WaitBounded` proves;
* the check "explicit download requires market/security_id" cannot fail once the identity was resolved;
* the caps and accessions of a legacy `authorization` are passed on by `_run_legacy_filing_command` only:
  a 1.2 request with `--source-ref-v2` validates them and goes on without them. `WorkBounded` is about the
  years and about the ceilings of 2.0 requests;
* a JSON list or object as `mode` or market makes the membership test raise a `TypeError`, so the answer
  is "fatal" with exit code 1 instead of `request_error`; so does text with a lone surrogate, which passes
  the rules and cannot be sent;
* a catalog-contention code is retried also when its receipt says that the provider was started
  (`fetch_filing.py:392`): the stderr type alone decides, by design of the tables;
* `max_cost_usd` of a statements request "must be a decimal string" and is accepted as any string or
  integer; the limits of a `reuse_only` statements request are not looked at;
* `--timeout-seconds` of `fetch_statements.py` is documented as the "overall deadline for the entire
  request" and bounds only the child;
* input of `fetch_statements.py` that is not UTF-8 raises `UnicodeDecodeError`, which none of its handlers
  turns into an envelope: a traceback and no response.

## 5. The proofs

TLAPS checks these for every value of the constants, under the named assumptions (`TransportAssumption`,
`RetryAssumption`, `FetchAssumption`, `CompanionAssumption`, `InstallerAssumption`, `MatrixAssumption`),
which say no more than the types of the constants, that backoffs, pipes, caps and, where a call has one,
windows are positive, and that the reserve is shorter than the batch. TLC evaluates them in every run.
Every invariant and every refinement that a run checks is also a theorem.

**`ProcessTransport_proofs`**: `TypeCorrect`, `NothingLeftBehindAlways`, `CompleteResultAlways`,
`BoundedMemoryAlways`, `HonestTruncationAlways`, and `Refinement`: a call implements `BoundedCall`. The
inductive invariant is `TypeOK /\ UnbornInv /\ PayloadInv /\ StoppedInv`, and `BufferInv` for the buffers.
Neither property is inductive by itself: that a result is complete needs to be known from the moment at
which the stdout reader ends (nobody holds the pipe and it is empty) and through the snapshot that the
controller takes of it, which is `PayloadInv`; that nothing is left needs what each step of the cleanup
adds to the ones before it, which is `StoppedInv`; both need that before `Popen` there is nothing,
`UnbornInv`; and an honest flag needs what the reader of stderr has dropped so far, and that without a window it
has dropped nothing, `BufferInv`.

**`CatalogRetry_proofs`**: `TypeCorrect`, `OneTreePerRequestAlways`, `ZeroUsageProvenAlways`,
`BoundedLatenessAlways`, `ScopeMirrorsRetryAlways`, `CallsSpacedOutAlways`, `CallsLimitedAlways`, and
`ImplementsRetriedCallAlways`: the loop implements `RetriedCall`. The invariant is `TypeOK /\ LateInv /\
TreeInv /\ UsageInv /\ ZeroUsageProven`, and on top of it `ScopeInv` and `SpacingInv`. `LateInv` bounds
the clock at each place of the loop, sleeps included; `UsageInv` says that the cause kept in
`last_cause` is that of a contention, and true of the latest call if it denies usage, which is what
makes the cause of an exhausted deadline honest, and what lets `GiveUp` of `RetriedCall` be taken; a
cause that filing-fetch asserts itself enters it by `ChildRefuses`, from the assumption above; `TreeInv`
that a call which may have left processes behind ends the loop. `ScopeInv` counts the calls by the
attempts. That calls are spaced out is not inductive: a sleep may be cut by the deadline, and then the
next call would come too early if there were one. `SpacingInv` therefore says "long enough, or the
deadline has passed", and that the time left before a call is no less than what the deadline still
allows. The schedule and the earliest starts are recursive functions; `ScheduleDefined` and
`EarliestDefined` are their recursion equations, from `RecursionTheorems`. `CallsLimited` turns the
spacing into a number of calls: (n - 1) times the shortest wait is less than the deadline.

**`RecursionTheorems`**: `Recursion`. The library's induction takes an operator as a parameter, which the
provers cannot instantiate. Here a property is a set of naturals: one that has 0, and n + 1 with n, is all
of them (`SetInduction`, from the least element of a set, `LeastNatural`). From it, a first value and a
function for each step define a function of the naturals: the beginnings of it are unique, and agree.
What a recursive function of a module computes is then a lemma about the function that its definition
chooses.

**`FilingFetch_proofs`**: `TypeCorrect`, `EffectsAuthorizedAlways`, `WorkBoundedAlways`,
`DeliversWhatWasAskedAlways`, `CallsReconciledAlways`, `DownloadsReconciledAlways`,
`CompanionKeepsSuccessAlways`, `LocalFileFoundAlways`. The invariant is
`TypeOK /\ RouteInv /\ AnswerInv /\ EffectsAuthorized /\ LocalInv /\ StatsInv /\ HandleInv /\
ResponseInv`. `RouteInv` ties each call to the intent of its request; `AnswerInv` says what an answer
on its way still means, although other processes change the catalog meanwhile; `LocalInv` carries the
prepared file to the second query; `StatsInv` relates the counts to what was done before there is a
response; `HandleInv` and `ResponseInv` carry them into it. There is one lemma per action, over three
general ones (`RaiseStep`, `GoToStep`, `AnswerStep`). `WorkBounded` follows from what the rules say of a
request that is accepted (`AcceptedBounds`, kept by `AcceptedStep`), `DeliversWhatWasAsked` from what
they say of a candidate on each route, together with the rules that no single one of them states
(`DeliveredStep`).

**`StatementsFetch_proofs`**: `StatementsAnswerTrueAlways`, `StatementsWorkBoundedAlways`. `ChildInv` says
that a child belongs to an accepted request and has ended when it is answered; there is a lemma per way to
answer (`RefusedStep`, `ErrorStep`, `ReadStep`). `TranscriptCompanion_proofs` takes both to a process that
may run either client (`ClientsAnswerTrue`, `ClientsWorkBounded`): the module's invariant, instantiated
(`Alone`), is kept by the steps of `Clients`.

**`TranscriptCompanion_proofs`**: `TypeCorrect`, `AcquiredAfterMissAlways`, `ReuseVerifiedAlways`,
`MeasuredUsageKeptAlways`, `AnswersAsPromisedAlways`, for every use and any number of provider requests that one
run of ET makes. `StepInv` ties each place to its child, `CountInv` to the number of calls, `ChargeInv` to
what the account was charged and what is known of it, `AnswerInv` the answer to all three.

**`Installer_proofs`**: `TypeCorrect`, `WritesPlannedBytesAlways`, `UserStateSurvivesAlways`,
`RetriesConvergeAlways`, `TemporariesNamedAlways`, `ReportsTrueAlways`: all of what `install_all`
checks, for any package, roots, aliases, contents, and number of runs and troubles. `NeedsInv` is what
the plan records of the files that it needs, `FileInv` what the steps of one replacement know of its
file, and `SettledInv` what an earlier run left; a rerun converges because a settled file would have to
equal the plan's bytes and to differ from them. `TemporaryInv` accounts for every temporary: what is on
the disk is named, or is the one in hand, and a name without a file is that of a file already written
(`WrittenFile`). True reports need three more: `CourseInv` (a row without an error is written but for
what is left), `QuietInv` (while nobody edits anything, hashes, comparisons, writes and diagnostics
still hold) and `CalmInv` (while nothing fails either, there is no error). That the roots of a plan
differ (`RowsDiffer`, `Distinct`) is what keeps a row from undoing what another knows; that a set of
files has a first is `LeastNatural`.

**`MatrixRun_proofs`**: `TypeCorrect` (as for the companion and the installer, the only check of its
types: the runs leave out what is proved here), `ReportHonestAlways`, `ReserveKeptAlways`,
`EachCaseOnceAlways`, and of the planner `ScheduleBalanced`. `PlanInv` follows the planner from one case
to the next: the cases charged so far have one place each, the others none, the loads are the sums of
the groups, and without its last case no group is heavier than another. That a group's load grows by the
cost of the case (`LoadAppend`), that a costliest case and a lightest group exist (`FirstChosen`,
`LightestChosen`), and that the loop is what its definition says (`PlansDefined`) are lemmas over
`RecursionTheorems`. The batch needs two consequences: every group gets a sequence of cases of the
registry (`RegistryAssigned`), and no case is in two places (`AssignedApart`). With the second,
`OnceInv` keeps each case with one group: a verdict takes it out of the only place it has, and a run
that ends is counted for no case but the current one. `GroupInv` bounds the clock at each place of a
group, `StageInv` says that the groups are over when main goes on, `ProofInv` that a merged proof
forgets no part.

**Only model-checked**: liveness (`Returns`, `DiagnosticsDrained`, `EveryRequestReturns`,
`EveryRequestAnswered`, `BatchEnds`), which is beyond the prover: it has no rules for fairness.

## 6. What is not modelled, and why

* A failing `json.dump` of a response (`fetch_statements.py:110`): a closed stdout.
* The Windows job object of `ff_process_tree.py`: another implementation of the same kill.
* Formats, field by field: dates, texts, digests, observations and the wire of the charging tool are good
  or bad. What the rules relate to each other is in `RequestRules` and `CandidateRules`.
* How `main` of `fetch_filing.py` reads its input (a bad `--timeout-seconds`, text that is not JSON), and the
  layout of the evidence that errors carry.
* Credentials, launch directories and hashes of the companion: good or bad.
* Linked paths in the installer count among its failing operations; which files are installable is a
  constant of the instance. A collision of temporary names is one of these failures too.
* The matrix: what its cases assert, the hashes of its evidence and its measurements are one choice of
  the audit (`flawed`); the replay of recorded evidence, which runs nothing, is left out. Several
  batches at once share only the parents of their scratch, and are not modelled.
* The test data of the matrix (`case_specs.py`, fixtures, probes). The repository gates are read-only
  sequences of commands. Tests, documents and evidence are not part of the program.
* company-wiki and ET are outside this repository: their actions are what the code here must cope with
  (any answer within the contract, none, failure before or after an effect), and are marked external.

## 7. Plan

The order was, and is, by importance to a caller:

1. `BoundedCall`, `ProcessTransport`, their proofs and the refinement (done).
2. `ProviderCause`, `SourceFailure`, `CatalogRetry` and its proofs (done).
3. `TranscriptResult`, `FilingFetch` and its proofs (done).
4. `TranscriptCompanion` and its proofs (done).
5. `Installer` and its proofs (done).
6. `CaseScheduling`, `MatrixRun` and its proofs (done).
7. `ConnectionRules`, `StatementsFetch` and its proofs (done).
8. `RequestRules`, `CandidateRules`, composed with `FilingFetch` (done).
9. `RecursionTheorems`, the spacing of calls, the planner, `Clients`, `RetriedCall` and `EachCaseOnce`,
   proved (done).
10. Left: an abstract installation (each file is either old or planned) that `Installer` implements; a
   `FilingFetch` that takes the calls of `RetriedCall` step by step; the replay of recorded evidence of
   the matrix.
