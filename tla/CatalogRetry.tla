----------------------------- MODULE CatalogRetry -----------------------------
(***************************************************************************)
(* Company-wiki calls under catalog contention: the deadline-bounded retry *)
(* loop of scripts/fetch_filing.py (_run_company_wiki_json_retry around    *)
(* _run_company_wiki_json), run by several filing-fetch processes against  *)
(* one catalog lock.  Time is whole seconds.  A call is what the transport *)
(* promises (BoundedCall, which ProcessTransport implements): it ends by   *)
(* its deadline plus the cleanup grace, and after a clean outcome none of  *)
(* its processes lives.  The company-wiki CLI and the other holders of the *)
(* lock are the environment.                                               *)
(***************************************************************************)
EXTENDS SourceFailure, Integers, FiniteSets

CONSTANTS
  Clients,     \* filing-fetch processes, one request each
  Deadline,    \* client -> the absolute deadline its request shares
  Operation,   \* the operation of the call, for its cause
  SourceRequest, \* the call has a source_request: the v2 ensure
  Reports,     \* <<stderr type, receipt>> that failing company-wiki calls publish
  Documents,   \* the results that they publish on stdout
  Grace,       \* the transport's cleanup grace
  Backoff,     \* CATALOG_LOCKED_BACKOFF_SECONDS
  BackoffMax,  \* CATALOG_LOCKED_BACKOFF_MAX_SECONDS
  JitterPct    \* CATALOG_LOCKED_BACKOFF_JITTER, in percent

ASSUME RetryAssumption ==
  /\ Deadline \in [Clients -> Nat]
  /\ Operation \in Operations
  /\ SourceRequest \in BOOLEAN
  /\ Reports \subseteq StderrTypes \X Receipts
  /\ Documents \subseteq Results
  /\ Grace \in Nat /\ Backoff \in Nat \ {0} /\ BackoffMax \in Nat
  /\ Backoff <= BackoffMax /\ JitterPct \in 0..99

VARIABLES
  now,          \* time.monotonic()
  holder,       \* who holds the catalog lock: a client's child, or
                \*   "nobody", or "other" for any other process
  pc,           \* where each client stands in the loop
  attempt, backoff, remaining, last_cause,  \* the loop's locals
  wakeAt,       \* when time.sleep(wait) returns
  calls,        \* stats["calls"]
  spawned,      \* children that were really started
  provider,     \* the child of the latest call reached the provider
  leftover,     \* a call of this client may have left processes behind
  result        \* what the loop returned or raised

loopVars  == <<attempt, backoff, wakeAt, last_cause>>
ghostVars == <<spawned, provider, leftover>>
vars == <<now, holder, pc, remaining, calls, result, loopVars, ghostVars>>

NoResult == [kind |-> "none"]
Payload == [kind |-> "payload"]
\* How subprocess.TimeoutExpired and RuntimeError leave the loop.
Uncaught == [kind |-> "uncaught"]
Error(code, cause) == [kind |-> "error", code |-> code, cause |-> cause]

FilingCodes == {"fatal", "upstream_error", "worker_paused", "not_found", "ambiguous",
                "source_blocked"} \cup RetryCodes

Smaller(a, b) == IF a < b THEN a ELSE b
\* backoff * (1 + uniform(-jitter, jitter)), in whole seconds, upper end rounded up.
Jittered(b) == {w \in 1..2 * b : /\ 100 * w >= b * (100 - JitterPct)
                                 /\ 100 * w < b * (100 + JitterPct) + 100}
WaitUnclamped(jittered, c) == jittered
Wait(jittered, c) == Smaller(jittered, remaining[c])
NextBackoffFlat(b) == Smaller(b, BackoffMax)
NextBackoffUncapped(b) == 2 * b
NextBackoff(b) == Smaller(2 * b, BackoffMax)

Init ==
  /\ now = 0
  /\ holder \in {"nobody", "other"}
  /\ pc = [c \in Clients |-> "check"]
  /\ attempt = [c \in Clients |-> 1]
  /\ backoff = [c \in Clients |-> Backoff]
  /\ remaining = [c \in Clients |-> 0]
  /\ last_cause = [c \in Clients |-> NoCause]
  /\ wakeAt = [c \in Clients |-> 0]
  /\ calls = [c \in Clients |-> 0]
  /\ spawned = [c \in Clients |-> 0]
  /\ provider = [c \in Clients |-> FALSE]
  /\ leftover = [c \in Clients |-> FALSE]
  /\ result = [c \in Clients |-> NoResult]

Finish(c, r) ==
  /\ pc' = [pc EXCEPT ![c] = "returned"]
  /\ result' = [result EXCEPT ![c] = r]

Release(c) == holder' = IF holder = c THEN "nobody" ELSE holder

\* The head of the loop: no time left, or a call with all that is left.  The cause
\* of an exhausted deadline is that of the last contention, if there was one.
Exhausted(c) == IF last_cause[c] # NoCause THEN last_cause[c] ELSE NotStartedCause(Operation)
OutOfTime(c) == Deadline[c] - now <= 0
Counted(c) == calls[c] + 1
Check(c) ==
  /\ pc[c] = "check"
  /\ IF OutOfTime(c)
     THEN /\ Finish(c, Error("upstream_error", Exhausted(c)))
          /\ UNCHANGED <<remaining, calls, provider>>
     ELSE /\ remaining' = [remaining EXCEPT ![c] = Deadline[c] - now]
          /\ calls' = [calls EXCEPT ![c] = Counted(c)]
          /\ provider' = [provider EXCEPT ![c] = FALSE]
          /\ pc' = [pc EXCEPT ![c] = "start"]
          /\ UNCHANGED result
  /\ UNCHANGED <<now, holder, loopVars, spawned, leftover>>

\* The transport starts the child, or raises ChildStartFailed.
StartChild(c) ==
  /\ pc[c] = "start"
  /\ pc' = [pc EXCEPT ![c] = "calling"]
  /\ spawned' = [spawned EXCEPT ![c] = @ + 1]
  /\ UNCHANGED <<now, holder, remaining, calls, result, loopVars, provider, leftover>>

StartFails(c) ==
  /\ pc[c] = "start"
  /\ Finish(c, Error("fatal", ConditionCause(Operation, "producer_start_failed")))
  /\ UNCHANGED <<now, holder, remaining, calls, loopVars, ghostVars>>

\* The except clause of the loop: contention sleeps and comes back, every other
\* error is raised.  The wait is clamped by the time that was left when the call
\* began.
RetriesUpstream(code) == code \in RetryCodes \cup {"upstream_error"}
Retries(code) == code \in RetryCodes
Fail(c, code, cause) ==
  IF Retries(code)
  THEN \E jittered \in Jittered(backoff[c]) :
         /\ last_cause' = [last_cause EXCEPT ![c] = cause]
         /\ wakeAt' = [wakeAt EXCEPT ![c] = now + Wait(jittered, c)]
         /\ attempt' = [attempt EXCEPT ![c] = @ + 1]
         /\ backoff' = [backoff EXCEPT ![c] = NextBackoff(@)]
         /\ pc' = [pc EXCEPT ![c] = "sleeping"]
         /\ UNCHANGED result
  ELSE Finish(c, Error(code, cause)) /\ UNCHANGED loopVars

\* A failing child: nonzero exit, its stderr classified once.  The receipt tells the
\* truth about this child: that is what the CLI publishes it for.
Truthful(c, receipt) == receipt.started # "null" => (receipt.started = "yes" <=> provider[c])
ChildFails(c) ==
  /\ pc[c] = "calling"
  /\ \E report \in Reports :
       /\ Truthful(c, report[2])
       /\ Fail(c, DiagnoseCode(report[1]), DiagnoseCause(Operation, report[1], report[2]))
  /\ Release(c)
  /\ UNCHANGED <<now, remaining, calls, ghostVars>>

\* A failing ensure or close-gap with a source request and a result on stdout is read
\* from there, and its stderr not at all.  Its receipt is true; and when it has none,
\* the local preparation that blocks its download is why no provider was reached.
Business == SourceRequest /\ Operation \in {"ensure", "close-gap"}
ChildRefuses(c) ==
  /\ pc[c] = "calling" /\ Business
  /\ \E r \in Documents :
       /\ Truthful(c, r.receipt)
       /\ r.receipt = NoReceipt /\ r.local # NoLocal => ~provider[c]
       /\ Fail(c, BusinessCode(r), BusinessCause(Operation, r))
  /\ Release(c)
  /\ UNCHANGED <<now, remaining, calls, ghostVars>>

\* The child takes the lock, may reach the provider under it, and delivers its
\* payload or something that is not one (code "fatal", the default).
ChildLocks(c) ==
  /\ pc[c] = "calling" /\ holder = "nobody"
  /\ holder' = c
  /\ UNCHANGED <<now, pc, remaining, calls, result, loopVars, ghostVars>>

ChildReachesProvider(c) ==
  /\ pc[c] = "calling" /\ holder = c /\ ~provider[c]
  /\ provider' = [provider EXCEPT ![c] = TRUE]
  /\ UNCHANGED <<now, holder, pc, remaining, calls, result, loopVars, spawned, leftover>>

ChildSucceeds(c) ==
  /\ pc[c] = "calling" /\ holder = c
  /\ \/ Finish(c, Payload)
     \/ Finish(c, Error("fatal", SourceCondition(Operation, "invalid_producer_schema")))
  /\ Release(c)
  /\ UNCHANGED <<now, remaining, calls, loopVars, ghostVars>>

\* The transport gives up on the child.  A clean outcome has stopped its tree;
\* the others may leave a process that still holds the lock.
CleanFailure(c) ==
  /\ pc[c] = "calling"
  /\ \E condition \in {"producer_deadline_exceeded", "producer_output_exceeded",
                       "producer_transport_failure"} :
       /\ condition = "producer_deadline_exceeded" => now >= Deadline[c]
       /\ Fail(c, Condition[condition][1], ConditionCause(Operation, condition))
  /\ Release(c)
  /\ UNCHANGED <<now, remaining, calls, ghostVars>>

\* TransportError after the cleanup failed, OSError (retry_scope forced to
\* "none"), and the exceptions nobody in the loop catches.
UncleanFailure(c) ==
  /\ pc[c] = "calling"
  /\ LET cause == ConditionCause(Operation, "producer_transport_failure")
     IN  \/ Fail(c, "upstream_error", cause)
         \/ Fail(c, "fatal", [cause EXCEPT !.retry_scope = "none"])
         \/ Finish(c, Uncaught) /\ UNCHANGED loopVars
  /\ leftover' = [leftover EXCEPT ![c] = TRUE]
  /\ holder' \in IF holder = c THEN {"nobody", "other"} ELSE {holder}
  /\ UNCHANGED <<now, remaining, calls, spawned, provider>>

SleptUntilFree(c) == now >= wakeAt[c] /\ holder = "nobody"
Slept(c) == now >= wakeAt[c]

\* With `last_cause = None` inside the loop.
WakeForgetful(c) ==
  /\ pc[c] = "sleeping" /\ Slept(c)
  /\ pc' = [pc EXCEPT ![c] = "check"]
  /\ last_cause' = [last_cause EXCEPT ![c] = NoCause]
  /\ UNCHANGED <<now, holder, remaining, calls, result, attempt, backoff, wakeAt, ghostVars>>
Wake(c) ==
  /\ pc[c] = "sleeping" /\ Slept(c)
  /\ pc' = [pc EXCEPT ![c] = "check"]
  /\ UNCHANGED <<now, holder, remaining, calls, result, loopVars, ghostVars>>

Loop(c) == Check(c) \/ StartChild(c) \/ StartFails(c) \/ Wake(c)
CallReturns(c) == ChildFails(c) \/ ChildRefuses(c) \/ ChildSucceeds(c) \/ CleanFailure(c)
                  \/ UncleanFailure(c)
Call(c) == ChildLocks(c) \/ ChildReachesProvider(c) \/ CallReturns(c)

\* Any other catalog operation.
Other ==
  /\ \/ holder = "nobody" /\ holder' = "other"
     \/ holder = "other" /\ holder' = "nobody"
  /\ UNCHANGED <<now, pc, remaining, calls, result, loopVars, ghostVars>>

\* A second passes: never past the moment a call must have returned or a sleep
\* ends, and the steps of the loop itself take no time.
Tick ==
  /\ \E c \in Clients : pc[c] # "returned"
  /\ \A c \in Clients :
       /\ pc[c] \notin {"check", "start"}
       /\ pc[c] = "calling" => now < Deadline[c] + Grace
       /\ pc[c] = "sleeping" => now < wakeAt[c]
  /\ now' = now + 1
  /\ UNCHANGED <<holder, pc, remaining, calls, result, loopVars, ghostVars>>

Returned == (\A c \in Clients : pc[c] = "returned") /\ UNCHANGED vars

Next == (\E c \in Clients : Loop(c) \/ Call(c)) \/ Other \/ Tick \/ Returned

\* The loop is scheduled, time passes, and a call returns, which is what the
\* transport guarantees (Returns of ProcessTransport); nothing is assumed of
\* company-wiki or of the other lock holders.
Fairness ==
  /\ \A c \in Clients : WF_vars(Loop(c)) /\ WF_vars(CallReturns(c))
  /\ WF_vars(Tick)

Spec == Init /\ [][Next]_vars /\ Fairness
-----------------------------------------------------------------------------
(* Properties. *)

TypeOK ==
  /\ now \in Nat
  /\ holder \in Clients \cup {"nobody", "other"}
  /\ pc \in [Clients -> {"check", "start", "calling", "sleeping", "returned"}]
  /\ attempt \in [Clients -> Nat \ {0}]
  /\ backoff \in [Clients -> Backoff..BackoffMax]
  /\ remaining \in [Clients -> Nat]
  /\ last_cause \in [Clients -> Causes \cup {NoCause}]
  /\ wakeAt \in [Clients -> Nat]
  /\ calls \in [Clients -> Nat] /\ spawned \in [Clients -> Nat]
  /\ provider \in [Clients -> BOOLEAN]
  /\ leftover \in [Clients -> BOOLEAN]
  /\ result \in [Clients -> {NoResult, Payload, Uncaught}
                   \cup [kind : {"error"}, code : FilingCodes, cause : Causes \cup {NoCause}]]

\* A request has at most one company-wiki tree: no attempt starts while
\* processes of an earlier attempt may be alive, whatever went wrong there.
OneTreePerRequest ==
  \A c \in Clients : pc[c] \in {"start", "calling", "sleeping"} => ~leftover[c]

\* "Arbitrary transport or cleanup errors never prove zero usage": a raised
\* cause says provider_started "no" only when the last call of the request did
\* not reach the provider, also where filing-fetch says so of its own accord (a child
\* that was not started, a local preparation that blocked the download); and a
\* deadline that claims it was exceeded before any start belongs to a request that
\* started no child.
ZeroUsageProven ==
  \A c \in Clients : result[c].kind = "error" =>
    /\ result[c].cause # NoCause /\ result[c].cause.provider_started = "no" => ~provider[c]
    /\ result[c].cause = NotStartedCause(Operation) => spawned[c] = 0

\* retry_scope "mirrors the pre-existing retry semantics exactly": the loop
\* sleeps on a failed call exactly when its cause has the scope
\* "catalog_contention".
ScopeMirrorsRetry ==
  \A c \in Clients :
    /\ pc[c] = "sleeping" => last_cause[c].retry_scope = "catalog_contention"
    /\ result[c].kind = "error" /\ result[c].cause # NoCause /\ calls[c] > attempt[c] - 1 =>
         result[c].cause.retry_scope # "catalog_contention"

\* The schedule of the docstring, "5s, 10s, ... capped", and the earliest start
\* of the n-th call that it allows.
Schedule[n \in Nat] == IF n = 0 THEN Backoff ELSE Smaller(2 * Schedule[n - 1], BackoffMax)
Least(b) == (b * (100 - JitterPct) + 99) \div 100
Earliest[n \in Nat] == IF n <= 1 THEN 0 ELSE Earliest[n - 1] + Least(Schedule[n - 2])

\* Contention never becomes a storm: the n-th call of a request starts no
\* earlier than its n - 1 backoffs, jitter included, allow.
CallsSpacedOut ==
  \A c \in Clients : pc[c] = "calling" => now >= Earliest[calls[c]]

\* The loop implements RetriedCall: it calls again only after contention, answers with
\* the first call that met none, and tells a request whose time is over of the latest
\* contention, or that no child was started.
Scoped(scopes) == [operation : Operations, code : CauseCodes, provider_started : Tri,
                   usage_complete : Tri, retry_scope : scopes]
ContentionCauses == Scoped({"catalog_contention"})
PhaseAt(place) == IF place \in {"check", "sleeping"} THEN "between"
                  ELSE IF place = "returned" THEN "over" ELSE "calling"
Retried == INSTANCE RetriedCall WITH
  Contentions <- ContentionCauses, NoContention <- NoCause, NoAnswer <- NoResult,
  Answers <- {Payload, Uncaught}
    \cup [kind : {"error"}, code : FilingCodes \ RetryCodes,
          cause : Scoped({"none", "caller_decision"}) \cup {NoCause}],
  GaveUp <- [k \in ContentionCauses \cup {NoCause} |->
               Error("upstream_error", IF k = NoCause THEN NotStartedCause(Operation) ELSE k)],
  phase <- [c \in Clients |-> PhaseAt(pc[c])], contention <- last_cause
ImplementsRetriedCall == Retried!Spec

\* A client is never much too late: by the cleanup grace of its last call and
\* one capped, jittered sleep, and a sleep no longer than its last budget.
MostJitter == (BackoffMax * (100 + JitterPct) + 99) \div 100
BoundedLateness ==
  \A c \in Clients : pc[c] # "returned" =>
    now <= Deadline[c] + Grace + Smaller(remaining[c], MostJitter)

\* "the wait is clamped to the remaining deadline so a sleep never exceeds it"
NoSleepPastDeadline ==
  \A c \in Clients : pc[c] = "sleeping" => wakeAt[c] <= Deadline[c]

\* Every request ends, whoever holds the catalog for however long.
EveryRequestReturns == \A c \in Clients : <>(pc[c] = "returned")
=============================================================================
