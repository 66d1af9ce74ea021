-------------------------- MODULE CatalogRetry_proofs --------------------------
(***************************************************************************)
(* What holds of the catalog retry loop for every number of clients, every *)
(* deadline, backoff, jitter and grace: the invariant IInv (time, trees,   *)
(* usage), on top of it the counts, the spacing and the number of calls,   *)
(* and the refinement of RetriedCall.                                      *)
(***************************************************************************)
EXTENDS CatalogRetry, RecursionTheorems, TLAPS

\* A bound on when a client is back from its last call or its last sleep.
Late(c) == Deadline[c] + Grace + Smaller(remaining[c], MostJitter)
LateInv ==
  \A c \in Clients :
    /\ pc[c] = "check" => now <= Late(c)
    /\ pc[c] = "start" => now <= Deadline[c]
    /\ pc[c] \in {"start", "calling"} => remaining[c] # 0
    /\ pc[c] = "calling" => now <= Deadline[c] + Grace
    /\ pc[c] = "sleeping" => now <= wakeAt[c] /\ wakeAt[c] <= Late(c)

\* What the loop knows of its calls: the cause it keeps is that of a contention,
\* and a claim in it that the provider was not reached is true of the latest call.
UsageInv ==
  \A c \in Clients :
    /\ pc[c] # "returned" => result[c].kind = "none"
    /\ pc[c] = "start" => ~provider[c]
    /\ pc[c] = "check" /\ last_cause[c] = NoCause => spawned[c] = 0 /\ ~provider[c]
    /\ pc[c] = "sleeping" => last_cause[c] # NoCause
    /\ last_cause[c] # NoCause => last_cause[c].retry_scope = "catalog_contention"
    /\ pc[c] \in {"check", "sleeping"} /\ last_cause[c] # NoCause
         /\ last_cause[c].provider_started = "no" => ~provider[c]

\* Only a returned client can have processes left behind.
TreeInv == \A c \in Clients : leftover[c] => pc[c] = "returned"

IInv == TypeOK /\ LateInv /\ TreeInv /\ UsageInv /\ ZeroUsageProven

-----------------------------------------------------------------------------
\* Every published report becomes a cause of the wire format, with a known code,
\* whose retry scope says what the loop does with it.
LEMMA Diagnosed ==
  ASSUME NEW type \in StderrTypes, NEW receipt \in Receipts
  PROVE  /\ DiagnoseCode(type) \in FilingCodes
         /\ DiagnoseCause(Operation, type, receipt) \in Causes
         /\ DiagnoseCause(Operation, type, receipt).code # "producer_deadline_exceeded"
         /\ DiagnoseCause(Operation, type, receipt).provider_started = receipt.started
         /\ DiagnoseCode(type) \in RetryCodes <=>
              DiagnoseCause(Operation, type, receipt).retry_scope = "catalog_contention"
<1>1. Operation \in Operations
  BY RetryAssumption
<1>2. /\ Mapped[type][1] \in FilingCodes
      /\ Mapped[type][2] \in CauseCodes \ {"producer_deadline_exceeded"}
      /\ Mapped[type][1] \in RetryCodes <=> Mapped[type][2] \in RetryCodes
  BY DEF StderrTypes, Mapped, FilingCodes, RetryCodes, CauseCodes, Conditions
<1>3. CASE receipt = NoReceipt
  BY <1>1, <1>2, <1>3 DEF DiagnoseCode, DiagnoseCause, BuildCause, RetryScope, Causes, Tri,
     NoReceipt, RetryCodes, CallerDecision
<1>4. CASE receipt # NoReceipt
  <2>1. /\ receipt.code \in AcquisitionCodes
        /\ receipt.started \in Tri /\ receipt.complete \in Tri
    BY <1>4 DEF Receipts
  <2> QED
    BY <1>1, <1>2, <1>4, <2>1 DEF DiagnoseCode, DiagnoseCause, BuildCause, RetryScope, Causes,
       RetryCodes, CallerDecision, CauseCodes, AcquisitionCodes
<1> QED
  BY <1>3, <1>4

\* A result on the stdout of a failing child is never worth another call; its cause, if
\* it has one, is of the wire format, and says that no provider was started only when
\* the receipt does or, without a receipt, when a local preparation blocked the download.
LEMMA Refused ==
  ASSUME Business, NEW r \in Results
  PROVE  /\ BusinessCode(r) \in FilingCodes \ RetryCodes
         /\ BusinessCause(Operation, r) # NoCause =>
              /\ BusinessCause(Operation, r) \in Causes
              /\ BusinessCause(Operation, r).code # "producer_deadline_exceeded"
              /\ BusinessCause(Operation, r).retry_scope = "none"
              /\ BusinessCause(Operation, r).provider_started = "no" =>
                   r.receipt.started = "no" \/ (r.receipt = NoReceipt /\ r.local # NoLocal)
<1>1. /\ Operation \in Operations /\ Operation \notin {"query", "local_prepare"}
  BY RetryAssumption DEF Business, Operations
<1>2. /\ r.form \in {"invalid", "unsupported", "leaking", "refusal"} /\ r.status \in Statuses
      /\ r.receipt \in Receipts /\ r.local \in LocalSourceCodes \cup {"unknown", NoLocal}
  BY DEF Results
<1>3. BusinessCode(r) \in FilingCodes \ RetryCodes
  BY <1>2 DEF BusinessCode, RefusalCode, Statuses, FilingCodes, RetryCodes
<1>4. ASSUME NEW reason \in LocalSourceCodes \cup {"unknown"}
      PROVE  /\ SourceCondition(Operation, reason) \in Causes
             /\ SourceCondition(Operation, reason).code # "producer_deadline_exceeded"
             /\ SourceCondition(Operation, reason).retry_scope = "none"
             /\ SourceCondition(Operation, reason).provider_started = "null"
  BY <1>1 DEF SourceCondition, BuildCause, Causes, CauseCodes, LocalSourceCodes, RetryScope,
     RetryCodes, CallerDecision, Tri
<1>5. CASE r.form # "invalid" /\ r.receipt # NoReceipt
  <2>1. /\ r.receipt.code \in AcquisitionCodes
        /\ r.receipt.started \in Tri /\ r.receipt.complete \in Tri
    BY <1>2, <1>5 DEF Receipts
  <2>2. BusinessCause(Operation, r)
          = BuildCause(Operation, r.receipt.code, r.receipt.started, r.receipt.complete)
    BY <1>5 DEF BusinessCause, ReceiptCause
  <2> QED
    BY <1>1, <1>3, <2>1, <2>2 DEF BuildCause, Causes, CauseCodes, AcquisitionCodes, RetryScope,
       RetryCodes, CallerDecision
<1>6. CASE r.receipt = NoReceipt /\ r.form = "refusal" /\ r.local # NoLocal
  <2> DEFINE plain == SourceCondition(Operation, r.local)
  <2>1. BusinessCause(Operation, r)
          = [plain EXCEPT !.provider_started = "no", !.usage_complete = "yes"]
    BY <1>6 DEF BusinessCause, RefusalCause, LocalCause
  <2>2. /\ plain \in Causes /\ plain.code # "producer_deadline_exceeded"
        /\ plain.retry_scope = "none"
    BY <1>2, <1>4, <1>6
  <2> HIDE DEF plain
  <2> QED
    BY <1>3, <1>6, <2>1, <2>2 DEF Causes, Tri
<1>7. CASE /\ r.form = "invalid" \/ r.receipt = NoReceipt
           /\ ~(r.receipt = NoReceipt /\ r.form = "refusal" /\ r.local # NoLocal)
  <2>1. \/ BusinessCause(Operation, r) = NoCause
        \/ \E reason \in {"invalid_producer_schema", "source_not_found", "unknown"} :
             BusinessCause(Operation, r) = SourceCondition(Operation, reason)
    BY <1>2, <1>7 DEF BusinessCause, RefusalCause, UnreadCause, Reason
  <2> QED
    BY <1>3, <1>4, <2>1 DEF LocalSourceCodes
<1> QED
  BY <1>5, <1>6, <1>7

\* The conditions filing-fetch observes itself are causes too.
LEMMA Conditioned ==
  /\ NotStartedCause(Operation) \in Causes
  /\ NotStartedCause(Operation).retry_scope = "caller_decision"
  /\ SourceCondition(Operation, "invalid_producer_schema") \in Causes
  /\ SourceCondition(Operation, "invalid_producer_schema").code = "invalid_producer_schema"
  /\ SourceCondition(Operation, "invalid_producer_schema").provider_started = "null"
  /\ \A k \in Conditions :
       /\ Condition[k][1] \in FilingCodes \ RetryCodes
       /\ ConditionCause(Operation, k) \in Causes
       /\ ConditionCause(Operation, k).code = k
       /\ k # "producer_start_failed" => ConditionCause(Operation, k).provider_started = "null"
  BY RetryAssumption DEF NotStartedCause, SourceCondition, ConditionCause, BuildCause, Causes,
     RetryScope, RetryCodes, CallerDecision, CauseCodes, Conditions, LocalSourceCodes, Tri,
     Condition, FilingCodes

\* A wait is positive and bounded: the branch of the code for a wait that is not
\* positive (fetch_filing.py:397-410) is dead, because the time that was left is
\* sampled before the call.
LEMMA WaitBounded ==
  ASSUME NEW b \in Backoff..BackoffMax, NEW left \in Nat \ {0}, NEW w \in Jittered(b)
  PROVE  /\ Smaller(w, left) \in Nat \ {0}
         /\ Smaller(w, left) <= Smaller(left, MostJitter)
<1> DEFINE J == 100 + JitterPct
<1>1. /\ Backoff \in Nat \ {0} /\ BackoffMax \in Nat /\ JitterPct \in Nat /\ J \in Nat
  BY RetryAssumption
<1>2. b \in Nat /\ b <= BackoffMax
  BY <1>1
<1>3. b * J <= BackoffMax * J
  BY <1>1, <1>2
<1>4. w \in Nat \ {0} /\ 100 * w < b * J + 100
  BY <1>1, <1>2 DEF Jittered
<1>5. b * J \in Nat /\ BackoffMax * J \in Nat
  BY <1>1, <1>2
<1> DEFINE P == BackoffMax * J
           Q == b * J
<1>6. 100 * w < Q + 100 /\ Q <= P /\ P \in Nat /\ Q \in Nat
  BY <1>3, <1>4, <1>5
<1> HIDE DEF P, Q
<1>7. w <= (P + 99) \div 100
  BY <1>4, <1>6
<1>8. MostJitter = (P + 99) \div 100
  BY DEF MostJitter, P
<1> QED
  BY <1>4, <1>6, <1>7, <1>8 DEF Smaller

\* The longest jittered backoff is a natural number.
LEMMA MostJitterNat == MostJitter \in Nat
<1> DEFINE P == BackoffMax * (100 + JitterPct)
<1>1. P \in Nat
  BY RetryAssumption
<1> HIDE DEF P
<1>2. (P + 99) \div 100 \in Nat
  BY <1>1
<1> QED
  BY <1>2 DEF MostJitter, P

-----------------------------------------------------------------------------
\* The initial states satisfy the invariant.
LEMMA InitIInv == Init => IInv
<1> SUFFICES ASSUME Init PROVE IInv
  OBVIOUS
<1> USE RetryAssumption DEF Init
<1>1. TypeOK
  BY DEF TypeOK
<1>2. LateInv
  BY MostJitterNat DEF LateInv, Late, Smaller
<1>3. TreeInv /\ UsageInv /\ ZeroUsageProven
  BY DEF TreeInv, UsageInv, ZeroUsageProven, NoResult
<1> QED
  BY <1>1, <1>2, <1>3 DEF IInv

\* What the except clause of the loop does with a failed call: it keeps the
\* invariant when its cause is honest and only contention has the scope that
\* says so.
LEMMA FailStep ==
  ASSUME IInv, NEW c \in Clients, pc[c] = "calling",
         NEW errorCode \in FilingCodes, NEW cause \in Causes,
         cause.provider_started = "no" => ~provider[c],
         cause.code # "producer_deadline_exceeded" \/ cause.provider_started # "no",
         errorCode \in RetryCodes => cause.retry_scope = "catalog_contention",
         errorCode \in RetryCodes => leftover' = leftover,
         Fail(c, errorCode, cause),
         leftover' \in [Clients -> BOOLEAN],
         \A d \in Clients : leftover'[d] => leftover[d] \/ d = c,
         holder' \in Clients \cup {"nobody", "other"},
         UNCHANGED <<now, remaining, calls, spawned, provider>>
  PROVE  IInv'
<1> USE RetryAssumption
<1>1. CASE errorCode \in RetryCodes
  <2>1. PICK jittered \in Jittered(backoff[c]) :
          /\ last_cause' = [last_cause EXCEPT ![c] = cause]
          /\ wakeAt' = [wakeAt EXCEPT ![c] = now + Wait(jittered, c)]
          /\ attempt' = [attempt EXCEPT ![c] = @ + 1]
          /\ backoff' = [backoff EXCEPT ![c] = NextBackoff(@)]
          /\ pc' = [pc EXCEPT ![c] = "sleeping"]
          /\ UNCHANGED result
    BY <1>1 DEF Fail, Retries
  <2>2. remaining[c] \in Nat \ {0} /\ backoff[c] \in Backoff..BackoffMax
    BY DEF IInv, TypeOK, LateInv
  <2>3. Wait(jittered, c) \in Nat /\ Wait(jittered, c) <= Smaller(remaining[c], MostJitter)
    BY <2>2, WaitBounded DEF Wait
  <2>4. TypeOK'
    <3>1. NextBackoff(backoff[c]) \in Backoff..BackoffMax
      BY <2>2 DEF NextBackoff, Smaller
    <3> QED
      BY <2>1, <2>3, <3>1 DEF IInv, TypeOK
  <2>5. LateInv'
    <3>1. now + Wait(jittered, c) <= Late(c) /\ now <= now + Wait(jittered, c)
      BY <2>2, <2>3, MostJitterNat DEF IInv, TypeOK, LateInv, Late, Smaller
    <3>2. \A d \in Clients : Late(d)' = Late(d)
      BY DEF Late
    <3>3. \A d \in Clients \ {c} : pc'[d] = pc[d] /\ wakeAt'[d] = wakeAt[d]
      BY <2>1 DEF IInv, TypeOK
    <3>4. pc'[c] = "sleeping" /\ wakeAt'[c] = now + Wait(jittered, c)
      BY <2>1 DEF IInv, TypeOK
    <3> QED
      BY <3>1, <3>2, <3>3, <3>4 DEF IInv, LateInv
  <2>6. TreeInv'
    BY <2>1, <1>1 DEF IInv, TypeOK, TreeInv
  <2>7. UsageInv' /\ ZeroUsageProven'
    <3>1. cause # NoCause
      BY DEF NoCause, Causes, CauseCodes, Conditions, AcquisitionCodes, LocalSourceCodes
    <3> QED
      BY <2>1, <3>1, <1>1 DEF IInv, TypeOK, UsageInv, ZeroUsageProven
  <2> QED
    BY <2>4, <2>5, <2>6, <2>7 DEF IInv
<1>2. CASE errorCode \notin RetryCodes
  <2>1. Finish(c, Error(errorCode, cause)) /\ UNCHANGED loopVars
    BY <1>2 DEF Fail, Retries
  <2>2. Error(errorCode, cause).kind = "error" /\ Error(errorCode, cause).cause = cause
        /\ Error(errorCode, cause) \in [kind : {"error"}, code : FilingCodes, cause : Causes]
    BY DEF Error
  <2>3. TypeOK'
    BY <2>1, <2>2 DEF IInv, TypeOK, Finish, loopVars
  <2>4. LateInv' /\ TreeInv' /\ UsageInv'
    BY <2>1 DEF IInv, TypeOK, Finish, loopVars, LateInv, Late, TreeInv, UsageInv
  <2>5. ZeroUsageProven'
    <3>1. cause # NotStartedCause(Operation)
      BY DEF NotStartedCause, BuildCause
    <3> QED
      BY <2>1, <2>2, <3>1 DEF IInv, TypeOK, Finish, ZeroUsageProven
  <2> QED
    BY <2>3, <2>4, <2>5 DEF IInv
<1> QED
  BY <1>1, <1>2

\* A client that leaves the loop without an error of its own.
LEMMA LeaveStep ==
  ASSUME IInv, NEW c \in Clients,
         NEW r \in {Payload, Uncaught}
           \cup [kind : {"error"}, code : FilingCodes, cause : Causes \cup {NoCause}],
         r.kind = "error" =>
           /\ r.cause # NoCause /\ r.cause.provider_started = "no" => ~provider[c]
           /\ r.cause = NotStartedCause(Operation) => spawned[c] = 0,
         Finish(c, r),
         leftover' \in [Clients -> BOOLEAN],
         \A d \in Clients : leftover'[d] => leftover[d] \/ d = c,
         holder' \in Clients \cup {"nobody", "other"},
         UNCHANGED <<now, remaining, calls, spawned, provider, loopVars>>
  PROVE  IInv'
<1>1. TypeOK'
  BY DEF IInv, TypeOK, Finish, loopVars
<1>2. LateInv' /\ TreeInv' /\ UsageInv'
  BY DEF IInv, TypeOK, Finish, loopVars, LateInv, Late, TreeInv, UsageInv
<1>3. ZeroUsageProven'
  BY DEF IInv, TypeOK, Finish, ZeroUsageProven
<1> QED
  BY <1>1, <1>2, <1>3 DEF IInv

-----------------------------------------------------------------------------
\* The transitions preserve the invariant.
LEMMA NextIInv == IInv /\ [Next]_vars => IInv'
<1> SUFFICES ASSUME IInv, [Next]_vars PROVE IInv'
  OBVIOUS
<1> USE RetryAssumption
<1>1. ASSUME NEW c \in Clients, Check(c) PROVE IInv'
  <2>1. CASE OutOfTime(c)
    <3> DEFINE cause == Exhausted(c)
    <3>1. /\ cause \in Causes
          /\ cause.provider_started = "no" => ~provider[c]
          /\ cause = NotStartedCause(Operation) => spawned[c] = 0
      BY <1>1, Conditioned DEF Check, Exhausted, IInv, TypeOK, UsageInv
    <3>2. /\ Error("upstream_error", cause) \in [kind : {"error"}, code : FilingCodes, cause : Causes]
          /\ Error("upstream_error", cause).cause = cause
      BY <3>1 DEF Error, FilingCodes
    <3>3. /\ Finish(c, Error("upstream_error", cause))
          /\ UNCHANGED <<remaining, calls, provider, now, holder, loopVars, spawned, leftover>>
      BY <1>1, <2>1 DEF Check
    <3>4. leftover' \in [Clients -> BOOLEAN] /\ holder' \in Clients \cup {"nobody", "other"}
      BY <3>3 DEF IInv, TypeOK
    <3> HIDE DEF cause
    <3> QED
      BY <3>1, <3>2, <3>3, <3>4, LeaveStep
  <2>2. CASE ~OutOfTime(c)
    <3>1. /\ remaining' = [remaining EXCEPT ![c] = Deadline[c] - now]
          /\ calls' = [calls EXCEPT ![c] = calls[c] + 1]
          /\ provider' = [provider EXCEPT ![c] = FALSE]
          /\ pc' = [pc EXCEPT ![c] = "start"]
          /\ UNCHANGED <<result, now, holder, loopVars, spawned, leftover>>
      BY <1>1, <2>2 DEF Check, Counted
    <3>2. Deadline[c] - now \in Nat \ {0}
      BY <2>2 DEF OutOfTime, IInv, TypeOK
    <3>3. TypeOK'
      BY <3>1, <3>2 DEF IInv, TypeOK, loopVars
    <3>4. LateInv'
      BY <3>1, <3>2, <1>1 DEF IInv, TypeOK, LateInv, Late, loopVars
    <3>5. TreeInv' /\ UsageInv' /\ ZeroUsageProven'
      BY <3>1, <1>1 DEF IInv, TypeOK, TreeInv, UsageInv, ZeroUsageProven, loopVars, Check
    <3> QED
      BY <3>3, <3>4, <3>5 DEF IInv
  <2> QED
    BY <2>1, <2>2
<1>2. ASSUME NEW c \in Clients, StartChild(c) PROVE IInv'
  <2>1. TypeOK'
    BY <1>2 DEF StartChild, IInv, TypeOK, loopVars
  <2>2. LateInv' /\ TreeInv'
    BY <1>2 DEF StartChild, IInv, TypeOK, LateInv, Late, TreeInv, loopVars
  <2>3. UsageInv' /\ ZeroUsageProven'
    BY <1>2 DEF StartChild, IInv, TypeOK, UsageInv, ZeroUsageProven, loopVars
  <2> QED
    BY <2>1, <2>2, <2>3 DEF IInv
<1>3. ASSUME NEW c \in Clients, StartFails(c) PROVE IInv'
  <2> DEFINE cause == ConditionCause(Operation, "producer_start_failed")
  <2>1. ~provider[c]
    BY <1>3 DEF StartFails, IInv, UsageInv
  <2>2. cause \in Causes /\ cause.code = "producer_start_failed"
    BY Conditioned DEF Conditions
  <2>3. cause # NotStartedCause(Operation)
    BY <2>2 DEF NotStartedCause, BuildCause
  <2>4. /\ Finish(c, Error("fatal", cause))
        /\ UNCHANGED <<now, holder, remaining, calls, loopVars, spawned, provider, leftover>>
    BY <1>3 DEF StartFails, ghostVars
  <2>5. leftover' \in [Clients -> BOOLEAN] /\ holder' \in Clients \cup {"nobody", "other"}
    BY <2>4 DEF IInv, TypeOK
  <2> HIDE DEF cause
  <2>6. /\ Error("fatal", cause) \in [kind : {"error"}, code : FilingCodes, cause : Causes]
        /\ Error("fatal", cause).cause = cause
    BY <2>2 DEF Error, FilingCodes
  <2> QED
    BY <2>1, <2>3, <2>4, <2>5, <2>6, LeaveStep
<1>4. ASSUME NEW c \in Clients, Wake(c) PROVE IInv'
  <2>1. TypeOK'
    BY <1>4 DEF Wake, IInv, TypeOK, loopVars, ghostVars
  <2>3. LateInv'
    <3>1. now <= Late(c)
      BY <1>4, MostJitterNat DEF Wake, Slept, IInv, TypeOK, LateInv, Late, Smaller
    <3>2. \A d \in Clients : Late(d)' = Late(d)
      BY <1>4 DEF Wake, Late
    <3> QED
      BY <1>4, <3>1, <3>2 DEF Wake, IInv, TypeOK, LateInv, loopVars
  <2>2. TreeInv' /\ UsageInv' /\ ZeroUsageProven'
    BY <1>4 DEF Wake, IInv, TypeOK, TreeInv, UsageInv, ZeroUsageProven, loopVars, ghostVars
  <2> QED
    BY <2>1, <2>2, <2>3 DEF IInv
<1>5. ASSUME NEW c \in Clients, ChildFails(c) PROVE IInv'
  <2>1. PICK type \in StderrTypes, receipt \in Receipts :
          /\ receipt.started # "null" => (receipt.started = "yes" <=> provider[c])
          /\ Fail(c, DiagnoseCode(type), DiagnoseCause(Operation, type, receipt))
    <3>1. PICK report \in Reports :
            /\ Truthful(c, report[2])
            /\ Fail(c, DiagnoseCode(report[1]), DiagnoseCause(Operation, report[1], report[2]))
      BY <1>5 DEF ChildFails
    <3>2. report[1] \in StderrTypes /\ report[2] \in Receipts
      BY RetryAssumption
    <3> QED
      BY <3>1, <3>2 DEF Truthful
  <2> DEFINE cause == DiagnoseCause(Operation, type, receipt)
             errorCode == DiagnoseCode(type)
  <2>2. /\ errorCode \in FilingCodes /\ cause \in Causes
        /\ cause.code # "producer_deadline_exceeded"
        /\ cause.provider_started = receipt.started
        /\ errorCode \in RetryCodes => cause.retry_scope = "catalog_contention"
    BY Diagnosed
  <2>3. /\ pc[c] = "calling" /\ Release(c)
        /\ UNCHANGED <<now, remaining, calls, spawned, provider, leftover>>
    BY <1>5 DEF ChildFails, ghostVars
  <2>4. leftover' \in [Clients -> BOOLEAN] /\ holder' \in Clients \cup {"nobody", "other"}
    BY <2>3 DEF IInv, TypeOK, Release
  <2>5. Fail(c, errorCode, cause) /\ (cause.provider_started = "no" => ~provider[c])
    BY <2>1, <2>2
  <2> HIDE DEF cause, errorCode
  <2> QED
    BY <2>2, <2>3, <2>4, <2>5, FailStep
<1>13. ASSUME NEW c \in Clients, ChildRefuses(c) PROVE IInv'
  <2>1. PICK r \in Results :
          /\ r.receipt.started # "null" => (r.receipt.started = "yes" <=> provider[c])
          /\ r.receipt = NoReceipt /\ r.local # NoLocal => ~provider[c]
          /\ Fail(c, BusinessCode(r), BusinessCause(Operation, r))
    BY <1>13, RetryAssumption DEF ChildRefuses, Truthful
  <2> DEFINE cause == BusinessCause(Operation, r)
             answer == Error(BusinessCode(r), cause)
  <2>2. /\ pc[c] = "calling" /\ Release(c) /\ Business
        /\ UNCHANGED <<now, remaining, calls, spawned, provider, leftover>>
    BY <1>13 DEF ChildRefuses, ghostVars
  <2>3. Finish(c, answer) /\ UNCHANGED loopVars
    BY <2>1, <2>2, Refused DEF Fail, Retries
  <2>4. leftover' \in [Clients -> BOOLEAN] /\ holder' \in Clients \cup {"nobody", "other"}
    BY <2>2 DEF IInv, TypeOK, Release
  <2>5. cause # NoCause /\ cause.provider_started = "no" => ~provider[c]
    BY <2>1, <2>2, Refused
  <2>6. cause # NotStartedCause(Operation)
    BY <2>2, Refused DEF NotStartedCause, BuildCause, NoCause
  <2>7. /\ answer \in [kind : {"error"}, code : FilingCodes, cause : Causes \cup {NoCause}]
        /\ answer.cause = cause
    BY <2>2, Refused DEF Error
  <2> HIDE DEF cause, answer
  <2> QED
    BY <2>2, <2>3, <2>4, <2>5, <2>6, <2>7, LeaveStep
<1>6. ASSUME NEW c \in Clients, ChildLocks(c) \/ ChildReachesProvider(c) PROVE IInv'
  <2>1. TypeOK'
    BY <1>6 DEF ChildLocks, ChildReachesProvider, IInv, TypeOK, loopVars, ghostVars
  <2>3. LateInv'
    BY <1>6 DEF ChildLocks, ChildReachesProvider, IInv, LateInv, Late, loopVars, ghostVars
  <2>2. TreeInv' /\ UsageInv' /\ ZeroUsageProven'
    BY <1>6 DEF ChildLocks, ChildReachesProvider, IInv, TypeOK, TreeInv, UsageInv,
       ZeroUsageProven, loopVars, ghostVars
  <2> QED
    BY <2>1, <2>2, <2>3 DEF IInv
<1>7. ASSUME NEW c \in Clients, ChildSucceeds(c) PROVE IInv'
  <2> DEFINE cause == SourceCondition(Operation, "invalid_producer_schema")
  <2>1. /\ cause \in Causes /\ cause.code = "invalid_producer_schema"
        /\ cause.provider_started = "null"
    BY Conditioned
  <2>2. cause # NotStartedCause(Operation)
    BY <2>1 DEF NotStartedCause, BuildCause
  <2>3. /\ Finish(c, Payload) \/ Finish(c, Error("fatal", cause))
        /\ Release(c)
        /\ UNCHANGED <<now, remaining, calls, loopVars, spawned, provider, leftover>>
    BY <1>7 DEF ChildSucceeds, ghostVars
  <2>4. leftover' \in [Clients -> BOOLEAN] /\ holder' \in Clients \cup {"nobody", "other"}
    BY <2>3 DEF IInv, TypeOK, Release
  <2> HIDE DEF cause
  <2>5. /\ Error("fatal", cause) \in [kind : {"error"}, code : FilingCodes, cause : Causes]
        /\ Error("fatal", cause).cause = cause
        /\ Payload.kind # "error"
    BY <2>1 DEF Error, FilingCodes, Payload
  <2> QED
    BY <2>1, <2>2, <2>3, <2>4, <2>5, LeaveStep
<1>8. ASSUME NEW c \in Clients, CleanFailure(c) PROVE IInv'
  <2>1. PICK condition \in {"producer_deadline_exceeded", "producer_output_exceeded",
                            "producer_transport_failure"} :
          Fail(c, Condition[condition][1], ConditionCause(Operation, condition))
    BY <1>8 DEF CleanFailure
  <2> DEFINE cause == ConditionCause(Operation, condition)
             errorCode == Condition[condition][1]
  <2>2. /\ errorCode \in FilingCodes \ RetryCodes /\ cause \in Causes
        /\ cause.provider_started = "null"
    BY Conditioned DEF Conditions
  <2>3. /\ pc[c] = "calling" /\ Release(c)
        /\ UNCHANGED <<now, remaining, calls, spawned, provider, leftover>>
    BY <1>8 DEF CleanFailure, ghostVars
  <2>4. leftover' \in [Clients -> BOOLEAN] /\ holder' \in Clients \cup {"nobody", "other"}
    BY <2>3 DEF IInv, TypeOK, Release
  <2>5. Fail(c, errorCode, cause)
    BY <2>1
  <2> HIDE DEF cause, errorCode
  <2> QED
    BY <2>2, <2>3, <2>4, <2>5, FailStep
<1>9. ASSUME NEW c \in Clients, UncleanFailure(c) PROVE IInv'
  <2> DEFINE cause == ConditionCause(Operation, "producer_transport_failure")
             unscoped == [cause EXCEPT !.retry_scope = "none"]
  <2>1. /\ cause \in Causes /\ cause.provider_started = "null"
    BY Conditioned DEF Conditions
  <2> HIDE DEF cause
  <2>2. /\ unscoped \in Causes /\ unscoped.provider_started = "null"
    BY <2>1 DEF Causes
  <2> HIDE DEF unscoped
  <2>3. /\ pc[c] = "calling"
        /\ leftover' = [leftover EXCEPT ![c] = TRUE]
        /\ holder' \in IF holder = c THEN {"nobody", "other"} ELSE {holder}
        /\ UNCHANGED <<now, remaining, calls, spawned, provider>>
        /\ \/ Fail(c, "upstream_error", cause)
           \/ Fail(c, "fatal", unscoped)
           \/ Finish(c, Uncaught) /\ UNCHANGED loopVars
    BY <1>9 DEF UncleanFailure, cause, unscoped
  <2>4. /\ leftover' \in [Clients -> BOOLEAN] /\ holder' \in Clients \cup {"nobody", "other"}
        /\ \A d \in Clients : leftover'[d] => leftover[d] \/ d = c
    BY <2>3 DEF IInv, TypeOK
  <2>5. {"upstream_error", "fatal"} \subseteq FilingCodes \ RetryCodes
    BY DEF FilingCodes, RetryCodes
  <2>6. CASE Fail(c, "upstream_error", cause)
    BY <2>1, <2>3, <2>4, <2>5, <2>6, FailStep
  <2>7. CASE Fail(c, "fatal", unscoped)
    BY <2>2, <2>3, <2>4, <2>5, <2>7, FailStep
  <2>8. CASE Finish(c, Uncaught) /\ UNCHANGED loopVars
    <3>1. Uncaught.kind # "error"
      BY DEF Uncaught
    <3> QED
      BY <2>3, <2>4, <2>8, <3>1, LeaveStep
  <2> QED
    BY <2>3, <2>6, <2>7, <2>8
<1>10. CASE Other
  BY <1>10 DEF Other, IInv, TypeOK, LateInv, Late, TreeInv, UsageInv, ZeroUsageProven, loopVars,
     ghostVars
<1>11. CASE Tick
  BY <1>11 DEF Tick, IInv, TypeOK, LateInv, Late, TreeInv, UsageInv, ZeroUsageProven, loopVars,
     ghostVars
<1>12. CASE UNCHANGED vars
  BY <1>12 DEF vars, IInv, TypeOK, LateInv, Late, TreeInv, UsageInv, ZeroUsageProven, loopVars,
     ghostVars
<1> QED
  BY <1>1, <1>2, <1>3, <1>4, <1>5, <1>6, <1>7, <1>8, <1>9, <1>10, <1>11, <1>12, <1>13
     DEF Next, Loop, Call, CallReturns, Returned

-----------------------------------------------------------------------------
\* The loop counts an attempt with every call it gives up for contention, so only
\* the error of the latest call, never that of the exhausted deadline, is one
\* that the loop chose not to retry.
ScopeInv ==
  \A c \in Clients :
    /\ pc[c] \in {"start", "calling"} => calls[c] = attempt[c]
    /\ pc[c] \in {"check", "sleeping"} => calls[c] = attempt[c] - 1
    /\ result[c].kind = "error" /\ result[c].cause # NoCause /\ calls[c] > attempt[c] - 1 =>
         result[c].cause.retry_scope # "catalog_contention"

\* A failed call is retried, and counted, exactly when its code is one of
\* contention; otherwise its cause must not have that scope.
LEMMA FailScope ==
  ASSUME IInv, ScopeInv, NEW c \in Clients, pc[c] = "calling",
         NEW errorCode, NEW cause,
         errorCode \notin RetryCodes /\ cause # NoCause => cause.retry_scope # "catalog_contention",
         Fail(c, errorCode, cause), calls' = calls
  PROVE  ScopeInv'
<1>1. CASE errorCode \in RetryCodes
  <2>1. /\ attempt' = [attempt EXCEPT ![c] = @ + 1]
        /\ pc' = [pc EXCEPT ![c] = "sleeping"]
        /\ UNCHANGED result
    BY <1>1 DEF Fail, Retries
  <2> QED
    BY <2>1 DEF IInv, TypeOK, UsageInv, ScopeInv
<1>2. CASE errorCode \notin RetryCodes
  <2>1. Finish(c, Error(errorCode, cause)) /\ UNCHANGED attempt
    BY <1>2 DEF Fail, Retries, loopVars
  <2> QED
    BY <1>2, <2>1 DEF IInv, TypeOK, ScopeInv, Finish, Error
<1> QED
  BY <1>1, <1>2

\* The transitions keep the count.
LEMMA ScopeStep ==
  ASSUME IInv, ScopeInv, [Next]_vars
  PROVE  ScopeInv'
<1>1. ASSUME NEW c \in Clients, Check(c) PROVE ScopeInv'
  <2>1. CASE OutOfTime(c)
    BY <1>1, <2>1 DEF Check, IInv, TypeOK, ScopeInv, Finish, loopVars
  <2>2. CASE ~OutOfTime(c)
    BY <1>1, <2>2 DEF Check, Counted, IInv, TypeOK, UsageInv, ScopeInv, loopVars
  <2> QED
    BY <2>1, <2>2
<1>2. ASSUME NEW c \in Clients, StartChild(c) \/ Wake(c) PROVE ScopeInv'
  BY <1>2 DEF StartChild, Wake, IInv, TypeOK, UsageInv, ScopeInv, loopVars
<1>3. ASSUME NEW c \in Clients, StartFails(c) PROVE ScopeInv'
  <2> DEFINE cause == ConditionCause(Operation, "producer_start_failed")
  <2>1. cause.retry_scope # "catalog_contention"
    BY DEF ConditionCause, BuildCause, RetryScope, RetryCodes, CallerDecision
  <2> HIDE DEF cause
  <2>2. Finish(c, Error("fatal", cause)) /\ UNCHANGED <<calls, attempt>>
    BY <1>3 DEF StartFails, loopVars, cause
  <2> QED
    BY <2>1, <2>2 DEF IInv, TypeOK, ScopeInv, Finish, Error
<1>4. ASSUME NEW c \in Clients, ChildFails(c) PROVE ScopeInv'
  <2>1. PICK type \in StderrTypes, receipt \in Receipts :
          Fail(c, DiagnoseCode(type), DiagnoseCause(Operation, type, receipt))
    BY <1>4, RetryAssumption DEF ChildFails
  <2> QED
    BY <1>4, <2>1, Diagnosed, FailScope DEF ChildFails
<1>10. ASSUME NEW c \in Clients, ChildRefuses(c) PROVE ScopeInv'
  <2>1. PICK r \in Results : Fail(c, BusinessCode(r), BusinessCause(Operation, r))
    BY <1>10, RetryAssumption DEF ChildRefuses
  <2>2. /\ pc[c] = "calling" /\ Business /\ calls' = calls
        /\ BusinessCause(Operation, r) # NoCause =>
             BusinessCause(Operation, r).retry_scope # "catalog_contention"
    BY <1>10, Refused DEF ChildRefuses
  <2> QED
    BY <2>1, <2>2, FailScope
<1>5. ASSUME NEW c \in Clients, ChildLocks(c) \/ ChildReachesProvider(c) PROVE ScopeInv'
  BY <1>5 DEF ChildLocks, ChildReachesProvider, ScopeInv, loopVars
<1>6. ASSUME NEW c \in Clients, ChildSucceeds(c) PROVE ScopeInv'
  <2> DEFINE cause == SourceCondition(Operation, "invalid_producer_schema")
  <2>1. cause.retry_scope # "catalog_contention"
    BY DEF SourceCondition, LocalSourceCodes, BuildCause, RetryScope, RetryCodes, CallerDecision
  <2> HIDE DEF cause
  <2>2. /\ Finish(c, Payload) \/ Finish(c, Error("fatal", cause))
        /\ UNCHANGED <<calls, attempt>>
    BY <1>6 DEF ChildSucceeds, loopVars, cause
  <2> QED
    BY <2>1, <2>2 DEF IInv, TypeOK, ScopeInv, Finish, Error, Payload
<1>7. ASSUME NEW c \in Clients, CleanFailure(c) PROVE ScopeInv'
  <2>1. PICK condition \in {"producer_deadline_exceeded", "producer_output_exceeded",
                            "producer_transport_failure"} :
          Fail(c, Condition[condition][1], ConditionCause(Operation, condition))
    BY <1>7 DEF CleanFailure
  <2>2. ConditionCause(Operation, condition).retry_scope # "catalog_contention"
    BY DEF ConditionCause, BuildCause, RetryScope, RetryCodes, CallerDecision
  <2> QED
    BY <1>7, <2>1, <2>2, FailScope DEF CleanFailure
<1>8. ASSUME NEW c \in Clients, UncleanFailure(c) PROVE ScopeInv'
  <2> DEFINE cause == ConditionCause(Operation, "producer_transport_failure")
             unscoped == [cause EXCEPT !.retry_scope = "none"]
  <2>1. /\ cause.retry_scope # "catalog_contention"
        /\ unscoped.retry_scope # "catalog_contention"
    BY DEF ConditionCause, BuildCause, RetryScope, RetryCodes, CallerDecision
  <2> HIDE DEF cause, unscoped
  <2>2. /\ pc[c] = "calling" /\ calls' = calls
        /\ \/ Fail(c, "upstream_error", cause)
           \/ Fail(c, "fatal", unscoped)
           \/ Finish(c, Uncaught) /\ UNCHANGED loopVars
    BY <1>8 DEF UncleanFailure, cause, unscoped
  <2>3. CASE Fail(c, "upstream_error", cause) \/ Fail(c, "fatal", unscoped)
    BY <2>1, <2>2, <2>3, FailScope
  <2>4. CASE Finish(c, Uncaught) /\ UNCHANGED loopVars
    BY <2>2, <2>4 DEF IInv, TypeOK, ScopeInv, Finish, Uncaught, loopVars
  <2> QED
    BY <2>2, <2>3, <2>4
<1>9. CASE Other \/ Tick \/ UNCHANGED vars
  BY <1>9 DEF Other, Tick, vars, ScopeInv, loopVars
<1> QED
  BY <1>1, <1>2, <1>3, <1>4, <1>5, <1>6, <1>7, <1>8, <1>9, <1>10
     DEF Next, Loop, Call, CallReturns, Returned

-----------------------------------------------------------------------------
\* The inductive invariant holds in every reachable state.
LEMMA IInvAlways == Spec => []IInv
  BY InitIInv, NextIInv, PTL DEF Spec

\* Every variable of every client keeps its type: in particular the backoff stays
\* between its first value and its cap, and every raised cause is well formed.
THEOREM TypeCorrect == Spec => []TypeOK
<1>1. IInv => TypeOK
  BY DEF IInv
<1> QED
  BY <1>1, IInvAlways, PTL

\* However many clients contend and whatever fails, a request never has two
\* company-wiki trees: no call starts after one that may have left processes.
THEOREM OneTreePerRequestAlways == Spec => []OneTreePerRequest
<1>1. IInv => OneTreePerRequest
  BY DEF IInv, TreeInv, OneTreePerRequest
<1> QED
  BY <1>1, IInvAlways, PTL

\* No cause ever claims an unused provider that the latest call reached, and no
\* "not started" belongs to a request that started a child.
THEOREM ZeroUsageProvenAlways == Spec => []ZeroUsageProven
<1>1. IInv => ZeroUsageProven
  BY DEF IInv
<1> QED
  BY <1>1, IInvAlways, PTL

\* The loop is late by at most the cleanup grace of one call and one sleep, and
\* that sleep is no longer than the budget of the call before it.
THEOREM BoundedLatenessAlways == Spec => []BoundedLateness
<1>1. IInv => BoundedLateness
  <2> SUFFICES ASSUME IInv, NEW c \in Clients, pc[c] # "returned"
               PROVE  now <= Late(c)
    BY DEF BoundedLateness, Late
  <2>1. Smaller(remaining[c], MostJitter) \in Nat
    BY MostJitterNat DEF IInv, TypeOK, Smaller
  <2> QED
    BY <2>1, RetryAssumption DEF IInv, TypeOK, LateInv, Late
<1> QED
  BY <1>1, IInvAlways, PTL

\* retry_scope mirrors the retry decision, for every number of clients and every
\* set of published reports: the loop sleeps only on a cause of catalog contention,
\* and raises none for the call that it has just made.
THEOREM ScopeMirrorsRetryAlways == Spec => []ScopeMirrorsRetry
<1>1. Init => ScopeInv
  BY DEF Init, ScopeInv, NoResult
<1>2. IInv /\ ScopeInv /\ [Next]_vars => ScopeInv'
  BY ScopeStep
<1>3. IInv /\ ScopeInv => ScopeMirrorsRetry
  BY DEF IInv, UsageInv, ScopeInv, ScopeMirrorsRetry
<1> QED
  BY <1>1, <1>2, <1>3, IInvAlways, PTL DEF Spec
-----------------------------------------------------------------------------
(* The spacing of calls.  The schedule and the earliest starts are recursive  *)
(* functions: RecursionTheorems says that they are what their definitions ask.  *)

\* The n-th backoff of the schedule is the capped double of the one before.
LEMMA ScheduleDefined ==
  /\ Schedule \in [Nat -> Nat]
  /\ Schedule[0] = Backoff
  /\ \A n \in Nat \ {0} : Schedule[n] = Smaller(2 * Schedule[n - 1], BackoffMax)
<1> DEFINE After(v) == Smaller(2 * v, BackoffMax)
           step == [n \in Nat |-> [v \in Nat |-> After(v)]]
           Is(f) == f = [n \in Nat |-> IF n = 0 THEN Backoff ELSE After(f[n - 1])]
<1>1. \A v \in Nat : After(v) \in Nat
  BY RetryAssumption DEF Smaller
<1> HIDE DEF After
<1>2. step \in [Nat -> [Nat -> Nat]] /\ Backoff \in Nat
  BY <1>1, RetryAssumption
<1>3. PICK f \in [Nat -> Nat] : f[0] = Backoff /\ \A n \in Nat \ {0} : f[n] = step[n][f[n - 1]]
  <2> DEFINE S == Nat
             s == Backoff
  <2>1. step \in [Nat -> [S -> S]] /\ s \in S
    BY <1>2
  <2> HIDE DEF step, S, s
  <2>2. PICK f : Recurs(f, S, s, step)
    BY <2>1, Recursion
  <2> QED
    BY <2>2 DEF Recurs, S, s
<1>4. Is(f)
  <2>1. ASSUME NEW n \in Nat PROVE f[n] = IF n = 0 THEN Backoff ELSE After(f[n - 1])
    <3>1. CASE n = 0
      BY <1>3, <3>1
    <3>2. CASE n # 0
      <4>1. n - 1 \in Nat /\ f[n - 1] \in Nat
        BY <1>3, <3>2
      <4> QED
        BY <1>3, <3>2, <4>1
    <3> QED
      BY <3>1, <3>2
  <2> QED
    BY <1>3, <2>1
<1>5. Schedule = CHOOSE g : Is(g)
  BY DEF Schedule, After
<1>6. Is(Schedule)
  <2> HIDE DEF Is
  <2> QED
    BY <1>4, <1>5
<1> DEFINE T == {n \in Nat : Schedule[n] \in Nat}
<1>7. Schedule[0] = Backoff /\ \A n \in Nat \ {0} : Schedule[n] = After(Schedule[n - 1])
  BY <1>6
<1>8. T = Nat
  <2>1. 0 \in T
    BY <1>2, <1>7
  <2>2. ASSUME NEW n \in T PROVE n + 1 \in T
    <3>1. n \in Nat /\ n + 1 \in Nat \ {0} /\ (n + 1) - 1 = n
      BY <2>2
    <3> QED
      BY <1>1, <1>7, <2>2, <3>1
  <2>3. T \in SUBSET Nat
    OBVIOUS
  <2> HIDE DEF T
  <2> QED
    BY <2>1, <2>2, <2>3, SetInduction
<1>9. Schedule \in [Nat -> Nat]
  BY <1>6, <1>8
<1> QED
  BY <1>7, <1>9 DEF After

\* The shortest jittered backoff is a natural number ...
LEMMA LeastNat ==
  ASSUME NEW b \in Nat
  PROVE  Least(b) \in Nat
<1> DEFINE P == b * (100 - JitterPct)
<1>1. P \in Nat
  BY RetryAssumption
<1> HIDE DEF P
<1>2. (P + 99) \div 100 \in Nat
  BY <1>1
<1> QED
  BY <1>2 DEF Least, P

\* ... and no jittered wait is shorter.
LEMMA LeastWait ==
  ASSUME NEW b \in Nat, NEW w \in Jittered(b)
  PROVE  w \in Nat /\ w >= Least(b)
<1> DEFINE P == b * (100 - JitterPct)
<1>1. P \in Nat
  BY RetryAssumption
<1>2. w \in Nat /\ 100 * w >= P
  BY DEF Jittered
<1> HIDE DEF P
<1>3. w >= (P + 99) \div 100
  BY <1>1, <1>2
<1> QED
  BY <1>2, <1>3 DEF Least, P

\* The n-th call starts no earlier than the n - 1 shortest backoffs before it.
LEMMA EarliestDefined ==
  /\ Earliest \in [Nat -> Nat]
  /\ Earliest[0] = 0 /\ Earliest[1] = 0
  /\ \A n \in Nat \ {0} : Earliest[n + 1] = Earliest[n] + Least(Schedule[n - 1])
<1> DEFINE After(n, v) == IF n <= 1 THEN 0 ELSE v + Least(Schedule[n - 2])
           step == [n \in Nat |-> [v \in Nat |-> After(n, v)]]
           Is(f) == f = [n \in Nat |-> IF n <= 1 THEN 0 ELSE f[n - 1] + Least(Schedule[n - 2])]
<1>1. \A n \in Nat, v \in Nat : After(n, v) \in Nat
  <2> SUFFICES ASSUME NEW n \in Nat, NEW v \in Nat, n > 1 PROVE v + Least(Schedule[n - 2]) \in Nat
    OBVIOUS
  <2>1. Schedule[n - 2] \in Nat
    BY ScheduleDefined
  <2> QED
    BY <2>1, LeastNat
<1>2. step \in [Nat -> [Nat -> Nat]]
  <2> HIDE DEF After
  <2> QED
    BY <1>1
<1>3. PICK f \in [Nat -> Nat] : f[0] = 0 /\ \A n \in Nat \ {0} : f[n] = step[n][f[n - 1]]
  <2> DEFINE S == Nat
  <2>1. step \in [Nat -> [S -> S]] /\ 0 \in S
    BY <1>2
  <2> HIDE DEF step, S
  <2>2. PICK f : Recurs(f, S, 0, step)
    BY <2>1, Recursion
  <2> QED
    BY <2>2 DEF Recurs, S
<1>4. \A n \in Nat \ {0} : f[n] = After(n, f[n - 1])
  <2> HIDE DEF After
  <2> TAKE n \in Nat \ {0}
  <2>1. n - 1 \in Nat /\ f[n - 1] \in Nat
    BY <1>3
  <2> QED
    BY <1>3, <2>1
<1>5. Is(f)
  <2>1. ASSUME NEW n \in Nat PROVE f[n] = IF n <= 1 THEN 0 ELSE f[n - 1] + Least(Schedule[n - 2])
    BY <1>3, <1>4
  <2> QED
    BY <1>3, <2>1
<1>6. Earliest = CHOOSE g : Is(g)
  BY DEF Earliest
<1>7. Is(Earliest)
  <2> HIDE DEF Is
  <2> QED
    BY <1>5, <1>6
<1> DEFINE T == {n \in Nat : Earliest[n] \in Nat}
<1>8. T = Nat
  <2>1. 0 \in T
    BY <1>7
  <2>2. ASSUME NEW n \in T PROVE n + 1 \in T
    <3>1. n \in Nat /\ Earliest[n] \in Nat
      BY <2>2
    <3>2. CASE n = 0
      BY <1>7, <3>2
    <3>3. CASE n # 0
      <4>1. n + 1 \in Nat /\ ~(n + 1 <= 1) /\ (n + 1) - 1 = n /\ (n + 1) - 2 = n - 1 /\ n - 1 \in Nat
        BY <3>1, <3>3
      <4>2. Earliest[n + 1] = Earliest[n] + Least(Schedule[n - 1])
        BY <1>7, <4>1
      <4>3. Least(Schedule[n - 1]) \in Nat
        BY <4>1, ScheduleDefined, LeastNat
      <4> QED
        BY <3>1, <4>1, <4>2, <4>3
    <3> QED
      BY <3>2, <3>3
  <2>3. T \in SUBSET Nat
    OBVIOUS
  <2> HIDE DEF T
  <2> QED
    BY <2>1, <2>2, <2>3, SetInduction
<1>9. Earliest \in [Nat -> Nat]
  BY <1>7, <1>8
<1>10. ASSUME NEW n \in Nat \ {0} PROVE Earliest[n + 1] = Earliest[n] + Least(Schedule[n - 1])
  <2>1. n + 1 \in Nat /\ ~(n + 1 <= 1) /\ (n + 1) - 1 = n /\ (n + 1) - 2 = n - 1
    OBVIOUS
  <2> QED
    BY <1>7, <2>1
<1>11. Earliest[0] = 0 /\ Earliest[1] = 0
  BY <1>7
<1> QED
  BY <1>9, <1>10, <1>11

\* What a client knows of the time: its backoff is the one of its attempt; it has
\* waited for its call, or has no time for another; and the time that was left when
\* a call began is what the deadline still allowed.
SpacingInv ==
  \A c \in Clients :
    /\ pc[c] # "returned" => backoff[c] = Schedule[attempt[c] - 1]
    /\ pc[c] \in {"start", "calling"} => now >= Earliest[attempt[c]]
    /\ pc[c] \in {"start", "calling"} => now + remaining[c] >= Deadline[c]
    /\ pc[c] = "check" => now >= Earliest[attempt[c]] \/ now >= Deadline[c]
    /\ pc[c] = "sleeping" => wakeAt[c] >= Earliest[attempt[c]] \/ wakeAt[c] >= Deadline[c]

\* A failed call moves on in the schedule, and no sleep is shorter than its jitter
\* allows, but for one that ends with the deadline.
LEMMA FailSpaced ==
  ASSUME IInv, SpacingInv, NEW c \in Clients, pc[c] = "calling", NEW errorCode, NEW cause,
         Fail(c, errorCode, cause), UNCHANGED <<now, remaining>>
  PROVE  SpacingInv'
<1>1. CASE errorCode \in RetryCodes
  <2>1. PICK jittered \in Jittered(backoff[c]) :
          /\ wakeAt' = [wakeAt EXCEPT ![c] = now + Wait(jittered, c)]
          /\ attempt' = [attempt EXCEPT ![c] = @ + 1]
          /\ backoff' = [backoff EXCEPT ![c] = NextBackoff(@)]
          /\ pc' = [pc EXCEPT ![c] = "sleeping"]
    BY <1>1 DEF Fail, Retries
  <2>2. /\ now \in Nat /\ remaining[c] \in Nat /\ attempt[c] \in Nat \ {0} /\ Deadline[c] \in Nat
        /\ backoff[c] \in Backoff..BackoffMax /\ backoff[c] \in Nat
    BY RetryAssumption DEF IInv, TypeOK
  <2>3. jittered \in Nat /\ jittered >= Least(backoff[c])
    BY <2>2, LeastWait
  <2>4. /\ backoff[c] = Schedule[attempt[c] - 1] /\ now >= Earliest[attempt[c]]
        /\ now + remaining[c] >= Deadline[c]
    BY DEF SpacingInv
  <2>5. Earliest[attempt[c] + 1] = Earliest[attempt[c]] + Least(backoff[c])
    BY <2>2, <2>4, EarliestDefined
  <2>6. NextBackoff(backoff[c]) = Schedule[attempt[c]]
    BY <2>2, <2>4, ScheduleDefined DEF NextBackoff
  <2>7. Earliest[attempt[c]] \in Nat /\ Least(backoff[c]) \in Nat
    BY <2>2, EarliestDefined, LeastNat
  <2> DEFINE until == now + Wait(jittered, c)
  <2>8. until >= Earliest[attempt[c] + 1] \/ until >= Deadline[c]
    BY <2>2, <2>3, <2>4, <2>5, <2>7 DEF Wait, Smaller
  <2> HIDE DEF until
  <2>9. /\ pc'[c] = "sleeping" /\ wakeAt'[c] = until /\ attempt'[c] = attempt[c] + 1
        /\ backoff'[c] = Schedule[attempt'[c] - 1]
    BY <2>1, <2>2, <2>6 DEF IInv, TypeOK, until
  <2>10. \A d \in Clients \ {c} : /\ pc'[d] = pc[d] /\ wakeAt'[d] = wakeAt[d]
                                  /\ attempt'[d] = attempt[d] /\ backoff'[d] = backoff[d]
    BY <2>1 DEF IInv, TypeOK
  <2> QED
    BY <2>8, <2>9, <2>10 DEF SpacingInv
<1>2. CASE errorCode \notin RetryCodes
  BY <1>2 DEF Fail, Retries, Finish, loopVars, IInv, TypeOK, SpacingInv
<1> QED
  BY <1>1, <1>2

\* The transitions keep the spacing.
LEMMA SpacingStep ==
  ASSUME IInv, SpacingInv, [Next]_vars
  PROVE  SpacingInv'
<1>1. ASSUME NEW c \in Clients, Check(c) PROVE SpacingInv'
  <2>1. CASE OutOfTime(c)
    BY <1>1, <2>1 DEF Check, Finish, IInv, TypeOK, SpacingInv, loopVars
  <2>2. CASE ~OutOfTime(c)
    <3>1. /\ remaining' = [remaining EXCEPT ![c] = Deadline[c] - now]
          /\ pc' = [pc EXCEPT ![c] = "start"]
          /\ UNCHANGED <<now, loopVars>>
      BY <1>1, <2>2 DEF Check
    <3>2. now \in Nat /\ Deadline[c] \in Nat /\ ~(now >= Deadline[c]) /\ pc[c] = "check"
      <4>1. now \in Nat /\ Deadline[c] \in Nat /\ pc[c] = "check"
        BY <1>1, RetryAssumption DEF IInv, TypeOK, Check
      <4>2. ~(Deadline[c] - now <= 0)
        BY <2>2 DEF OutOfTime
      <4> QED
        BY <4>1, <4>2
    <3>3. now + (Deadline[c] - now) >= Deadline[c]
      BY <3>2
    <3> QED
      BY <3>1, <3>2, <3>3 DEF IInv, TypeOK, SpacingInv, loopVars
  <2> QED
    BY <2>1, <2>2
<1>2. ASSUME NEW c \in Clients, StartChild(c) \/ StartFails(c) PROVE SpacingInv'
  BY <1>2 DEF StartChild, StartFails, Finish, IInv, TypeOK, SpacingInv, loopVars
<1>3. ASSUME NEW c \in Clients, Wake(c) PROVE SpacingInv'
  <2>1. /\ pc' = [pc EXCEPT ![c] = "check"] /\ pc[c] = "sleeping" /\ now >= wakeAt[c]
        /\ UNCHANGED <<now, remaining, attempt, backoff, wakeAt>>
    BY <1>3 DEF Wake, Slept, loopVars
  <2>2. now >= Earliest[attempt[c]] \/ now >= Deadline[c]
    <3>1. /\ now \in Nat /\ wakeAt[c] \in Nat /\ Deadline[c] \in Nat
          /\ Earliest[attempt[c]] \in Nat
      BY RetryAssumption, EarliestDefined DEF IInv, TypeOK
    <3> QED
      BY <2>1, <3>1 DEF SpacingInv
  <2> QED
    BY <2>1, <2>2 DEF IInv, TypeOK, SpacingInv
<1>4. ASSUME NEW c \in Clients, ChildFails(c) PROVE SpacingInv'
  BY <1>4, FailSpaced DEF ChildFails
<1>10. ASSUME NEW c \in Clients, ChildRefuses(c) PROVE SpacingInv'
  BY <1>10, FailSpaced DEF ChildRefuses
<1>5. ASSUME NEW c \in Clients, ChildLocks(c) \/ ChildReachesProvider(c) \/ ChildSucceeds(c)
      PROVE SpacingInv'
  BY <1>5 DEF ChildLocks, ChildReachesProvider, ChildSucceeds, Finish, IInv, TypeOK, SpacingInv, loopVars
<1>6. ASSUME NEW c \in Clients, CleanFailure(c) PROVE SpacingInv'
  BY <1>6, FailSpaced DEF CleanFailure
<1>7. ASSUME NEW c \in Clients, UncleanFailure(c) PROVE SpacingInv'
  <2> DEFINE cause == ConditionCause(Operation, "producer_transport_failure")
  <2>1. /\ pc[c] = "calling" /\ UNCHANGED <<now, remaining>>
        /\ \/ Fail(c, "upstream_error", cause)
           \/ Fail(c, "fatal", [cause EXCEPT !.retry_scope = "none"])
           \/ Finish(c, Uncaught) /\ UNCHANGED loopVars
    BY <1>7 DEF UncleanFailure
  <2> HIDE DEF cause
  <2>2. CASE Finish(c, Uncaught) /\ UNCHANGED loopVars
    BY <2>1, <2>2 DEF Finish, IInv, TypeOK, SpacingInv, loopVars
  <2> QED
    BY <2>1, <2>2, FailSpaced
<1>8. CASE Tick
  <2>1. now' = now + 1 /\ now \in Nat /\ UNCHANGED <<pc, remaining, loopVars>>
        /\ \A c \in Clients : pc[c] \notin {"check", "start"}
    BY <1>8 DEF Tick, IInv, TypeOK
  <2>2. \A c \in Clients : attempt[c] \in Nat /\ remaining[c] \in Nat /\ Deadline[c] \in Nat
    BY RetryAssumption DEF IInv, TypeOK
  <2>3. \A c \in Clients : Earliest[attempt[c]] \in Nat
    BY <2>2, EarliestDefined
  <2> QED
    BY <2>1, <2>2, <2>3 DEF SpacingInv, loopVars
<1>9. CASE Other \/ UNCHANGED vars
  BY <1>9 DEF Other, vars, SpacingInv, loopVars
<1> QED
  BY <1>1, <1>2, <1>3, <1>4, <1>5, <1>6, <1>7, <1>8, <1>9, <1>10
     DEF Next, Loop, Call, CallReturns, Returned

\* Contention is never a storm: whatever the backoffs, the jitter and the number of
\* clients, the n-th call of a request starts no earlier than the n - 1 backoffs
\* before it allow.
THEOREM CallsSpacedOutAlways == Spec => []CallsSpacedOut
<1>1. Init => SpacingInv /\ ScopeInv
  <2> SUFFICES ASSUME Init PROVE SpacingInv /\ ScopeInv
    OBVIOUS
  <2>1. ScopeInv
    BY DEF Init, ScopeInv, NoResult
  <2>2. SpacingInv
    BY ScheduleDefined, EarliestDefined DEF Init, SpacingInv
  <2> QED
    BY <2>1, <2>2
<1>2. IInv /\ SpacingInv /\ ScopeInv /\ [Next]_vars => SpacingInv' /\ ScopeInv'
  BY SpacingStep, ScopeStep
<1>3. SpacingInv /\ ScopeInv => CallsSpacedOut
  BY DEF SpacingInv, ScopeInv, CallsSpacedOut
<1> QED
  BY <1>1, <1>2, <1>3, IInvAlways, PTL DEF Spec
-----------------------------------------------------------------------------
(* How many calls a deadline is worth. *)

\* No backoff is shorter than the first, so that the n-th call comes after n - 1 of the
\* shortest waits of all.
LEMMA EarliestGrows ==
  ASSUME NEW n \in Nat
  PROVE  Earliest[n + 1] >= n * Least(Backoff)
<1> DEFINE L == Least(Backoff)
<1>1. L \in Nat /\ Backoff \in Nat /\ BackoffMax \in Nat /\ Backoff <= BackoffMax
  BY LeastNat, RetryAssumption
<1>2. ASSUME NEW b \in Nat, b >= Backoff PROVE Least(b) >= L
  <2> DEFINE J == 100 - JitterPct
             P == Backoff * J
             Q == b * J
  <2>1. J \in Nat
    BY RetryAssumption
  <2>2. P \in Nat /\ Q \in Nat /\ P <= Q
    BY <1>1, <1>2, <2>1
  <2> HIDE DEF P, Q
  <2>3. (P + 99) \div 100 <= (Q + 99) \div 100
    BY <2>2
  <2> QED
    BY <2>3 DEF Least, P, Q
<1> HIDE DEF L
<1> DEFINE T == {k \in Nat : Schedule[k] >= Backoff /\ Earliest[k + 1] >= k * L}
<1>3. 0 \in T
  BY <1>1, ScheduleDefined, EarliestDefined
<1>4. ASSUME NEW k \in T PROVE k + 1 \in T
  <2>1. k \in Nat /\ k + 1 \in Nat \ {0} /\ (k + 1) - 1 = k /\ Schedule[k] >= Backoff
        /\ Schedule[k] \in Nat /\ Earliest[k + 1] >= k * L /\ Earliest[k + 1] \in Nat
    BY <1>4, ScheduleDefined, EarliestDefined
  <2>2. Schedule[k + 1] >= Backoff
    BY <1>1, <2>1, ScheduleDefined DEF Smaller
  <2>3. Earliest[(k + 1) + 1] = Earliest[k + 1] + Least(Schedule[k])
    BY <2>1, EarliestDefined
  <2>4. Least(Schedule[k]) \in Nat /\ Least(Schedule[k]) >= L
    BY <1>2, <2>1, LeastNat
  <2>5. (k + 1) * L = k * L + L /\ k * L \in Nat
    BY <1>1, <2>1
  <2>6. Earliest[(k + 1) + 1] >= (k + 1) * L
    <3> DEFINE x == k * L
    <3>1. x \in Nat /\ (k + 1) * L = x + L /\ Earliest[k + 1] >= x
      BY <2>1, <2>5
    <3> HIDE DEF x
    <3>2. Earliest[k + 1] + Least(Schedule[k]) >= x + L
      BY <1>1, <2>1, <2>4, <3>1
    <3> QED
      BY <2>3, <3>1, <3>2
  <2> QED
    BY <2>1, <2>2, <2>6
<1>5. T = Nat
  <2>1. T \in SUBSET Nat
    OBVIOUS
  <2> HIDE DEF T
  <2> QED
    BY <1>3, <1>4, <2>1, SetInduction
<1> QED
  BY <1>5 DEF L

\* The latest call of a request was due before its deadline.
DueInv == \A c \in Clients : calls[c] # 0 => Earliest[calls[c]] < Deadline[c]

\* "Contention ... bounded by the overall deadline": of a request with a deadline of
\* this length, no more than so many calls.
CallsLimited ==
  \A c \in Clients : calls[c] # 0 => (calls[c] - 1) * Least(Backoff) < Deadline[c]

\* However long others hold the catalog, a request makes fewer company-wiki calls than
\* the shortest wait fits into its deadline, and one.
THEOREM CallsLimitedAlways == Spec => []CallsLimited
<1>1. Init => SpacingInv /\ ScopeInv /\ DueInv
  <2> SUFFICES ASSUME Init PROVE SpacingInv /\ ScopeInv /\ DueInv
    OBVIOUS
  <2>1. ScopeInv /\ DueInv
    BY DEF Init, ScopeInv, DueInv, NoResult
  <2>2. SpacingInv
    BY ScheduleDefined, EarliestDefined DEF Init, SpacingInv
  <2> QED
    BY <2>1, <2>2
<1>2. IInv /\ SpacingInv /\ ScopeInv /\ DueInv /\ [Next]_vars => DueInv'
  <2> SUFFICES ASSUME IInv, SpacingInv, ScopeInv, DueInv, [Next]_vars PROVE DueInv'
    OBVIOUS
  <2>1. ASSUME NEW c \in Clients, Check(c), ~OutOfTime(c) PROVE DueInv'
    <3>1. calls' = [calls EXCEPT ![c] = calls[c] + 1] /\ pc[c] = "check"
      BY <2>1 DEF Check, Counted
    <3>2. /\ now \in Nat /\ Deadline[c] \in Nat /\ calls[c] \in Nat /\ attempt[c] \in Nat
          /\ calls[c] + 1 = attempt[c]
      <4>1. /\ now \in Nat /\ Deadline[c] \in Nat /\ calls[c] \in Nat
            /\ attempt[c] \in Nat \ {0}
        BY RetryAssumption DEF IInv, TypeOK
      <4>2. calls[c] = attempt[c] - 1
        BY <3>1 DEF ScopeInv
      <4> QED
        BY <4>1, <4>2
    <3>3. now < Deadline[c]
      BY <2>1, <3>2 DEF OutOfTime
    <3>4. now >= Earliest[attempt[c]] /\ Earliest[attempt[c]] \in Nat
      BY <3>1, <3>2, <3>3, EarliestDefined DEF SpacingInv
    <3>5. Earliest[calls'[c]] < Deadline[c]
      BY <3>1, <3>2, <3>3, <3>4 DEF IInv, TypeOK
    <3> QED
      BY <3>1, <3>5 DEF IInv, TypeOK, DueInv
  <2>2. ASSUME NEW c \in Clients, Check(c), OutOfTime(c) PROVE UNCHANGED calls
    BY <2>2 DEF Check
  <2>3. ASSUME NEW c \in Clients, StartChild(c) \/ StartFails(c) \/ Wake(c) \/ Call(c)
        PROVE UNCHANGED calls
    BY <2>3 DEF StartChild, StartFails, Wake, Call, CallReturns, ChildLocks, ChildReachesProvider,
       ChildFails, ChildRefuses, ChildSucceeds, CleanFailure, UncleanFailure
  <2>4. CASE Other \/ Tick \/ UNCHANGED vars
    BY <2>4 DEF Other, Tick, vars, DueInv
  <2> QED
    BY <2>1, <2>2, <2>3, <2>4 DEF Next, Loop, Returned, DueInv
<1>3. IInv /\ SpacingInv /\ ScopeInv /\ [Next]_vars => SpacingInv' /\ ScopeInv'
  BY SpacingStep, ScopeStep
<1>4. IInv /\ DueInv => CallsLimited
  <2> SUFFICES ASSUME IInv, DueInv, NEW c \in Clients, calls[c] # 0
               PROVE  (calls[c] - 1) * Least(Backoff) < Deadline[c]
    BY DEF CallsLimited
  <2> DEFINE n == calls[c] - 1
  <2>1. n \in Nat /\ calls[c] = n + 1 /\ Deadline[c] \in Nat
    BY RetryAssumption DEF IInv, TypeOK
  <2> HIDE DEF n
  <2>2. Earliest[n + 1] < Deadline[c] /\ Earliest[n + 1] \in Nat
    BY <2>1, EarliestDefined DEF DueInv
  <2>3. Earliest[n + 1] >= n * Least(Backoff) /\ n * Least(Backoff) \in Nat
    BY <2>1, EarliestGrows, LeastNat, RetryAssumption
  <2>4. n * Least(Backoff) < Deadline[c]
    BY <2>1, <2>2, <2>3
  <2> QED
    BY <2>4 DEF n
<1> QED
  BY <1>1, <1>2, <1>3, <1>4, IInvAlways, PTL DEF Spec
-----------------------------------------------------------------------------
(* The loop implements RetriedCall. *)

Phase == [c \in Clients |-> PhaseAt(pc[c])]

\* Where a client goes in the loop, its request goes in the abstract one.
LEMMA PhaseMoves ==
  ASSUME TypeOK, NEW c \in Clients, NEW place, pc' = [pc EXCEPT ![c] = place]
  PROVE  Phase' = [Phase EXCEPT ![c] = PhaseAt(place)] /\ Phase[c] = PhaseAt(pc[c])
<1>1. pc'[c] = place /\ \A d \in Clients \ {c} : pc'[d] = pc[d]
  BY DEF TypeOK
<1>2. Phase' = [d \in Clients |-> PhaseAt(pc'[d])]
  BY DEF Phase
<1>3. [Phase EXCEPT ![c] = PhaseAt(place)]
        = [d \in Clients |-> IF d = c THEN PhaseAt(place) ELSE PhaseAt(pc[d])]
  BY DEF Phase
<1>4. \A d \in Clients : PhaseAt(pc'[d]) = IF d = c THEN PhaseAt(place) ELSE PhaseAt(pc[d])
  BY <1>1
<1>5. Phase[c] = PhaseAt(pc[c])
  BY DEF Phase
<1> QED
  BY <1>2, <1>3, <1>4, <1>5

\* A client that moves within its phase, or none that moves, is a stutter.
LEMMA Stutters ==
  ASSUME UNCHANGED <<last_cause, result>>, Phase' = Phase
  PROVE  UNCHANGED Retried!callVars
  BY DEF Retried!callVars, Phase

\* A result that a call may have.
LEMMA AnswerStep ==
  ASSUME TypeOK, NEW c \in Clients, pc[c] \in {"start", "calling"}, NEW r, Finish(c, r),
         UNCHANGED loopVars,
         \/ r \in {Payload, Uncaught}
         \/ \E code \in FilingCodes \ RetryCodes : r = Error(code, NoCause)
         \/ \E code \in FilingCodes \ RetryCodes, cause \in Causes :
              r = Error(code, cause) /\ cause.retry_scope # "catalog_contention"
  PROVE  Retried!Next
<1>1. Phase' = [Phase EXCEPT ![c] = "over"] /\ Phase[c] = "calling"
  BY PhaseMoves DEF Finish, PhaseAt
<1>2. /\ result' = [result EXCEPT ![c] = r] /\ result'[c] = r /\ UNCHANGED last_cause
  BY DEF Finish, TypeOK, loopVars
<1>3. r \in {Payload, Uncaught}
        \cup [kind : {"error"}, code : FilingCodes \ RetryCodes,
              cause : Scoped({"none", "caller_decision"}) \cup {NoCause}]
  BY DEF Error, Scoped, Causes
<1>4. Retried!Answer(c)
  BY <1>1, <1>2, <1>3 DEF Retried!Answer, Retried!Tell, Phase
<1> QED
  BY <1>4 DEF Retried!Next

\* The except clause ends a call, as contention or as the answer.
LEMMA FailEnds ==
  ASSUME TypeOK, NEW c \in Clients, pc[c] = "calling",
         NEW errorCode \in FilingCodes, NEW cause \in Causes,
         errorCode \in RetryCodes <=> cause.retry_scope = "catalog_contention",
         Fail(c, errorCode, cause)
  PROVE  Retried!Next
<1>1. CASE errorCode \in RetryCodes
  <2>1. /\ last_cause' = [last_cause EXCEPT ![c] = cause]
        /\ pc' = [pc EXCEPT ![c] = "sleeping"] /\ UNCHANGED result
    BY <1>1 DEF Fail, Retries
  <2>2. Phase' = [Phase EXCEPT ![c] = "between"] /\ Phase[c] = "calling"
    BY <2>1, PhaseMoves DEF PhaseAt
  <2>3. last_cause'[c] = cause /\ cause \in ContentionCauses
    BY <1>1, <2>1 DEF TypeOK, Causes, ContentionCauses, Scoped
  <2>4. Retried!Contend(c)
    BY <2>1, <2>2, <2>3 DEF Retried!Contend, Phase
  <2> QED
    BY <2>4 DEF Retried!Next
<1>2. CASE errorCode \notin RetryCodes
  <2>1. Finish(c, Error(errorCode, cause)) /\ UNCHANGED loopVars
    BY <1>2 DEF Fail, Retries
  <2> DEFINE r == Error(errorCode, cause)
  <2>2. \E code \in FilingCodes \ RetryCodes, k \in Causes :
          r = Error(code, k) /\ k.retry_scope # "catalog_contention"
    BY <1>2
  <2>3. Finish(c, r)
    BY <2>1
  <2> HIDE DEF r
  <2> QED
    BY <2>1, <2>2, <2>3, AnswerStep
<1> QED
  BY <1>1, <1>2

\* Every step of the loop is a step of the abstract one, or none.
LEMMA RetriedStep ==
  ASSUME IInv, [Next]_vars
  PROVE  [Retried!Next]_(Retried!callVars)
<1> USE DEF IInv
<1>1. ASSUME NEW c \in Clients, Check(c) PROVE Retried!Next
  <2>1. pc[c] = "check" /\ UNCHANGED last_cause
    BY <1>1 DEF Check, loopVars
  <2>2. CASE OutOfTime(c)
    <3>1. Finish(c, Error("upstream_error", Exhausted(c)))
      BY <1>1, <2>2 DEF Check
    <3>2. Phase' = [Phase EXCEPT ![c] = "over"] /\ Phase[c] = "between"
      BY <2>1, <3>1, PhaseMoves DEF Finish, PhaseAt
    <3>3. /\ result' = [result EXCEPT ![c] = Error("upstream_error", Exhausted(c))]
          /\ result'[c] = Error("upstream_error", Exhausted(c))
      BY <3>1 DEF Finish, TypeOK
    <3>4. last_cause[c] \in ContentionCauses \cup {NoCause}
      BY DEF TypeOK, UsageInv, Causes, ContentionCauses, Scoped
    <3> DEFINE Told == [k \in ContentionCauses \cup {NoCause} |->
                 Error("upstream_error", IF k = NoCause THEN NotStartedCause(Operation) ELSE k)]
    <3>5. result'[c] = Told[last_cause[c]]
      BY <3>3, <3>4 DEF Exhausted
    <3>6. Retried!GiveUp(c)
      BY <2>1, <3>2, <3>3, <3>5 DEF Retried!GiveUp, Retried!Tell, Phase
    <3> QED
      BY <3>6 DEF Retried!Next
  <2>3. CASE ~OutOfTime(c)
    <3>1. pc' = [pc EXCEPT ![c] = "start"] /\ UNCHANGED result
      BY <1>1, <2>3 DEF Check
    <3>2. Phase' = [Phase EXCEPT ![c] = PhaseAt("start")] /\ Phase[c] = PhaseAt("check")
      BY <2>1, <3>1, PhaseMoves
    <3>3. Retried!Call(c)
      BY <2>1, <3>1, <3>2 DEF Retried!Call, Phase, PhaseAt
    <3> QED
      BY <3>3 DEF Retried!Next
  <2> QED
    BY <2>2, <2>3
<1>2. ASSUME NEW c \in Clients, StartChild(c) \/ Wake(c) PROVE UNCHANGED Retried!callVars
  <2>1. /\ UNCHANGED <<last_cause, result>>
        /\ \/ pc[c] = "start" /\ pc' = [pc EXCEPT ![c] = "calling"]
           \/ pc[c] = "sleeping" /\ pc' = [pc EXCEPT ![c] = "check"]
    BY <1>2 DEF StartChild, Wake, loopVars
  <2>2. Phase' = [Phase EXCEPT ![c] = Phase[c]]
    BY <2>1, PhaseMoves DEF PhaseAt
  <2>3. Phase' = Phase
    BY <2>2 DEF Phase
  <2> QED
    BY <2>1, <2>3, Stutters
<1>3. ASSUME NEW c \in Clients, StartFails(c) PROVE Retried!Next
  <2> DEFINE cause == ConditionCause(Operation, "producer_start_failed")
             r == Error("fatal", cause)
  <2>1. cause \in Causes /\ cause.retry_scope # "catalog_contention"
    BY Conditioned DEF Conditions, ConditionCause, BuildCause, RetryScope, RetryCodes, CallerDecision
  <2>2. pc[c] = "start" /\ Finish(c, r) /\ UNCHANGED loopVars
    BY <1>3 DEF StartFails
  <2>3. "fatal" \in FilingCodes \ RetryCodes
    BY DEF FilingCodes, RetryCodes
  <2> HIDE DEF cause
  <2>4. \E code \in FilingCodes \ RetryCodes, k \in Causes :
          r = Error(code, k) /\ k.retry_scope # "catalog_contention"
    BY <2>1, <2>3
  <2> HIDE DEF r
  <2> QED
    BY <2>2, <2>4, AnswerStep
<1>4. ASSUME NEW c \in Clients, ChildFails(c) PROVE Retried!Next
  <2>1. PICK type \in StderrTypes, receipt \in Receipts :
          Fail(c, DiagnoseCode(type), DiagnoseCause(Operation, type, receipt))
    BY <1>4, RetryAssumption DEF ChildFails
  <2> QED
    BY <1>4, <2>1, Diagnosed, FailEnds DEF ChildFails
<1>10. ASSUME NEW c \in Clients, ChildRefuses(c) PROVE Retried!Next
  <2>1. PICK r \in Results : Fail(c, BusinessCode(r), BusinessCause(Operation, r))
    BY <1>10, RetryAssumption DEF ChildRefuses
  <2> DEFINE cause == BusinessCause(Operation, r)
             answer == Error(BusinessCode(r), cause)
  <2>2. pc[c] = "calling" /\ Business
    BY <1>10 DEF ChildRefuses
  <2>3. /\ BusinessCode(r) \in FilingCodes \ RetryCodes
        /\ cause = NoCause \/ (cause \in Causes /\ cause.retry_scope # "catalog_contention")
    BY <2>2, Refused
  <2>4. Finish(c, answer) /\ UNCHANGED loopVars
    BY <2>1, <2>3 DEF Fail, Retries
  <2>5. \/ \E code \in FilingCodes \ RetryCodes : answer = Error(code, NoCause)
        \/ \E code \in FilingCodes \ RetryCodes, k \in Causes :
             answer = Error(code, k) /\ k.retry_scope # "catalog_contention"
    BY <2>3
  <2> HIDE DEF cause, answer
  <2> QED
    BY <2>2, <2>4, <2>5, AnswerStep
<1>5. ASSUME NEW c \in Clients, ChildSucceeds(c) PROVE Retried!Next
  <2> DEFINE cause == SourceCondition(Operation, "invalid_producer_schema")
             r == Error("fatal", cause)
  <2>1. cause \in Causes /\ cause.retry_scope # "catalog_contention"
    BY Conditioned DEF SourceCondition, LocalSourceCodes, BuildCause, RetryScope, RetryCodes, CallerDecision
  <2>2. pc[c] = "calling" /\ (Finish(c, Payload) \/ Finish(c, r)) /\ UNCHANGED loopVars
    BY <1>5 DEF ChildSucceeds
  <2>3. "fatal" \in FilingCodes \ RetryCodes
    BY DEF FilingCodes, RetryCodes
  <2> HIDE DEF cause
  <2>4. \E code \in FilingCodes \ RetryCodes, k \in Causes :
          r = Error(code, k) /\ k.retry_scope # "catalog_contention"
    BY <2>1, <2>3
  <2> HIDE DEF r
  <2> QED
    BY <2>2, <2>4, AnswerStep
<1>6. ASSUME NEW c \in Clients, CleanFailure(c) PROVE Retried!Next
  <2>1. PICK condition \in {"producer_deadline_exceeded", "producer_output_exceeded",
                            "producer_transport_failure"} :
          Fail(c, Condition[condition][1], ConditionCause(Operation, condition))
    BY <1>6 DEF CleanFailure
  <2>2. ConditionCause(Operation, condition).retry_scope # "catalog_contention"
    BY DEF ConditionCause, BuildCause, RetryScope, RetryCodes, CallerDecision
  <2>3. /\ Condition[condition][1] \in FilingCodes \ RetryCodes
        /\ ConditionCause(Operation, condition) \in Causes
    BY Conditioned DEF Conditions
  <2> QED
    BY <1>6, <2>1, <2>2, <2>3, FailEnds DEF CleanFailure
<1>7. ASSUME NEW c \in Clients, UncleanFailure(c) PROVE Retried!Next
  <2> DEFINE cause == ConditionCause(Operation, "producer_transport_failure")
             unscoped == [cause EXCEPT !.retry_scope = "none"]
  <2>1. cause \in Causes /\ cause.retry_scope # "catalog_contention"
    BY Conditioned DEF Conditions, ConditionCause, BuildCause, RetryScope, RetryCodes, CallerDecision
  <2> HIDE DEF cause
  <2>2. unscoped \in Causes /\ unscoped.retry_scope # "catalog_contention"
    <3>1. unscoped \in Causes /\ unscoped.retry_scope = "none"
      BY <2>1 DEF Causes
    <3> QED
      BY <3>1
  <2> HIDE DEF unscoped
  <2>3. /\ pc[c] = "calling"
        /\ \/ Fail(c, "upstream_error", cause)
           \/ Fail(c, "fatal", unscoped)
           \/ Finish(c, Uncaught) /\ UNCHANGED loopVars
    BY <1>7 DEF UncleanFailure, cause, unscoped
  <2>4. {"upstream_error", "fatal"} \subseteq FilingCodes \ RetryCodes
    BY DEF FilingCodes, RetryCodes
  <2>5. CASE Fail(c, "upstream_error", cause)
    BY <2>1, <2>3, <2>4, <2>5, FailEnds
  <2>6. CASE Fail(c, "fatal", unscoped)
    BY <2>2, <2>3, <2>4, <2>6, FailEnds
  <2>7. CASE Finish(c, Uncaught) /\ UNCHANGED loopVars
    BY <2>3, <2>7, AnswerStep
  <2> QED
    BY <2>3, <2>5, <2>6, <2>7
<1>8. ASSUME NEW c \in Clients, ChildLocks(c) \/ ChildReachesProvider(c)
      PROVE UNCHANGED Retried!callVars
  BY <1>8, Stutters DEF ChildLocks, ChildReachesProvider, loopVars, Phase
<1>9. CASE Other \/ Tick \/ UNCHANGED vars
  BY <1>9, Stutters DEF Other, Tick, vars, loopVars, Phase
<1> QED
  BY <1>1, <1>2, <1>3, <1>4, <1>5, <1>6, <1>7, <1>8, <1>9, <1>10
     DEF Next, Loop, Call, CallReturns, Returned

\* The retry loop implements RetriedCall, for every number of clients, deadline, backoff
\* and set of reports: it calls again only after contention, answers with the first
\* call that met none, and gives up with the latest contention.
THEOREM ImplementsRetriedCallAlways == Spec => ImplementsRetriedCall
<1>1. Init => Retried!Init
  BY DEF Init, Retried!Init, PhaseAt
<1>2. IInv /\ [Next]_vars => [Retried!Next]_(Retried!callVars)
  BY RetriedStep
<1> QED
  BY <1>1, <1>2, IInvAlways, PTL DEF Spec, ImplementsRetriedCall, Retried!Spec
=============================================================================
