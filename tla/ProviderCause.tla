---------------------------- MODULE ProviderCause ----------------------------
(***************************************************************************)
(* The safe upstream diagnostics of scripts/ff_provider_cause.py: how the  *)
(* error a failed company-wiki call published, or the condition that       *)
(* filing-fetch itself observed, becomes a filing error code and a cause.  *)
(* The acquisition-failure vocabulary is represented by two of its codes;  *)
(* which code it is never changes a decision.                              *)
(***************************************************************************)

\* A nullable boolean of the wire format.
Tri == {"null", "no", "yes"}

Operations == {"identify", "ensure", "resolve", "close-gap", "query", "local_prepare"}

\* stderr error_type (or the N-1 class names) -> <<filing code, cause code>>.
StderrTypes == {"catalog_locked", "catalog_busy", "db_timeout", "worker_paused",
                "legacy_evidence_archived", "fatal", "maintenance_operation_retired",
                "CatalogOperationLockedError", "RuntimeError_paused", "unparsed"}
Mapped ==
  [t \in StderrTypes |->
     CASE t \in {"catalog_locked", "CatalogOperationLockedError"} ->
            <<"catalog_locked", "catalog_locked">>
       [] t \in {"catalog_busy", "db_timeout"} -> <<t, t>>
       [] t \in {"worker_paused", "RuntimeError_paused"} -> <<"worker_paused", "worker_paused">>
       [] t \in {"legacy_evidence_archived", "fatal", "maintenance_operation_retired"} ->
            <<"fatal", t>>
       [] t = "unparsed" -> <<"fatal", "unknown">>]

\* Conditions filing-fetch observes: <<filing code, provider_started, usage_complete>>.
Conditions == {"producer_start_failed", "producer_deadline_exceeded",
               "producer_output_exceeded", "producer_transport_failure"}
Condition ==
  [c \in Conditions |-> IF c = "producer_start_failed" THEN <<"fatal", "no", "yes">>
                        ELSE <<"upstream_error", "null", "null">>]

AcquisitionCodes == {"provider_failed", "adapter_timeout"}
LocalSourceCodes == {"source_not_found", "catalog_unavailable", "invalid_producer_schema"}
CauseCodes == {"catalog_locked", "catalog_busy", "db_timeout", "worker_paused",
               "legacy_evidence_archived", "fatal", "maintenance_operation_retired",
               "unknown"} \cup Conditions \cup AcquisitionCodes \cup LocalSourceCodes

RetryCodes == {"catalog_locked", "catalog_busy", "db_timeout"}
CallerDecision == {"worker_paused", "producer_deadline_exceeded",
                   "producer_output_exceeded", "producer_transport_failure"}
RetryScope(code) == IF code \in RetryCodes THEN "catalog_contention"
                    ELSE IF code \in CallerDecision THEN "caller_decision" ELSE "none"

Causes == [operation : Operations, code : CauseCodes, provider_started : Tri,
           usage_complete : Tri, retry_scope : {"none", "catalog_contention", "caller_decision"}]

\* An error without an upstream cause.
NoCause == [code |-> "none"]

BuildCause(op, code, started, complete) ==
  [operation |-> op, code |-> code, provider_started |-> started,
   usage_complete |-> complete, retry_scope |-> RetryScope(code)]

\* The producer's acquisition-failure receipt, when a valid one was published.
NoReceipt == [code |-> "none", started |-> "null", complete |-> "null"]
Receipts == [code : AcquisitionCodes, started : Tri, complete : Tri] \cup {NoReceipt}

\* diagnose_stderr_observation: the receipt supplies the evidence, the generic
\* taxonomy keeps the filing code and the retry scope.
DiagnoseCode(type) == Mapped[type][1]
DiagnoseByReceipt(op, type, receipt) ==
  IF receipt = NoReceipt THEN BuildCause(op, Mapped[type][2], "null", "null")
  ELSE BuildCause(op, receipt.code, receipt.started, receipt.complete)
DiagnoseCause(op, type, receipt) ==
  IF receipt = NoReceipt THEN BuildCause(op, Mapped[type][2], "null", "null")
  ELSE [BuildCause(op, receipt.code, receipt.started, receipt.complete)
          EXCEPT !.retry_scope = RetryScope(Mapped[type][2])]

\* condition_cause, with the override that a caller makes when it proves that
\* nothing was started.
ConditionCause(op, condition) ==
  BuildCause(op, condition, Condition[condition][2], Condition[condition][3])
NotStartedCause(op) == BuildCause(op, "producer_deadline_exceeded", "no", "yes")

\* source_condition: only the two local operations prove that no provider ran,
\* and only when the answer itself could be trusted.
SourceCondition(op, reason) ==
  LET code  == IF reason \in LocalSourceCodes THEN reason ELSE "unknown"
      local == op \in {"query", "local_prepare"} /\ code # "invalid_producer_schema"
  IN  BuildCause(op, code, IF local THEN "no" ELSE "null", IF local THEN "yes" ELSE "null")

\* FilingFetchError.retryable
Retryable(code) == code \in {"upstream_error", "worker_paused"} \cup RetryCodes
=============================================================================
