---------------------------- MODULE SourceFailure ----------------------------
(***************************************************************************)
(* What a company-wiki operation without a source means to filing-fetch:   *)
(* the code and the cause that scripts/fetch_filing.py raises for the      *)
(* document a child has on stdout (_raise_operation_business_failure,      *)
(* _validated_operation, _pathless_operation_handle, with decode_failure   *)
(* and invalid_result of scripts/ff_source_failure.py).                    *)
(***************************************************************************)
EXTENDS ProviderCause

Statuses == {"ambiguous", "not_found", "unavailable", "blocked"}
RefusalCode(status) ==
  CASE status = "ambiguous" -> "ambiguous" [] status = "blocked" -> "source_blocked"
    [] status = "unavailable" -> "upstream_error" [] OTHER -> "not_found"
Reason(status) == IF status = "not_found" THEN "source_not_found" ELSE "unknown"

\* The document: "invalid" is no result for this request (not JSON, another exit
\* code, status, request or receipt of downloads), "unsupported" of another schema,
\* "leaking" has a physical location or an id that is none, and "refusal" answers.
\* A local preparation that blocks the download names its reason; one whose status
\* is not the result's makes it invalid.
NoLocal == "none"
Results ==
  {r \in [form : {"invalid", "unsupported", "leaking", "refusal"}, status : Statuses,
          receipt : Receipts, local : LocalSourceCodes \cup {"unknown", NoLocal}] :
     r.status = "not_found" => r.local = NoLocal}

\* The receipt speaks first.  Without one, a blocking local preparation makes
\* filing-fetch itself assert that no provider was started and nothing was used.
LocalCause(op, reason) ==
  [SourceCondition(op, reason) EXCEPT !.provider_started = "no", !.usage_complete = "yes"]
ReceiptCause(op, receipt) == BuildCause(op, receipt.code, receipt.started, receipt.complete)
RefusalCause(op, r) ==
  IF r.local # NoLocal THEN LocalCause(op, r.local) ELSE SourceCondition(op, Reason(r.status))
UnreadCause(op, form) ==
  IF form = "leaking" THEN NoCause ELSE SourceCondition(op, "invalid_producer_schema")
BusinessCauseLocalFirst(op, r) ==
  IF r.form = "refusal" /\ r.local # NoLocal THEN LocalCause(op, r.local)
  ELSE IF r.form # "invalid" /\ r.receipt # NoReceipt THEN ReceiptCause(op, r.receipt)
  ELSE IF r.form = "refusal" THEN RefusalCause(op, r) ELSE UnreadCause(op, r.form)
BusinessCause(op, r) ==
  IF r.form # "invalid" /\ r.receipt # NoReceipt THEN ReceiptCause(op, r.receipt)
  ELSE IF r.form = "refusal" THEN RefusalCause(op, r) ELSE UnreadCause(op, r.form)
BusinessCode(r) == IF r.form = "refusal" THEN RefusalCode(r.status) ELSE "upstream_error"
=============================================================================
