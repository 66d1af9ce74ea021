-------------------------- MODULE TranscriptResult --------------------------
(***************************************************************************)
(* What a companion transcript may answer, shared by the request that asks *)
(* for one (FilingFetch) and the transport that answers                    *)
(* (TranscriptCompanion).                                                  *)
(***************************************************************************)

\* The statuses of a companion that was dispatched.
CompanionStatuses(intent) ==
  {"reused", "unknown_publication", "not_found", "ambiguous", "upstream_error", "request_error"}
  \cup (IF intent = "fetch_if_missing" THEN {"downloaded", "provider_unavailable"} ELSE {})

\* The company-wiki calls of one companion: a query and an open, or a query, an
\* import and an open.
CompanionCalls == 3
=============================================================================
