----------------------------- MODULE RequestRules -----------------------------
(***************************************************************************)
(* Which requests fetch_filing.py accepts, and what it takes from them:    *)
(* scripts/filing_contracts.py validate_request and the rules it calls,    *)
(* with the one download intent of scripts/fetch_filing.py.  Of a field    *)
(* the model keeps whether it is there and what the rules tell apart in    *)
(* it; trimmed text, dates and markets are one field, good or bad.         *)
(***************************************************************************)
Versions == {"1.1", "1.2", "2.0", "other"}
Values == {"absent", "null", "good", "bad"}
Intents == {"absent", "reuse_only", "fetch_if_missing", "bad"}
\* "unhashable" is a JSON list or object, which the membership test raises on.
Modes == {"absent", "exact", "latest_as_of", "bad", "unhashable"}
\* Of the companion's fiscal year and quarter: both there, or not.
CompanionRequests == [intent : Intents, period : {"exact", "partial", "bad"}, limits : Values]
NoCompanion == [intent |-> "absent", period |-> "partial", limits |-> "absent"]

\* A request, and the flags it comes with.
RawRequests ==
  [version : Versions, text : {"good", "bad"}, mode : Modes, year : {"absent", "good", "bad"},
   intent : Intents, limits : Values, authorization : Values, companion : CompanionRequests,
   allow_download : BOOLEAN, source_ref_v2 : BOOLEAN]

\* Every version has its closed set of fields.
FieldsKnown(r) ==
  /\ r.version # "other"
  /\ r.version = "1.1" => r.mode = "absent"
  /\ r.version # "1.2" => r.authorization = "absent"
  /\ r.version # "2.0" => r.intent = "absent" /\ r.companion = NoCompanion

\* Provider work has explicit ceilings, and a reuse that does none forbids them.
\* Only the latest filing is looked up at the provider although it is a reuse.
LimitsAcceptedLax(intent, limits, looks_up) ==
  IF intent = "reuse_only" THEN limits \in {"absent", "null", "good"} ELSE limits = "good"
LimitsAccepted(intent, limits, looks_up) ==
  IF intent = "reuse_only" /\ ~looks_up THEN limits \in {"absent", "null"} ELSE limits = "good"

CompanionAccepted(c) ==
  \/ c = NoCompanion
  \/ /\ c.intent \in {"reuse_only", "fetch_if_missing"} /\ c.period # "bad"
     /\ \/ LimitsAccepted(c.intent, c.limits, FALSE)
        \/ c.intent = "fetch_if_missing" /\ c.period = "partial" /\ c.limits \in {"absent", "null"}

WorkAccepted(r) ==
  IF r.version = "2.0"
  THEN /\ r.intent \in {"reuse_only", "fetch_if_missing"}
       /\ LimitsAccepted(r.intent, r.limits, r.mode = "latest_as_of")
       /\ CompanionAccepted(r.companion)
  ELSE r.limits \in {"absent", "good"}

\* An exact request names its year; only a 1.1 request may leave it open.
NeedsYearOnlyIfExact(r) == r.mode = "exact"
NeedsYear(r) == r.mode = "exact" \/ (r.mode = "absent" /\ r.version # "1.1")
YearAccepted(r) ==
  /\ NeedsYear(r) => r.year # "absent"
  /\ r.mode = "latest_as_of" => r.year = "absent"
  /\ r.year # "bad"

\* A request that the rules raise on is neither accepted nor refused.
Verdict(r) ==
  CASE ~FieldsKnown(r) \/ r.text = "bad" -> "refused"
    [] FieldsKnown(r) /\ r.text = "good" /\ r.mode = "unhashable" -> "raises"
    [] OTHER -> IF /\ r.mode # "bad" /\ WorkAccepted(r)
                   /\ r.authorization # "bad" /\ YearAccepted(r)
                THEN "accepted" ELSE "refused"

\* A v2 request declares its intent, a v1 request has the flag.
DownloadIntent(r) == IF r.version = "2.0" THEN r.intent = "fetch_if_missing" ELSE r.allow_download

CompanionOption(r) ==
  LET c == r.companion
  IN  CASE r.version # "2.0" \/ c = NoCompanion -> "none"
        [] r.version = "2.0" /\ ~CompanionAccepted(c) -> "invalid"
        [] OTHER -> IF c.period # "exact" THEN "unresolved"
                    ELSE IF c.intent = "reuse_only" THEN "reuse" ELSE "fetch"

CompanionOptions == {"none", "invalid", "unresolved", "reuse", "fetch"}
AnyRequest ==
  [version : {1, 2}, verdict : {"accepted", "refused", "raises"}, download : BOOLEAN,
   latest : BOOLEAN, dated : BOOLEAN, source_ref_v2 : BOOLEAN, companion : CompanionOptions,
   raw : RawRequests]

\* What the rest of the program knows of a request.
Request(r) ==
  [version |-> IF r.version = "2.0" THEN 2 ELSE 1, verdict |-> Verdict(r),
   download |-> DownloadIntent(r), latest |-> r.mode = "latest_as_of", dated |-> r.year = "good",
   source_ref_v2 |-> r.source_ref_v2, companion |-> CompanionOption(r), raw |-> r]
=============================================================================
