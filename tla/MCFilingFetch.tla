---------------------------- MODULE MCFilingFetch ----------------------------
(* Requests of every route, and requests, configurations and candidates that *)
(* are one field away from an acceptable one.                                *)
EXTENDS FilingFetch

Exact == [version |-> "2.0", text |-> "good", mode |-> "exact", year |-> "good",
          intent |-> "reuse_only", limits |-> "absent", authorization |-> "absent",
          companion |-> NoCompanion, allow_download |-> FALSE, source_ref_v2 |-> FALSE]
Latest == [Exact EXCEPT !.mode = "latest_as_of", !.year = "absent", !.limits = "good"]
Fetching(r) == [r EXCEPT !.intent = "fetch_if_missing", !.limits = "good"]
Partial == [intent |-> "reuse_only", period |-> "partial", limits |-> "absent"]
ReuseTranscript == [Partial EXCEPT !.period = "exact"]
FetchTranscript == [intent |-> "fetch_if_missing", period |-> "exact", limits |-> "good"]

V2Requests ==
  {Exact, Latest, Fetching(Exact), Fetching(Latest), [Exact EXCEPT !.companion = Partial],
   [Exact EXCEPT !.companion = FetchTranscript], [Latest EXCEPT !.companion = ReuseTranscript],
   [Fetching(Exact) EXCEPT !.companion = FetchTranscript]}
V1Requests ==
  {[r EXCEPT !.version = "1.2", !.intent = "absent", !.allow_download = a, !.source_ref_v2 = s] :
     r \in {Exact, Latest}, a \in BOOLEAN, s \in BOOLEAN}
OpenRequests ==
  {[Exact EXCEPT !.version = "1.1", !.intent = "absent", !.mode = "absent", !.year = "absent",
                 !.allow_download = TRUE, !.source_ref_v2 = s] : s \in BOOLEAN}
OneFieldAway ==
  {[Exact EXCEPT !.version = v] : v \in {"1.1", "1.2", "other"}}
  \cup {[Exact EXCEPT !.text = "bad"], [Exact EXCEPT !.authorization = "good"]}
  \cup {[Exact EXCEPT !.mode = m] : m \in {"latest_as_of", "bad", "unhashable"}}
  \cup {[Exact EXCEPT !.year = y] : y \in {"absent", "bad"}}
  \cup {[Exact EXCEPT !.mode = "absent", !.year = "absent"]}
  \cup {[Exact EXCEPT !.intent = i] : i \in {"absent", "fetch_if_missing", "bad"}}
  \cup {[Exact EXCEPT !.limits = l] : l \in {"good", "bad"}}
  \cup {[Latest EXCEPT !.limits = l] : l \in {"absent", "null", "bad"}}
  \cup {[Exact EXCEPT !.companion = [FetchTranscript EXCEPT !.limits = "bad"]],
        [Exact EXCEPT !.companion = [FetchTranscript EXCEPT !.period = "bad"]],
        [Exact EXCEPT !.companion = [ReuseTranscript EXCEPT !.limits = "good"]]}
MCRequests == {Request(r) : r \in V2Requests \cup V1Requests \cup OpenRequests \cup OneFieldAway}
\* Each route once, with a complete configuration.
RouteRequests ==
  {r \in {Request(raw) : raw \in V2Requests \cup V1Requests} : r.companion \in {"none", "fetch"}}

Root == [readable |-> TRUE, contract |-> TRUE, form |-> "root", place |-> "absolute", commands |-> {}]
Connection(commands) == [Root EXCEPT !.form = "connection", !.place = "relative", !.commands = commands]
FullConfigurations == {Root}
MCConfigurations ==
  {Root, [Root EXCEPT !.place = "relative"], Connection({"catalog", "query"}),
   Connection({"catalog"}), Connection({"query"}), Connection({"catalog", "unknown"})}

Asked == [kind |-> "asked", year |-> "asked", company |-> "asked", published |-> "in_time"]
OtherDocuments == {[Asked EXCEPT !.kind = "other"], [Asked EXCEPT !.year = "other"],
                   [Asked EXCEPT !.company = "other"], [Asked EXCEPT !.published = "later"]}
Of(d) == [ref |-> d, echo |-> d, own |-> d, says_company |-> TRUE, fault |-> "none",
          receipt |-> TRUE, capture_ready |-> TRUE]
SoundOrNot == {Of(Asked), [Of(Asked) EXCEPT !.fault = "metadata"]}
MCCandidates ==
  {Of(Asked), [Of(Asked) EXCEPT !.receipt = FALSE], [Of(Asked) EXCEPT !.capture_ready = FALSE],
   [Of([Asked EXCEPT !.company = "other"]) EXCEPT !.says_company = FALSE]}
  \cup {[Of(Asked) EXCEPT !.fault = f] : f \in {"ref", "path", "metadata", "file"}}
  \cup {Of(d) : d \in OtherDocuments}
  \cup {[Of(d) EXCEPT !.own = Asked] : d \in OtherDocuments}
=============================================================================
