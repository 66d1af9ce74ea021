---------------------- MODULE TranscriptCompanion_proofs ----------------------
(***************************************************************************)
(* Theorems of TranscriptCompanion, for every set of uses and any number   *)
(* of requests that one run of ET makes.  The invariant has a part for     *)
(* what each place of a companion knows: which child it has (StepInv), how *)
(* many were counted (CountInv), what ET may have charged (ChargeInv), and *)
(* what the answer says of all that (AnswerInv).  At the end, the two      *)
(* clients of one process (Clients): the statements client keeps what      *)
(* StatementsFetch_proofs proves of it alone.                              *)
(***************************************************************************)
EXTENDS Clients, TLAPS

\* The child is that of the present call, and only some uses come to a place.
StepInv ==
  /\ child # Idle => child.op = IF pc = "acquire" THEN "et" ELSE pc
  /\ pc \in {"prepare", "done"} => child = Idle
  /\ pc \in {"lookup", "open"} => option.entry = "companion"
  /\ pc = "requery" => option.entry = "direct"
  /\ pc \in {"acquire", "import", "verify"} =>
       option.entry = "direct" \/ option.intent = "fetch_if_missing"
  /\ pc # "done" => result = NoResult

\* The calls counted before each place is reached.
Before(place) ==
  CASE place \in {"prepare", "lookup", "requery"} -> 0
    [] place \in {"open", "acquire", "import"} -> 1
    [] OTHER -> 2
CountInv ==
  /\ pc # "done" =>
       /\ started = calls
       /\ calls = Before(pc) + IF child # Idle /\ pc # "acquire" THEN 1 ELSE 0
  /\ pc = "done" => started <= calls /\ calls <= started + 1 /\ calls <= CompanionCalls
                    /\ (calls # started => late)

\* ET runs between a miss and an import, and what it was asked is what it says, or
\* unknown.
ChargeInv ==
  /\ pc \in {"prepare", "lookup", "open", "requery"} => runs = 0
  /\ pc = "acquire" => runs = IF child = Idle THEN 0 ELSE 1
  /\ pc \in {"prepare", "lookup", "open", "requery", "acquire"} => usage = Absent
  /\ pc \in {"import", "verify"} => usage \in {requests, Unknown}
  /\ runs = 0 => requests = 0
  /\ child.state = "answered" /\ pc = "acquire" =>
       child.payload.receipt \in {requests, Unknown}
  /\ runs > 0 \/ pc \in {"acquire", "import", "verify"} =>
       /\ answer.status = "not_found" /\ answer.excluded = << >>
       /\ option.entry = "direct" \/ option.intent = "fetch_if_missing"

AnswerInv == ReuseVerified /\ MeasuredUsageKept
             /\ (pc = "done" /\ option.entry = "companion" => result.status \in CompanionStatuses(option.intent))

IInv == TypeOK /\ StepInv /\ CountInv /\ ChargeInv /\ AnswerInv
-----------------------------------------------------------------------------
(* The data. *)

LEMMA OptionFields ==
  ASSUME TypeOK
  PROVE  /\ option.entry \in {"companion", "direct"} /\ option.intent \in {"reuse_only", "fetch_if_missing"}
         /\ option.provider \in {"any", "fmp", "unsupported"}
  BY CompanionAssumption DEF TypeOK, AnyOption

LEMMA AnswerFields ==
  ASSUME NEW w \in Answers
  PROVE  /\ w.status \in {"found", "not_found", "unknown_publication", "garbled"} \cup NonReuse
         /\ w = Garbled <=> w.status = "garbled"
<1>1. CASE w \in Refusals
  BY <1>1 DEF Refusals, Garbled, Wire, NonReuse
<1>2. CASE w \notin Refusals
  <2>1. PICK s, d, x : s \in {"found", "not_found", "unknown_publication"} /\ w = Wire(s, d, x)
    BY <1>2 DEF Answers
  <2> QED BY <2>1 DEF Wire, Garbled
<1> QED BY <1>1, <1>2

LEMMA WiresAreAnswers ==
  ASSUME TypeOK
  PROVE  Wires \cup Refusals \subseteq Answers
<1>1. \A s \in {"found", "not_found", "unknown_publication"}, d \in {"eligible", "unknown"},
         x \in Exclusions : Wire(s, d, x) \in Answers
  BY DEF Answers
<1>2. /\ << >> \in Exclusions /\ <<"unknown">> \in Exclusions /\ <<"after_as_of">> \in Exclusions
      /\ <<"unknown", "after_as_of">> \in Exclusions
  BY DEF Exclusions
<1>3. Wires \subseteq Answers
  <2>1. CASE ~Visible
    BY <1>1, <1>2, <2>1 DEF Wires
  <2>2. CASE Visible
    <3>1. catalog.date \in {"eligible", "after_as_of", "unknown"}
      BY DEF TypeOK, Documents, Missing, Dates
    <3> QED BY <1>1, <1>2, <2>2, <3>1 DEF Wires
  <2> QED BY <2>1, <2>2
<1> QED BY <1>3 DEF Answers

\* Only a clean miss, with nothing excluded, is a miss.
LEMMA MissOnly ==
  ASSUME NEW w \in Answers, Select(w) = "missing"
  PROVE  w.status = "not_found" /\ w.excluded = << >>
  BY AnswerFields DEF Select, NoCandidate

\* What is known of a child by its state.
LEMMA ChildStates ==
  ASSUME child \in Children
  PROVE  /\ child.state \in {"idle", "running", "answered"}
         /\ child = Idle <=> child.state = "idle"
         /\ child.state = "running" => child.op \in WikiSteps \cup {"et"} /\ child = Running(child.op)
         /\ child.state = "answered" =>
              /\ child.op \in {"lookup", "requery"} => child.payload \in Answers
              /\ child.op \in {"open", "verify"} => child.payload \in Documents \cup {NoManifest}
              /\ child.op = "et" => child.payload \in [outcome : ETOutcomes, receipt : Receipts]
  BY DEF Children, Idle, Running, Answered, WikiSteps

LEMMA RunningChild ==
  \A op : Running(op) # Idle /\ Running(op).state = "running" /\ Running(op).op = op
  BY DEF Running, Idle
LEMMA AnsweredChild ==
  \A op, p : Answered(op, p) # Idle /\ Answered(op, p).state = "answered"
             /\ Answered(op, p).op = op /\ Answered(op, p).payload = p
  BY DEF Answered, Idle

Vocabulary == CompanionStatuses("fetch_if_missing") \cup {"none", "raised"}
LEMMA ResultTyped ==
  \A s \in Vocabulary, n \in {Absent, 0, 1}, u \in Absent..MaxRequests :
    Result(s, TRUE, n, u) \in Results /\ Result(s, FALSE, n, u) \in Results
  BY DEF Result, Results, Vocabulary

LEMMA Amounts ==
  /\ Absent \in Absent..MaxRequests /\ Unknown \in Absent..MaxRequests /\ 0 \in Absent..MaxRequests
  /\ 0..MaxRequests \subseteq Absent..MaxRequests /\ ~(Absent >= 0) /\ ~(Unknown >= 0)
  BY CompanionAssumption DEF Absent, Unknown

\* Every answer a reuse may give, and those that only an acquisition adds.
LEMMA Statuses ==
  /\ \A i : {"reused", "unknown_publication", "not_found", "ambiguous", "upstream_error", "request_error"}
              \subseteq CompanionStatuses(i)
  /\ {"downloaded", "provider_unavailable"} \subseteq CompanionStatuses("fetch_if_missing")
  /\ \A i : CompanionStatuses(i) \subseteq Vocabulary
  /\ Vocabulary = {"reused", "unknown_publication", "not_found", "ambiguous", "upstream_error",
                   "request_error", "downloaded", "provider_unavailable", "none", "raised"}
  BY DEF CompanionStatuses, Vocabulary
-----------------------------------------------------------------------------
\* An answer that says nothing of attempts and usage.
LEMMA PlainAnswer ==
  \A s \in Vocabulary :
    /\ Plain(s) \in Results /\ Plain(s).status = s /\ Plain(s).usage = Absent
    /\ Plain(s).provider_calls = Absent
  BY Amounts, ResultTyped DEF Plain, Result
-----------------------------------------------------------------------------
LEMMA InitIInv == Init => IInv
<1> SUFFICES ASSUME Init PROVE IInv
  OBVIOUS
<1>1. NoResult \in Results /\ NoResult.status = "none" /\ NoResult.usage = Absent
      /\ NoResult.provider_calls = Absent
  BY PlainAnswer, Statuses DEF NoResult
<1>2. Garbled \in Answers
  BY DEF Answers, Refusals
<1>3. TypeOK
  <2>1. 0 \in 0..CompanionCalls /\ 0 \in 0..MaxRequests
    BY CompanionAssumption DEF CompanionCalls
  <2>2. child \in Children /\ pc \in Places
    BY DEF Init, Children, Places
  <2>3. request_id \in BOOLEAN /\ late \in BOOLEAN /\ option \in Options
    BY DEF Init
  <2>4. usage \in Absent..MaxRequests /\ calls \in 0..CompanionCalls /\ started \in 0..CompanionCalls
        /\ runs \in 0..1 /\ requests \in 0..MaxRequests
    BY <2>1, Amounts DEF Init
  <2>5. catalog \in Documents \cup {Missing} /\ manifest \in Documents \cup {Missing, NoManifest}
        /\ answer \in Answers /\ result \in Results
    BY <1>1, <1>2 DEF Init
  <2> QED BY <2>2, <2>3, <2>4, <2>5 DEF TypeOK
<1>4. StepInv /\ CountInv /\ ChargeInv
  BY DEF Init, StepInv, CountInv, Before, ChargeInv, Idle
<1>5. AnswerInv
  BY <1>1, Amounts DEF Init, AnswerInv, ReuseVerified, MeasuredUsageKept, Escaped, Exception
<1> QED BY <1>3, <1>4, <1>5 DEF IInv

\* The companion ends with an answer that is true of what was counted and charged.
LEMMA FinishStep ==
  ASSUME IInv, NEW r \in Results, Finish(r), child' = Idle,
         UNCHANGED <<option, late, catalog, runs, requests>>, request_id' \in BOOLEAN,
         usage' \in Absent..MaxRequests, calls' \in 0..CompanionCalls, started' \in 0..CompanionCalls,
         answer' \in Answers, manifest' \in Documents \cup {Missing, NoManifest},
         started' <= calls', calls' <= started' + 1, calls' # started' => late,
         runs > 0 => answer' = answer,
         r.usage >= 0 => r.usage = requests,
         runs > 0 /\ r # Exception =>
           (usage' >= 0 => r.usage = usage') /\ (r.retryable => r.usage >= 0),
         r.status = "reused" =>
           /\ manifest'.match /\ option.provider \in {"any", manifest'.provider}
           /\ IF manifest' = NoManifest THEN answer'.published = "eligible" ELSE manifest'.date = "eligible",
         option.entry = "companion" => r.status \in CompanionStatuses(option.intent)
  PROVE  IInv'
<1>1. pc' = "done" /\ result' = r
  BY DEF Finish
<1>2. TypeOK'
  BY <1>1 DEF IInv, TypeOK, Places, Children
<1>3. StepInv'
  BY <1>1 DEF IInv, StepInv
<1>4. CountInv'
  <2>1. calls' <= CompanionCalls
    BY DEF CompanionCalls
  <2>2. calls' # started' => late'
    OBVIOUS
  <2> QED BY <1>1, <2>1, <2>2 DEF CountInv
<1>6. ChargeInv'
  BY <1>1 DEF IInv, ChargeInv, Idle
<1>5. AnswerInv'
  BY <1>1 DEF AnswerInv, ReuseVerified, MeasuredUsageKept, Escaped, Exception
<1> QED BY <1>2, <1>3, <1>4, <1>5, <1>6 DEF IInv

LEMMA Equal ==
  \A n, k \in 0..CompanionCalls : n = k => n <= k /\ k <= n + 1
  BY DEF CompanionCalls

\* The same for an answer that is made without another call.
LEMMA AnswerStep ==
  ASSUME IInv, pc # "done", NEW r \in Results, Finish(r), child' = Idle,
         UNCHANGED <<option, late, request_id, calls, catalog, ghostVars>>,
         usage' \in Absent..MaxRequests,
         r.usage >= 0 => r.usage = requests,
         runs > 0 /\ r # Exception =>
           (usage' >= 0 => r.usage = usage') /\ (r.retryable => r.usage >= 0),
         r.status # "reused",
         option.entry = "companion" => r.status \in CompanionStatuses(option.intent)
  PROVE  IInv'
<1>1. request_id' \in BOOLEAN /\ answer' \in Answers /\ manifest' \in Documents \cup {Missing, NoManifest}
      /\ calls' \in 0..CompanionCalls /\ started' \in 0..CompanionCalls /\ calls' = started'
  BY DEF TypeOK, IInv, CountInv, ghostVars
<1>2. started' <= calls' /\ calls' <= started' + 1
  BY <1>1, Equal
<1> QED BY <1>1, <1>2, FinishStep DEF ghostVars

\* An exception: nothing is said of attempts or usage.
LEMMA ExceptionStep ==
  ASSUME IInv, pc # "done", Finish(Exception), child' = Idle,
         UNCHANGED <<option, late, transportVars, catalog, ghostVars>>
  PROVE  IInv'
<1>1. Exception \in Results /\ Exception.usage = Absent /\ Exception.provider_calls = Absent
      /\ Exception.status # "reused"
      /\ (option.entry = "companion" => Exception.status = "upstream_error")
  <2>1. Exception \in Results
    BY Amounts, ResultTyped, Statuses DEF Exception, Plain
  <2> QED BY <2>1 DEF Exception, Plain, Result
<1>2. usage \in Absent..MaxRequests
  BY DEF IInv, TypeOK
<1> QED BY <1>1, <1>2, Amounts, AnswerStep, Statuses DEF transportVars

LEMMA PrepareStep == ASSUME IInv, Prepare PROVE IInv'
<1>1. pc = "prepare" /\ child = Idle /\ child' = Idle
  BY DEF Prepare, IInv, StepInv
<1>2. CASE Finish(Plain("request_error"))
  <2>1. Plain("request_error") \in Results /\ Plain("request_error").status = "request_error"
        /\ ~(Plain("request_error").usage >= 0) /\ Plain("request_error").provider_calls = Absent
    BY PlainAnswer, Statuses, Amounts
  <2>2. usage' \in Absent..MaxRequests /\ UNCHANGED <<option, late, request_id, calls, catalog, ghostVars>>
    BY DEF Prepare, IInv, TypeOK, transportVars
  <2>3. runs = 0
    BY <1>1 DEF IInv, ChargeInv
  <2> QED BY <1>1, <1>2, <2>1, <2>2, <2>3, AnswerStep, Statuses
<1>3. CASE pc' = (IF option.entry = "companion" THEN "lookup" ELSE "requery") /\ UNCHANGED result
  <2>1. TypeOK'
    BY <1>1, <1>3 DEF TypeOK, Prepare, IInv, transportVars, ghostVars, Places, WikiSteps
  <2>2. option.entry \in {"companion", "direct"}
    BY OptionFields DEF IInv
  <2>3. StepInv' /\ CountInv'
    BY <1>1, <1>3, <2>2 DEF Prepare, IInv, StepInv, CountInv, Before, transportVars, ghostVars
  <2>4. ChargeInv'
    BY <1>1, <1>3, <2>2 DEF Prepare, IInv, ChargeInv, transportVars, ghostVars, Idle
  <2>5. AnswerInv'
    BY <1>1, <1>3, <2>2 DEF Prepare, IInv, AnswerInv, ReuseVerified, MeasuredUsageKept, Escaped, Exception, transportVars, ghostVars
  <2> QED BY <2>1, <2>3, <2>4, <2>5 DEF IInv
<1> QED BY <1>2, <1>3 DEF Prepare, GoTo

\* What a failed call becomes.
LEMMA FailureAnswer ==
  ASSUME IInv, pc \in WikiSteps
  PROVE  /\ Failure(pc) \in Results
         /\ Failure(pc).usage >= 0 => Failure(pc).usage = requests
         /\ Failure(pc) # Exception =>
              /\ Failure(pc).usage = usage \/ ~(usage >= 0)
              /\ ~Failure(pc).retryable
         /\ Failure(pc).status # "reused"
         /\ option.entry = "companion" => Failure(pc).status \in CompanionStatuses(option.intent)
<1>1. CASE pc \in {"import", "verify"}
  <2>1. usage \in {requests, Unknown} /\ usage \in Absent..MaxRequests
    BY <1>1 DEF IInv, ChargeInv, TypeOK
  <2>2. Failure(pc) = Result("upstream_error", FALSE, 1, usage)
    BY <1>1 DEF Failure, ImportFailed
  <2>3. Failure(pc) \in Results
    BY <2>1, <2>2, ResultTyped, Statuses
  <2> QED BY <2>1, <2>2, <2>3, Amounts, Statuses DEF Result
<1>2. CASE pc \notin {"import", "verify"}
  <2>1. Failure(pc) = Exception
    BY <1>2 DEF Failure
  <2>2. Exception \in Results
    BY Amounts, ResultTyped, Statuses DEF Exception, Plain
  <2>3. /\ Exception.usage = Absent /\ Exception.provider_calls = Absent
        /\ Exception.status # "reused"
        /\ (option.entry = "companion" => Exception.status = "upstream_error")
    BY DEF Exception, Plain, Result
  <2> QED BY <2>1, <2>2, <2>3, Amounts, Statuses
<1> QED BY <1>1, <1>2

LEMMA CallWikiStep == ASSUME IInv, NEW step \in WikiSteps, CallWiki(step) PROVE IInv'
<1>1. /\ pc = step /\ pc \notin {"prepare", "acquire", "done"} /\ child = Idle /\ calls' = calls + 1
      /\ UNCHANGED <<option, late, request_id, usage, catalog, runs, requests, answer, manifest>>
  BY DEF CallWiki, Counted, WikiSteps
<1>2. calls = started /\ calls \in 0..2
  BY <1>1 DEF IInv, CountInv, Before
<1>3. usage' \in Absent..MaxRequests /\ calls' \in 0..CompanionCalls
      /\ answer' \in Answers /\ manifest' \in Documents \cup {Missing, NoManifest} /\ request_id' \in BOOLEAN
  BY <1>1, <1>2 DEF IInv, TypeOK, CompanionCalls
<1>4. CASE late
  <2>1. Finish(Failure(pc)) /\ child' = Idle /\ started' = started
    BY <1>1, <1>4 DEF CallWiki
  <2>2. started' \in 0..CompanionCalls /\ started' <= calls' /\ calls' <= started' + 1
    BY <1>1, <1>2, <2>1 DEF CompanionCalls
  <2> QED BY <1>1, <1>3, <1>4, <2>1, <2>2, FailureAnswer, FinishStep
<1>5. CASE ~late
  <2>1. child' = Running(step) /\ started' = started + 1 /\ UNCHANGED <<pc, result>>
    BY <1>1, <1>5 DEF CallWiki
  <2>2. TypeOK'
    <3>1. child' \in Children
      BY <2>1 DEF Children
    <3>2. started' \in 0..CompanionCalls
      BY <1>2, <2>1 DEF CompanionCalls
    <3> QED BY <1>1, <1>3, <2>1, <3>1, <3>2 DEF IInv, TypeOK
  <2>3. StepInv'
    BY <1>1, <2>1, RunningChild DEF IInv, StepInv
  <2>4. CountInv'
    BY <1>1, <1>2, <2>1, RunningChild DEF IInv, CountInv, Before
  <2>5. ChargeInv'
    BY <1>1, <2>1, RunningChild DEF IInv, ChargeInv
  <2>6. AnswerInv'
    BY <1>1, <2>1 DEF IInv, AnswerInv, ReuseVerified, MeasuredUsageKept, Escaped, Exception
  <2> QED BY <2>2, <2>3, <2>4, <2>5, <2>6 DEF IInv
<1> QED BY <1>4, <1>5

LEMMA WikiFailsStep == ASSUME IInv, NEW step \in WikiSteps, WikiFails(step) PROVE IInv'
<1>1. pc = step /\ pc # "done" /\ child' = Idle
      /\ UNCHANGED <<option, late, transportVars, catalog, ghostVars>>
  BY DEF WikiFails, WikiSteps
<1>2. CASE Finish(Failure(step))
  <2>1. usage' \in Absent..MaxRequests /\ UNCHANGED <<request_id, calls, usage>>
    BY <1>1 DEF IInv, TypeOK, transportVars
  <2> QED BY <1>1, <1>2, <2>1, FailureAnswer, AnswerStep
<1>3. CASE Finish(Exception)
  BY <1>1, <1>3, ExceptionStep
<1> QED BY <1>2, <1>3 DEF WikiFails

\* A child that answers is still the child of its call.
LEMMA AnsweredStep ==
  ASSUME IInv, child.state = "running", child' \in Children, child' # Idle, child'.op = child.op,
         child'.state = "answered" /\ pc = "acquire" => child'.payload.receipt \in {requests, Unknown},
         catalog' \in Documents \cup {Missing},
         UNCHANGED <<option, pc, late, transportVars, result, ghostVars>>
  PROVE  IInv'
<1>1. child # Idle
  BY DEF Idle
<1>2. TypeOK'
  BY DEF IInv, TypeOK, transportVars, ghostVars
<1>3. StepInv' /\ CountInv'
  BY <1>1 DEF IInv, StepInv, CountInv, transportVars, ghostVars
<1>4. ChargeInv'
  BY <1>1 DEF IInv, ChargeInv, transportVars, ghostVars
<1>5. AnswerInv'
  BY DEF IInv, AnswerInv, ReuseVerified, MeasuredUsageKept, Escaped, Exception, transportVars, ghostVars
<1> QED BY <1>2, <1>3, <1>4, <1>5 DEF IInv

LEMMA WikiAnswersStep == ASSUME IInv, WikiAnswers PROVE IInv'
<1>1. child.state = "running" /\ UNCHANGED <<option, pc, late, transportVars, result, ghostVars>>
  BY DEF WikiAnswers
<1>2. child # Idle /\ (pc = "acquire" => child.op = "et")
  BY <1>1 DEF IInv, StepInv, Idle
<1>3. CASE child.op \in {"lookup", "requery"} /\ (\E wire \in Wires \cup Refusals : child' = Answered(child.op, wire))
           /\ UNCHANGED catalog
  <2>1. PICK wire \in Answers : child' = Answered(child.op, wire)
    BY <1>3, WiresAreAnswers DEF IInv
  <2>2. child' \in Children
    BY <1>3, <2>1 DEF Children
  <2>3. pc # "acquire"
    BY <1>2, <1>3
  <2> QED BY <1>1, <1>3, <2>1, <2>2, <2>3, AnsweredChild, AnsweredStep DEF IInv, TypeOK
<1>4. CASE child.op \in {"open", "verify"} /\ catalog # Missing
           /\ (\E m \in {catalog, NoManifest} : child' = Answered(child.op, m)) /\ UNCHANGED catalog
  <2>1. PICK m \in Documents \cup {NoManifest} : child' = Answered(child.op, m)
    BY <1>4 DEF IInv, TypeOK
  <2>2. child' \in Children
    BY <1>4, <2>1 DEF Children
  <2>3. pc # "acquire"
    BY <1>2, <1>4
  <2> QED BY <1>1, <1>4, <2>1, <2>2, <2>3, AnsweredChild, AnsweredStep DEF IInv, TypeOK
<1>5. CASE child.op = "import" /\ (\E a \in {"imported", "rejected"} : child' = Answered("import", a))
           /\ catalog' \in Documents \cup {Missing}
  <2>1. PICK a \in {"imported", "rejected"} : child' = Answered("import", a)
    BY <1>5
  <2>2. child' \in Children
    BY <2>1 DEF Children
  <2>3. pc # "acquire"
    BY <1>2, <1>5
  <2> QED BY <1>1, <1>5, <2>1, <2>2, <2>3, AnsweredChild, AnsweredStep
<1>6. catalog \in Documents \cup {Missing}
  BY DEF IInv, TypeOK
<1> QED BY <1>3, <1>4, <1>5, <1>6 DEF WikiAnswers

\* The companion goes on to its next call.
LEMMA MoveStep ==
  ASSUME IInv, child # Idle, child' = Idle, pc # "done",
         NEW place \in {"open", "acquire", "import", "verify"}, pc' = place,
         UNCHANGED <<result, option, late, calls, started, catalog, runs, requests, manifest>>,
         Before(place) = Before(pc) + IF pc = "acquire" THEN 0 ELSE 1,
         usage' \in Absent..MaxRequests, answer' \in Answers, request_id' \in BOOLEAN,
         place = "open" => option.entry = "companion",
         place # "open" =>
           /\ option.entry = "direct" \/ option.intent = "fetch_if_missing"
           /\ answer'.status = "not_found" /\ answer'.excluded = << >>,
         place \in {"open", "acquire"} => runs = 0 /\ usage' = Absent,
         place \in {"import", "verify"} => usage' \in {requests, Unknown}
  PROVE  IInv'
<1>1. result = NoResult /\ NoResult.status # "reused" /\ ~(NoResult.usage >= 0)
      /\ NoResult.provider_calls = Absent
  BY PlainAnswer, Statuses, Amounts DEF IInv, StepInv, NoResult
<1>2. TypeOK'
  <2>1. child' \in Children /\ pc' \in Places
    BY DEF Children, Places, WikiSteps
  <2> QED BY <2>1 DEF IInv, TypeOK
<1>3. StepInv'
  BY <1>1 DEF StepInv
<1>4. CountInv'
  <2>1. Before(pc) \in 0..2 /\ Before(place) \in 0..2
    BY DEF Before
  <2> QED BY <2>1 DEF IInv, CountInv
<1>5. ChargeInv'
  BY DEF IInv, ChargeInv, Idle
<1>6. AnswerInv'
  BY <1>1 DEF AnswerInv, ReuseVerified, MeasuredUsageKept, Escaped, Exception
<1> QED BY <1>2, <1>3, <1>4, <1>5, <1>6 DEF IInv

\* A delivered answer is that of the call that was made.
LEMMA DeliveredChild ==
  ASSUME IInv, NEW step \in WikiSteps \cup {"acquire"}, Delivered(step)
  PROVE  /\ pc = step /\ child # Idle /\ child' = Idle
         /\ step \in {"lookup", "requery"} => child.payload \in Answers
         /\ step \in {"open", "verify"} => child.payload \in Documents \cup {NoManifest}
         /\ step = "acquire" => child.payload \in [outcome : ETOutcomes, receipt : {requests, Unknown}]
<1>1. pc = step /\ child.state = "answered" /\ child' = Idle /\ child # Idle
  BY DEF Delivered, Idle
<1>2. child.op = IF pc = "acquire" THEN "et" ELSE pc
  BY <1>1 DEF IInv, StepInv
<1>3. child \in Children
  BY DEF IInv, TypeOK
<1>4. step = "acquire" => child.payload \in [outcome : ETOutcomes, receipt : {requests, Unknown}]
  <2> SUFFICES ASSUME step = "acquire" PROVE child.payload \in [outcome : ETOutcomes, receipt : {requests, Unknown}]
    OBVIOUS
  <2>1. child.payload \in [outcome : ETOutcomes, receipt : Receipts]
    BY <1>1, <1>2, <1>3, ChildStates
  <2>2. child.payload.receipt \in {requests, Unknown}
    BY <1>1 DEF IInv, ChargeInv
  <2> QED BY <2>1, <2>2
<1> QED BY <1>1, <1>2, <1>3, <1>4, ChildStates DEF WikiSteps

LEMMA ReadLookupStep == ASSUME IInv, ReadLookup PROVE IInv'
<1>1. /\ pc = "lookup" /\ child # Idle /\ child' = Idle /\ child.payload \in Answers
      /\ answer' = child.payload /\ request_id' \in BOOLEAN
      /\ UNCHANGED <<option, late, usage, calls, catalog, started, runs, requests, manifest>>
  BY DeliveredChild DEF ReadLookup, WikiSteps
<1>2. /\ option.entry = "companion" /\ runs = 0 /\ usage = Absent /\ calls = 1 /\ started = 1
      /\ Before("open") = Before("lookup") + 1 /\ Before("acquire") = Before("lookup") + 1
  BY <1>1 DEF IInv, StepInv, ChargeInv, CountInv, Before
<1>3. usage' \in Absent..MaxRequests /\ option.intent \in {"reuse_only", "fetch_if_missing"}
  BY <1>1, OptionFields DEF IInv, TypeOK
<1>4. CASE GoTo("open")
  BY <1>1, <1>2, <1>3, <1>4, MoveStep DEF GoTo
<1>5. CASE GoTo("acquire") /\ option.intent = "fetch_if_missing" /\ Select(child.payload) = "missing"
  BY <1>1, <1>2, <1>3, <1>5, MissOnly, MoveStep DEF GoTo
<1>6. CASE \E s \in {"not_found", "unknown_publication", "ambiguous", "upstream_error"} : Finish(Plain(s))
  <2>1. PICK s \in {"not_found", "unknown_publication", "ambiguous", "upstream_error"} : Finish(Plain(s))
    BY <1>6
  <2>2. /\ Plain(s) \in Results /\ Plain(s).status = s /\ ~(Plain(s).usage >= 0)
        /\ Plain(s).provider_calls = Absent
    BY PlainAnswer, Statuses, Amounts
  <2>3. UNCHANGED runs /\ calls' \in 0..CompanionCalls /\ started' \in 0..CompanionCalls
        /\ started' <= calls' /\ calls' <= started' + 1 /\ calls' = started'
        /\ manifest' \in Documents \cup {Missing, NoManifest}
    BY <1>1, <1>2 DEF CompanionCalls, IInv, TypeOK
  <2>4. UNCHANGED <<option, late, catalog, runs, requests>> /\ answer' \in Answers
    BY <1>1
  <2> QED BY <1>1, <1>2, <1>3, <2>1, <2>2, <2>3, <2>4, FinishStep, Statuses
<1> QED BY <1>4, <1>5, <1>6, <1>3 DEF ReadLookup, AfterMiss

LEMMA ReadOpenStep == ASSUME IInv, ReadOpen PROVE IInv'
<1>1. /\ pc = "open" /\ child # Idle /\ child' = Idle /\ child.payload \in Documents \cup {NoManifest}
      /\ manifest' = child.payload
      /\ UNCHANGED <<option, late, transportVars, catalog, started, runs, requests, answer>>
  BY DeliveredChild DEF ReadOpen, WikiSteps
<1>2. PICK s \in {"reused", "unknown_publication", "upstream_error"} :
        /\ Finish(Plain(s))
        /\ s = "reused" =>
             /\ child.payload.match /\ option.provider \in {"any", child.payload.provider}
             /\ Published(child.payload) = "eligible"
  BY DEF ReadOpen, Verdict
<1>3. s = "reused" =>
        /\ manifest'.match /\ option.provider \in {"any", manifest'.provider}
        /\ IF manifest' = NoManifest THEN answer'.published = "eligible" ELSE manifest'.date = "eligible"
  BY <1>1, <1>2 DEF Published
<1>4. /\ Plain(s) \in Results /\ Plain(s).status = s /\ ~(Plain(s).usage >= 0)
      /\ Plain(s).provider_calls = Absent
  BY PlainAnswer, Statuses, Amounts
<1>5. /\ request_id' \in BOOLEAN /\ usage' \in Absent..MaxRequests /\ calls' \in 0..CompanionCalls
      /\ started' \in 0..CompanionCalls /\ answer' \in Answers /\ calls' = started'
      /\ manifest' \in Documents \cup {Missing, NoManifest}
  BY <1>1 DEF IInv, TypeOK, CountInv, transportVars
<1>6. UNCHANGED <<option, late, catalog, runs, requests, answer>> /\ runs = 0
  BY <1>1 DEF IInv, ChargeInv
<1> QED BY <1>1, <1>2, <1>3, <1>4, <1>5, <1>6, Equal, FinishStep, Statuses

\* The answers of an acquisition that ET does not make itself.
LEMMA UpstreamAnswer ==
  /\ Result("upstream_error", FALSE, 0, Absent) \in Results
  /\ Result("upstream_error", FALSE, 0, Absent).status = "upstream_error"
  /\ Result("upstream_error", FALSE, 0, Absent).usage = Absent
<1>1. Result("upstream_error", FALSE, 0, Absent) \in Results
  BY ResultTyped, Statuses, Amounts
<1> QED BY <1>1 DEF Result
LEMMA UnavailableAnswers ==
  /\ Result("provider_unavailable", TRUE, 0, Absent) \in Results
  /\ Result("provider_unavailable", TRUE, 0, Absent).status = "provider_unavailable"
  /\ Result("provider_unavailable", TRUE, 0, Absent).usage = Absent
  /\ \A u \in {Absent, 0} :
       /\ Result("provider_unavailable", FALSE, 0, u) \in Results
       /\ Result("provider_unavailable", FALSE, 0, u).status = "provider_unavailable"
       /\ Result("provider_unavailable", FALSE, 0, u).usage = u
       /\ ~Result("provider_unavailable", FALSE, 0, u).retryable
<1>1. /\ Result("provider_unavailable", TRUE, 0, Absent) \in Results
      /\ \A u \in {Absent, 0} : Result("provider_unavailable", FALSE, 0, u) \in Results
  BY ResultTyped, Statuses, Amounts
<1> QED BY <1>1 DEF Result

LEMMA ReadRequeryStep == ASSUME IInv, ReadRequery PROVE IInv'
<1>1. /\ pc = "requery" /\ child # Idle /\ child' = Idle /\ child.payload \in Answers
      /\ answer' = child.payload /\ request_id' \in BOOLEAN
      /\ UNCHANGED <<option, late, usage, calls, catalog, started, runs, requests, manifest>>
  BY DeliveredChild DEF ReadRequery, WikiSteps
<1>2. /\ option.entry = "direct" /\ runs = 0 /\ usage = Absent /\ Before("acquire") = Before("requery") + 1
  BY <1>1 DEF IInv, StepInv, ChargeInv, Before
<1>3. usage' \in Absent..MaxRequests /\ calls' \in 0..CompanionCalls /\ started' \in 0..CompanionCalls
      /\ calls' = started' /\ manifest' \in Documents \cup {Missing, NoManifest} /\ answer' \in Answers
  BY <1>1 DEF IInv, TypeOK, CountInv
<1>4. CASE Select(child.payload) = "missing" /\ GoTo("acquire")
  BY <1>1, <1>2, <1>3, <1>4, MissOnly, MoveStep DEF GoTo
<1>5. CASE Finish(Result("upstream_error", FALSE, 0, Absent))
  <2>1. PICK r \in Results : Finish(r) /\ r.status = "upstream_error" /\ r.usage = Absent
    BY <1>5, UpstreamAnswer
  <2>2. UNCHANGED <<option, late, catalog, runs, requests>> /\ ~(runs > 0)
    BY <1>1, <1>2
  <2> QED BY <1>1, <1>2, <1>3, <2>1, <2>2, Equal, Amounts, FinishStep
<1> QED BY <1>4, <1>5 DEF ReadRequery

LEMMA RefuseAcquisitionStep == ASSUME IInv, RefuseAcquisition PROVE IInv'
<1>1. /\ pc = "acquire" /\ child = Idle /\ child' = Idle
      /\ UNCHANGED <<option, late, transportVars, catalog, ghostVars>>
  BY DEF RefuseAcquisition
<1>2. /\ runs = 0 /\ requests = 0 /\ ~(runs > 0)
      /\ option.entry = "companion" => option.intent = "fetch_if_missing"
  BY <1>1, OptionFields DEF IInv, StepInv, ChargeInv
<1>3. usage' \in Absent..MaxRequests /\ UNCHANGED <<request_id, calls>>
  BY <1>1 DEF IInv, TypeOK, transportVars
<1>4. PICK r \in Results : /\ Finish(r) /\ r.status \in {"upstream_error", "provider_unavailable"}
                           /\ r.usage >= 0 => r.usage = 0
  <2>1. CASE Finish(Result("upstream_error", FALSE, 0, Absent))
    BY <2>1, UpstreamAnswer, Amounts
  <2>2. CASE Finish(Result("provider_unavailable", FALSE, 0, 0))
    BY <2>2, UnavailableAnswers
  <2>3. CASE Finish(Result("provider_unavailable", FALSE, 0, Absent))
    BY <2>3, UnavailableAnswers, Amounts
  <2>4. CASE Finish(Result("provider_unavailable", TRUE, 0, Absent))
    BY <2>4, UnavailableAnswers, Amounts
  <2> QED BY <2>1, <2>2, <2>3, <2>4 DEF RefuseAcquisition, LocalUnavailable
<1> QED BY <1>1, <1>2, <1>3, <1>4, AnswerStep, Statuses

LEMMA StartETStep == ASSUME IInv, StartET PROVE IInv'
<1>1. /\ pc = "acquire" /\ child = Idle /\ child' = Running("et") /\ runs' = runs + 1
      /\ UNCHANGED <<option, pc, late, transportVars, result, catalog, started, requests, answer, manifest>>
  BY DEF StartET
<1>2. runs = 0 /\ requests = 0
  BY <1>1 DEF IInv, ChargeInv
<1>3. TypeOK'
  <2>1. child' \in Children /\ runs' \in 0..1
    BY <1>1, <1>2 DEF Children
  <2> QED BY <1>1, <2>1 DEF IInv, TypeOK, transportVars
<1>4. StepInv' /\ CountInv'
  BY <1>1, RunningChild DEF IInv, StepInv, CountInv, transportVars
<1>5. ChargeInv'
  BY <1>1, <1>2, RunningChild DEF IInv, ChargeInv, transportVars
<1>6. AnswerInv'
  <2>1. result = NoResult /\ NoResult.provider_calls = Absent
    BY <1>1, PlainAnswer, Statuses DEF IInv, StepInv, NoResult
  <2> QED BY <1>1, <2>1 DEF IInv, AnswerInv, ReuseVerified, MeasuredUsageKept, Escaped, Exception, transportVars
<1> QED BY <1>3, <1>4, <1>5, <1>6 DEF IInv

LEMMA ETRequestsStep == ASSUME IInv, ETRequests PROVE IInv'
<1>1. /\ child = Running("et") /\ child' = child /\ requests < MaxRequests /\ requests' = requests + 1
      /\ UNCHANGED <<option, pc, child, late, transportVars, result, catalog, started, runs, answer, manifest>>
  BY DEF ETRequests
<1>2. child # Idle /\ pc = "acquire" /\ runs = 1 /\ child.state = "running"
  BY <1>1, RunningChild DEF IInv, StepInv, ChargeInv, TypeOK, Places, WikiSteps
<1>3. requests' \in 0..MaxRequests
  BY <1>1, CompanionAssumption DEF IInv, TypeOK
<1>4. TypeOK' /\ StepInv' /\ CountInv'
  BY <1>1, <1>3 DEF IInv, TypeOK, StepInv, CountInv, transportVars
<1>5. ChargeInv'
  BY <1>1, <1>2 DEF IInv, ChargeInv, transportVars
<1>6. AnswerInv'
  <2>1. result = NoResult /\ ~(NoResult.usage >= 0) /\ NoResult.provider_calls = Absent
    BY <1>2, PlainAnswer, Statuses, Amounts DEF IInv, StepInv, NoResult
  <2> QED BY <1>1, <2>1 DEF IInv, AnswerInv, ReuseVerified, MeasuredUsageKept, Escaped, Exception, transportVars
<1> QED BY <1>4, <1>5, <1>6 DEF IInv

LEMMA ETAnswersStep == ASSUME IInv, ETAnswers PROVE IInv'
<1>1. child = Running("et") /\ UNCHANGED <<option, pc, late, transportVars, result, catalog, ghostVars>>
  BY DEF ETAnswers
<1>2. PICK o \in ETOutcomes, r \in {requests, Unknown} :
        child' = Answered("et", [outcome |-> o, receipt |-> r])
  BY DEF ETAnswers
<1>3. r \in Receipts
  BY DEF IInv, TypeOK, Receipts
<1>4. child' \in Children /\ child'.payload.receipt = r
  BY <1>2, <1>3, AnsweredChild DEF Children
<1>5. child.state = "running" /\ child.op = "et"
  BY <1>1, RunningChild
<1> QED BY <1>1, <1>2, <1>4, <1>5, AnsweredChild, AnsweredStep DEF IInv, TypeOK

LEMMA ETFailsStep == ASSUME IInv, ETFails PROVE IInv'
<1>1. /\ pc = "acquire" /\ pc # "done" /\ child' = Idle
      /\ UNCHANGED <<option, late, transportVars, catalog, ghostVars>>
  BY DEF ETFails
<1>2. option.entry = "companion" => option.intent = "fetch_if_missing"
  BY <1>1, OptionFields DEF IInv, StepInv
<1>3. usage' \in Absent..MaxRequests /\ UNCHANGED <<request_id, calls, usage>>
  BY <1>1 DEF IInv, TypeOK, transportVars
<1>4. CASE Finish(TransportFailure(Unknown)) \/ Finish(Result("provider_unavailable", FALSE, 0, Absent))
  <2>1. PICK r \in Results : /\ Finish(r) /\ r.status = "provider_unavailable"
                             /\ ~(r.usage >= 0) /\ ~r.retryable /\ ~(usage >= 0)
    <3>1. TransportFailure(Unknown) \in Results
      BY ResultTyped, Statuses, Amounts DEF TransportFailure
    <3>2. /\ TransportFailure(Unknown).status = "provider_unavailable"
          /\ TransportFailure(Unknown).usage = Unknown /\ ~TransportFailure(Unknown).retryable
      BY DEF TransportFailure, Result
    <3>3. ~(usage >= 0)
      BY <1>1, Amounts DEF IInv, ChargeInv
    <3> QED BY <1>4, <3>1, <3>2, <3>3, UnavailableAnswers, Amounts
  <2> QED BY <1>1, <1>2, <1>3, <2>1, AnswerStep, Statuses
<1>5. CASE Finish(Exception)
  BY <1>1, <1>5, ExceptionStep
<1> QED BY <1>4, <1>5 DEF ETFails

LEMMA ReadETStep == ASSUME IInv, ReadET PROVE IInv'
<1> DEFINE o == child.payload.outcome
           u == child.payload.receipt
<1>1. /\ pc = "acquire" /\ child # Idle /\ child' = Idle /\ usage' = u
      /\ UNCHANGED <<option, late, request_id, calls, catalog, ghostVars>>
  BY DeliveredChild DEF ReadET
<1>2. o \in ETOutcomes /\ u \in {requests, Unknown}
  BY DeliveredChild DEF ReadET
<1>3. u \in Receipts /\ usage' \in Absent..MaxRequests /\ (u # Unknown => u >= 0) /\ (u >= 0 => u = requests)
  BY <1>1, <1>2, Amounts DEF Receipts, IInv, TypeOK
<1>4. /\ option.entry = "companion" => option.intent = "fetch_if_missing"
      /\ option.entry = "direct" \/ option.intent = "fetch_if_missing"
      /\ answer.status = "not_found" /\ answer.excluded = << >>
      /\ Before("import") = Before("acquire")
  BY <1>1, OptionFields DEF IInv, StepInv, ChargeInv, Before
<1>5. CASE o = "fetched" /\ GoTo("import")
  <2>1. /\ answer' \in Answers /\ request_id' \in BOOLEAN /\ answer' = answer
        /\ UNCHANGED <<started, runs, requests, manifest, calls, result>> /\ Before("acquire") \in 0..2
    BY <1>1, <1>5 DEF IInv, TypeOK, ghostVars, GoTo, Before
  <2> QED BY <1>1, <1>2, <1>3, <1>4, <1>5, <2>1, MoveStep DEF GoTo
<1>6. CASE \E s \in {"not_found", "provider_unavailable", "upstream_error"}, n \in {0, 1} :
             Finish(Result(s, FALSE, n, u)) \/ (u # Unknown /\ Finish(Result(s, TRUE, n, u)))
  <2>1. PICK r \in Results :
          /\ Finish(r) /\ r.status \in {"not_found", "provider_unavailable", "upstream_error"}
          /\ r.usage = u /\ (r.retryable => u >= 0)
    <3>1. PICK s \in {"not_found", "provider_unavailable", "upstream_error"}, n \in {0, 1} :
            Finish(Result(s, FALSE, n, u)) \/ (u # Unknown /\ Finish(Result(s, TRUE, n, u)))
      BY <1>6
    <3> HIDE DEF u
    <3>2. CASE Finish(Result(s, FALSE, n, u))
      <4> DEFINE r == Result(s, FALSE, n, u)
      <4>1. r.status = s /\ r.usage = u /\ ~r.retryable
        BY DEF Result
      <4>3. r \in Results
        BY <1>1, <1>3, <3>1, ResultTyped, Statuses
      <4>2. Finish(r)
        BY <1>3, <3>2
      <4> HIDE DEF r
      <4> QED BY <3>1, <4>1, <4>2, <4>3
    <3>3. CASE u # Unknown /\ Finish(Result(s, TRUE, n, u))
      <4> DEFINE r == Result(s, TRUE, n, u)
      <4>1. r.status = s /\ r.usage = u
        BY DEF Result
      <4>3. r \in Results
        BY <1>1, <1>3, <3>1, ResultTyped, Statuses
      <4>2. Finish(r) /\ u >= 0
        BY <1>3, <3>3
      <4> HIDE DEF r
      <4> QED BY <3>1, <4>1, <4>2, <4>3
    <3> QED BY <3>1, <3>2, <3>3
  <2> QED BY <1>1, <1>3, <1>4, <2>1, AnswerStep, Statuses
<1>7. \/ o = "fetched" /\ GoTo("import")
      \/ \E s \in {"not_found", "provider_unavailable", "upstream_error"}, n \in {0, 1} :
           Finish(Result(s, FALSE, n, u)) \/ (u # Unknown /\ Finish(Result(s, TRUE, n, u)))
  <2>1. CASE o = "not_found" /\ Finish(Result("not_found", FALSE, 1, u))
    BY <2>1
  <2>2. ASSUME NEW again \in BOOLEAN, again => u # Unknown, NEW n \in {0, 1},
               Finish(Result("provider_unavailable", again, n, u))
        PROVE  \E s \in {"not_found", "provider_unavailable", "upstream_error"}, k \in {0, 1} :
                 Finish(Result(s, FALSE, k, u)) \/ (u # Unknown /\ Finish(Result(s, TRUE, k, u)))
    <3>1. CASE again = TRUE
      BY <2>2, <3>1
    <3>2. CASE again = FALSE
      BY <2>2, <3>2
    <3> QED BY <3>1, <3>2
  <2>3. CASE o = "local" /\ \E again \in {FALSE, RetryableET("again", u)} :
                              Finish(Result("provider_unavailable", again, 0, u))
    BY <2>2, <2>3 DEF RetryableET
  <2>4. CASE o \in {"again", "failed", "unreadable"}
             /\ Finish(Result("provider_unavailable", RetryableET(o, u), 1, u))
    BY <2>2, <2>4 DEF RetryableET
  <2>5. CASE o = "other_request" /\ Finish(Result("upstream_error", FALSE, 1, u))
    BY <2>5
  <2> QED BY <2>1, <2>3, <2>4, <2>5 DEF ReadET
<1> QED BY <1>5, <1>6, <1>7

\* The answer of an import or of its open, with the usage that ET had.
LEMMA ImportAnswers ==
  ASSUME IInv, pc \in {"import", "verify"}
  PROVE  /\ ImportFailed \in Results /\ ImportFailed.status = "upstream_error"
         /\ ImportFailed.usage >= 0 => ImportFailed.usage = requests
         /\ ImportFailed.usage = usage /\ ~ImportFailed.retryable
         /\ Result("downloaded", FALSE, 1, usage) \in Results
         /\ Result("downloaded", FALSE, 1, usage).status = "downloaded"
         /\ Result("downloaded", FALSE, 1, usage).usage >= 0 =>
              Result("downloaded", FALSE, 1, usage).usage = requests
         /\ Result("downloaded", FALSE, 1, usage).usage = usage
         /\ ~Result("downloaded", FALSE, 1, usage).retryable
<1>1. usage \in {requests, Unknown} /\ usage \in Absent..MaxRequests
  BY DEF IInv, ChargeInv, TypeOK
<1>2. ImportFailed \in Results /\ Result("downloaded", FALSE, 1, usage) \in Results
  BY <1>1, ResultTyped, Statuses DEF ImportFailed
<1> QED BY <1>1, <1>2, Amounts DEF ImportFailed, Result

LEMMA ReadImportStep == ASSUME IInv, ReadImport PROVE IInv'
<1>1. /\ pc = "import" /\ child # Idle /\ child' = Idle
      /\ UNCHANGED <<option, late, transportVars, catalog, ghostVars>>
  BY DeliveredChild DEF ReadImport, WikiSteps
<1>2. usage' \in Absent..MaxRequests /\ usage' = usage /\ UNCHANGED <<request_id, calls>>
  BY <1>1 DEF IInv, TypeOK, transportVars
<1>3. CASE GoTo("verify")
  <2>1. /\ answer' \in Answers /\ request_id' \in BOOLEAN /\ answer' = answer
        /\ UNCHANGED <<started, runs, requests, manifest, calls, result>>
        /\ Before("verify") = Before("import") + 1
    BY <1>1, <1>2, <1>3 DEF IInv, TypeOK, ghostVars, GoTo, Before
  <2>2. /\ option.entry = "direct" \/ option.intent = "fetch_if_missing"
        /\ answer.status = "not_found" /\ answer.excluded = << >> /\ usage \in {requests, Unknown}
    BY <1>1 DEF IInv, ChargeInv
  <2> QED BY <1>1, <1>2, <1>3, <2>1, <2>2, MoveStep DEF GoTo
<1>4. CASE Finish(ImportFailed)
  <2>1. option.entry = "companion" => option.intent = "fetch_if_missing"
    BY <1>1, OptionFields DEF IInv, StepInv
  <2> QED BY <1>1, <1>2, <1>4, <2>1, ImportAnswers, AnswerStep, Statuses
<1> QED BY <1>3, <1>4 DEF ReadImport

LEMMA ReadVerifyStep == ASSUME IInv, ReadVerify PROVE IInv'
<1>1. /\ pc = "verify" /\ child # Idle /\ child' = Idle /\ manifest' \in Documents \cup {Missing, NoManifest}
      /\ UNCHANGED <<option, late, transportVars, catalog, started, runs, requests, answer>>
  BY DeliveredChild DEF ReadVerify, WikiSteps
<1>2. /\ request_id' \in BOOLEAN /\ usage' \in Absent..MaxRequests /\ calls' \in 0..CompanionCalls
      /\ started' \in 0..CompanionCalls /\ answer' \in Answers /\ calls' = started' /\ usage' = usage
  BY <1>1 DEF IInv, TypeOK, CountInv, transportVars
<1>3. option.entry = "companion" => option.intent = "fetch_if_missing"
  BY <1>1, OptionFields DEF IInv, StepInv
<1>4. UNCHANGED <<option, late, catalog, runs, requests, answer>>
  BY <1>1
<1>5. PICK r \in Results : /\ Finish(r) /\ r.status = "downloaded" /\ ~r.retryable /\ r.usage = usage
                           /\ r.usage >= 0 => r.usage = requests
  BY <1>1, ImportAnswers DEF ReadVerify
<1> QED BY <1>1, <1>2, <1>3, <1>4, <1>5, Equal, FinishStep, Statuses

\* Time, and the other processes.
LEMMA WorldStep ==
  ASSUME IInv, late => late', late' \in BOOLEAN, catalog' \in Documents \cup {Missing},
         UNCHANGED <<option, pc, child, transportVars, result, ghostVars>>
  PROVE  IInv'
<1>1. TypeOK'
  BY DEF IInv, TypeOK, transportVars, ghostVars
<1>2. StepInv' /\ ChargeInv'
  BY DEF IInv, StepInv, ChargeInv, transportVars, ghostVars
<1>4. AnswerInv'
  BY DEF IInv, AnswerInv, ReuseVerified, MeasuredUsageKept, Escaped, Exception, transportVars,
     ghostVars
<1>3. CountInv'
  BY DEF IInv, CountInv, transportVars, ghostVars
<1> QED BY <1>1, <1>2, <1>3, <1>4 DEF IInv

LEMMA NextStep == IInv /\ [Next]_vars => IInv'
<1> SUFFICES ASSUME IInv, [Next]_vars PROVE IInv'
  OBVIOUS
<1>1. CASE Lookup
  BY <1>1, PrepareStep, ReadLookupStep, ReadOpenStep, ReadRequeryStep DEF Lookup
<1>2. CASE Acquisition
  BY <1>2, RefuseAcquisitionStep, StartETStep, ETFailsStep, ReadETStep, ReadImportStep, ReadVerifyStep
     DEF Acquisition
<1>3. CASE Wiki
  BY <1>3, WikiAnswersStep, CallWikiStep, WikiFailsStep DEF Wiki
<1>4. CASE ETRequests \/ ETAnswers
  BY <1>4, ETRequestsStep, ETAnswersStep
<1>5. CASE Expire
  BY <1>5, WorldStep DEF Expire, IInv, TypeOK
<1>6. CASE OthersImport
  BY <1>6, WorldStep DEF OthersImport, IInv, TypeOK
<1>7. CASE OthersAnnotate
  <2>1. catalog' \in Documents \cup {Missing}
    BY <1>7 DEF OthersAnnotate, IInv, TypeOK, Documents, Missing
  <2> QED BY <1>7, <2>1, WorldStep DEF OthersAnnotate, IInv, TypeOK
<1>8. CASE UNCHANGED vars
  BY <1>8, WorldStep DEF vars, IInv, TypeOK
<1> QED BY <1>1, <1>2, <1>3, <1>4, <1>5, <1>6, <1>7, <1>8 DEF Next, Done

LEMMA Invariance == Spec => []IInv
<1> QED BY InitIInv, NextStep, PTL DEF Spec

\* Every variable of a companion keeps its type: three calls and one run of ET bound
\* it, however its children end.
THEOREM TypeCorrect == Spec => []TypeOK
<1>1. IInv => TypeOK
  BY DEF IInv
<1> QED BY <1>1, Invariance, PTL

\* The tool that charges the account runs at most once, for a caller who asked for it,
\* and only after a clean miss.
THEOREM AcquiredAfterMissAlways == Spec => []AcquiredAfterMiss
<1>1. IInv => AcquiredAfterMiss
  BY DEF IInv, TypeOK, ChargeInv, AcquiredAfterMiss
<1> QED BY <1>1, Invariance, PTL

\* A reused transcript is vouched for by the manifest of the bytes that were opened.
THEOREM ReuseVerifiedAlways == Spec => []ReuseVerified
<1>1. IInv => ReuseVerified
  BY DEF IInv, AnswerInv
<1> QED BY <1>1, Invariance, PTL

\* Reported usage is what the provider was asked, a measured receipt is in the answer, and
\* a retry after a run of the tool is offered only with a known usage, unless an exception
\* escapes acquire_exact.
THEOREM MeasuredUsageKeptAlways == Spec => []MeasuredUsageKept
<1>1. IInv => MeasuredUsageKept
  BY DEF IInv, AnswerInv
<1> QED BY <1>1, Invariance, PTL

\* The statuses and counts are those that FilingFetch relies on.
THEOREM AnswersAsPromisedAlways == Spec => []AnswersAsPromised
<1>1. IInv => AnswersAsPromised
  BY DEF IInv, CountInv, AnswerInv, AnswersAsPromised
<1> QED BY <1>1, Invariance, PTL

-----------------------------------------------------------------------------
(* The two clients *)

Alone == INSTANCE StatementsFetch_proofs WITH pc <- s_pc, child <- s_child, response <- s_response

\* The statements client of Clients is the one of its own theorems: its start ...
LEMMA SameStart == Statements!Init => Alone!Init
  BY DEF Statements!Init, Alone!Init, Statements!NoChild, Alone!NoChild,
         Statements!NoResponse, Alone!NoResponse

\* ... its steps ...
LEMMA SameSteps == Statements!Next => Alone!Next
  BY DEF Statements!Next, Alone!Next, Statements!ReadInput, Alone!ReadInput,
         Statements!Refuse, Alone!Refuse, Statements!Invoke, Alone!Invoke,
         Statements!ChildFetches, Alone!ChildFetches, Statements!ChildAnswers, Alone!ChildAnswers,
         Statements!CallFails, Alone!CallFails, Statements!Read, Alone!Read,
         Statements!Done, Alone!Done, Statements!vars, Alone!vars,
         Statements!Respond, Alone!Respond, Statements!Typed, Alone!Typed,
         Statements!Escaped, Alone!Escaped, Statements!NoResponse, Alone!NoResponse,
         Statements!NoChild, Alone!NoChild, Statements!Running, Alone!Running,
         Statements!Answered, Alone!Answered, Statements!Payloads, Alone!Payloads,
         Statements!Business, Alone!Business, Statements!Refusals, Alone!Refusals,
         Statements!Accepted, Alone!Accepted, Statements!ExitOf, Alone!ExitOf,
         Statements!ReadableKnown, Alone!ReadableKnown,
         Statements!ReadableRefusal, Alone!ReadableRefusal,
         Statements!Sendable, Alone!Sendable, Statements!Configured, Alone!Configured,
         Statements!RequestAccepted, Alone!RequestAccepted, Statements!Intent, Alone!Intent,
         Statements!ConfigAccepted, Alone!ConfigAccepted,
         Statements!ConfiguredCommands, Alone!ConfiguredCommands,
         Statements!PlaceAccepted, Alone!PlaceAccepted,
         Statements!WikiOperations, Alone!WikiOperations

\* ... and what is promised of it.
LEMMA SamePromises ==
  Alone!IInv => StatementsAnswerTrue /\ StatementsWorkBounded
  BY DEF Alone!IInv, StatementsAnswerTrue, StatementsWorkBounded,
         Statements!StatementsAnswerTrue, Alone!StatementsAnswerTrue,
         Statements!StatementsWorkBounded, Alone!StatementsWorkBounded,
         Statements!NoResponse, Alone!NoResponse, Statements!NoChild, Alone!NoChild,
         Statements!Business, Alone!Business, Statements!Refusals, Alone!Refusals,
         Statements!Answered, Alone!Answered

LEMMA ClientsStart == ClientsInit => Alone!IInv
  BY SameStart, Alone!InitIInv DEF ClientsInit

LEMMA ClientsStep == Alone!IInv /\ [ClientsNext]_clientsVars => Alone!IInv'
<1> SUFFICES ASSUME Alone!IInv, [ClientsNext]_clientsVars
             PROVE  Alone!IInv'
  OBVIOUS
<1>1. CASE Statements!Next
  BY <1>1, SameSteps, Alone!NextStep
<1>2. CASE UNCHANGED statementsVars
  <2>1. UNCHANGED Alone!vars
    BY <1>2 DEF statementsVars, Alone!vars
  <2> QED
    BY <2>1, Alone!NextStep
<1> QED
  BY <1>1, <1>2 DEF ClientsNext, clientsVars

LEMMA ClientsInvariance == ClientsSpec => []Alone!IInv
<1> QED
  BY ClientsStart, ClientsStep, PTL DEF ClientsSpec

\* Whichever client a process runs, an answer for statements is true to its child.
THEOREM ClientsAnswerTrue == ClientsSpec => []StatementsAnswerTrue
<1> QED
  BY ClientsInvariance, SamePromises, PTL

\* Whichever client a process runs, no statements child works at the provider without
\* the ceilings of its caller.
THEOREM ClientsWorkBounded == ClientsSpec => []StatementsWorkBounded
<1> QED
  BY ClientsInvariance, SamePromises, PTL
=============================================================================
