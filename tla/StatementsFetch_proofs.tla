------------------------ MODULE StatementsFetch_proofs ------------------------
(***************************************************************************)
(* Theorems of StatementsFetch, for every set of invocations and           *)
(* configurations.  The invariant follows the child: there is one only     *)
(* after an accepted request, and it is gone or read when there is an      *)
(* answer.                                                                 *)
(***************************************************************************)
EXTENDS StatementsFetch, TLAPS

Answers == {Answered(exit, payload) : exit \in {0, 1}, payload \in Payloads}

ChildInv ==
  /\ pc \in {"main", "call", "done"}
  /\ pc = "done" <=> response # NoResponse
  /\ pc = "main" => child = NoChild
  /\ child \in {NoChild, Running} \cup Answers
  /\ child = Running => pc = "call"
  /\ child # NoChild => RequestAccepted(invocation.request)

IInv == ChildInv /\ StatementsAnswerTrue /\ StatementsWorkBounded

\* What a child may be can be told from its state.
LEMMA ChildStates ==
  ASSUME ChildInv
  PROVE  /\ child = NoChild <=> child.state = "none"
         /\ child = Running <=> child.state = "running"
         /\ child.state = "answered" =>
              /\ child.exit \in {0, 1} /\ child.payload \in Payloads
              /\ child = Answered(child.exit, child.payload)
  BY DEF ChildInv, Answers, NoChild, Running, Answered

\* An answer is not "no answer".
LEMMA AnAnswer ==
  \A exit, status, retryable, with_exit :
    exit \in 0..2 => [exit |-> exit, status |-> status, retryable |-> retryable, with_exit |-> with_exit] # NoResponse
<1> TAKE exit, status, retryable, with_exit
<1> HAVE exit \in 0..2
<1> DEFINE given == [exit |-> exit, status |-> status, retryable |-> retryable, with_exit |-> with_exit]
<1>1. given.exit # NoResponse.exit
  BY DEF NoResponse
<1> QED BY <1>1

LEMMA InitIInv == Init => IInv
  BY DEF Init, IInv, ChildInv, StatementsAnswerTrue, StatementsWorkBounded, NoChild, Running

\* An answer that is neither a business status nor made from the child's.
LEMMA RefusedStep ==
  ASSUME IInv, pc' = "done", response' # NoResponse, response'.exit \in {1, 2},
         response'.status \notin Business, ~response'.with_exit,
         child' = NoChild, UNCHANGED <<invocation, configuration, fetched>>
  PROVE  IInv'
  BY DEF IInv, ChildInv, StatementsAnswerTrue, StatementsWorkBounded, NoChild, Running

\* One typed error, or the exception that main does not know.
LEMMA ErrorStep ==
  ASSUME IInv, child' = NoChild, UNCHANGED <<invocation, configuration, fetched>>,
         (\E code \in {"request_error", "config_error", "upstream_error"} : Typed(code)) \/ Escaped
  PROVE  IInv'
<1>1. ASSUME NEW code \in {"request_error", "config_error", "upstream_error"}, Typed(code)
      PROVE  IInv'
  <2>1. pc' = "done" /\ response' # NoResponse /\ response'.exit = 2 /\ response'.status = code
        /\ response'.with_exit = FALSE
    BY <1>1, AnAnswer DEF Typed, Respond
  <2> QED BY <2>1, RefusedStep DEF Business
<1>2. CASE Escaped
  <2>1. pc' = "done" /\ response' # NoResponse /\ response'.exit = 1 /\ response'.status = "fatal"
        /\ response'.with_exit = FALSE
    BY <1>2, AnAnswer DEF Escaped, Respond
  <2> QED BY <2>1, RefusedStep DEF Business
<1> QED BY <1>1, <1>2

LEMMA ReadInputStep == ASSUME IInv, ReadInput PROVE IInv'
<1>1. child = NoChild /\ child' = NoChild /\ UNCHANGED <<invocation, configuration, fetched>>
  BY DEF ReadInput, IInv, ChildInv
<1>2. CASE \E exit \in {1, 2}, status \in {"silent", "request_error"} : Respond(exit, status, FALSE, FALSE)
  <2>1. pc' = "done" /\ response' # NoResponse /\ response'.exit \in {1, 2}
        /\ response'.status \in {"silent", "request_error"} /\ response'.with_exit = FALSE
    BY <1>2, AnAnswer DEF Respond
  <2> QED BY <1>1, <2>1, RefusedStep DEF Business
<1>3. CASE pc' = "call" /\ UNCHANGED response
  BY <1>1, <1>3 DEF ReadInput, IInv, ChildInv, StatementsAnswerTrue, StatementsWorkBounded, Running, NoChild
<1> QED BY <1>2, <1>3 DEF ReadInput

LEMMA InvokeStep == ASSUME IInv, Invoke PROVE IInv'
<1>1. ChildInv'
  BY DEF Invoke, IInv, ChildInv, Running, NoChild
<1>2. response = NoResponse /\ UNCHANGED <<invocation, fetched, response>>
  BY DEF Invoke, IInv, ChildInv
<1>3. invocation.request.continuation = "good" => invocation.request.limits = "good"
  BY DEF Invoke, RequestAccepted
<1> QED BY <1>1, <1>2, <1>3 DEF IInv, StatementsAnswerTrue, StatementsWorkBounded

\* A child that works was given a request with limits, unless it only reuses.
LEMMA ChildFetchesStep == ASSUME IInv, ChildFetches PROVE IInv'
<1>1. invocation.request.limits = "good"
  <2>1. RequestAccepted(invocation.request) /\ invocation.request.intent # "reuse_only"
    BY DEF ChildFetches, IInv, ChildInv, NoChild, Running
  <2> QED BY <2>1 DEF RequestAccepted, Intent
<1>2. response = NoResponse /\ UNCHANGED <<invocation, pc, child, response>>
  BY DEF ChildFetches, IInv, ChildInv
<1> QED BY <1>1, <1>2 DEF IInv, ChildInv, StatementsAnswerTrue, StatementsWorkBounded

LEMMA ChildAnswersStep == ASSUME IInv, ChildAnswers PROVE IInv'
<1>1. PICK exit \in {0, 1}, payload \in Payloads : child' = Answered(exit, payload)
  BY DEF ChildAnswers
<1>2. child # NoChild /\ pc = "call" /\ response = NoResponse
      /\ UNCHANGED <<invocation, pc, fetched, response>>
  BY DEF ChildAnswers, IInv, ChildInv, NoChild, Running
<1>3. child' # Running
  BY <1>1 DEF Answered, Running
<1> QED BY <1>1, <1>2, <1>3 DEF IInv, ChildInv, Answers, StatementsAnswerTrue, StatementsWorkBounded

LEMMA ReadStep == ASSUME IInv, Read PROVE IInv'
<1>1. /\ child.exit \in {0, 1} /\ child.payload \in Payloads
      /\ child = Answered(child.exit, child.payload)
      /\ child # NoChild /\ child # Running
  BY ChildStates DEF IInv, Read
<1>2. UNCHANGED <<invocation, child, fetched>> /\ StatementsWorkBounded
  BY DEF Read, IInv
<1>3. ChildInv' /\ StatementsAnswerTrue'
  <2>1. CASE Accepted(child.exit, child.payload)
    <3>1. Respond(ExitOf(child.payload), child.payload, FALSE, FALSE)
      BY <2>1 DEF Read
    <3>2. ExitOf(child.payload) \in 0..2
      BY DEF ExitOf
    <3>3. /\ pc' = "done" /\ response' # NoResponse /\ response'.exit = ExitOf(child.payload)
          /\ response'.status = child.payload /\ ~response'.retryable /\ ~response'.with_exit
      BY <3>1, <3>2, AnAnswer DEF Respond
    <3>4. /\ ExitOf(child.payload) = 0 <=> child.payload \in Business
          /\ child.payload \in Business => child.exit = 0
      BY <1>1, <2>1 DEF Accepted, ReadableKnown, ReadableRefusal, ExitOf, Business, Refusals
    <3> QED BY <1>1, <1>2, <3>3, <3>4 DEF IInv, ChildInv, StatementsAnswerTrue
  <2>2. CASE ~Accepted(child.exit, child.payload)
    <3>1. Respond(2, "upstream_error", TRUE, child.exit # 0)
      BY <2>2 DEF Read
    <3>2. /\ pc' = "done" /\ response' # NoResponse /\ response'.exit = 2
          /\ response'.status = "upstream_error"
      BY <3>1, AnAnswer DEF Respond
    <3>5. response'.with_exit => child.exit # 0
      <4>1. response'.with_exit = (child.exit # 0)
        BY <3>1, Zenon DEF Respond
      <4> QED BY <4>1
    <3>3. child.payload \notin Refusals
      BY <2>2 DEF Accepted, ReadableKnown, ReadableRefusal
    <3>4. child.state = "answered"
      BY DEF Read
    <3> QED BY <1>1, <1>2, <3>2, <3>3, <3>4, <3>5 DEF IInv, ChildInv, StatementsAnswerTrue, Business
  <2> QED BY <2>1, <2>2
<1> QED BY <1>2, <1>3 DEF IInv, StatementsWorkBounded

LEMMA NextStep == IInv /\ [Next]_vars => IInv'
<1> SUFFICES ASSUME IInv, [Next]_vars PROVE IInv'
  OBVIOUS
<1>1. CASE ReadInput BY <1>1, ReadInputStep
<1>2. CASE Refuse
  <2>1. \/ \E code \in {"request_error", "config_error", "upstream_error"} : Typed(code)
        \/ Escaped
    BY <1>2 DEF Refuse
  <2> QED BY <1>2, <2>1, ErrorStep DEF Refuse
<1>3. CASE Invoke BY <1>3, InvokeStep
<1>4. CASE ChildFetches BY <1>4, ChildFetchesStep
<1>5. CASE ChildAnswers BY <1>5, ChildAnswersStep
<1>6. CASE CallFails
  BY <1>6, ErrorStep DEF CallFails
<1>7. CASE Read BY <1>7, ReadStep
<1>8. CASE UNCHANGED vars
  BY <1>8 DEF vars, IInv, ChildInv, StatementsAnswerTrue, StatementsWorkBounded
<1> QED BY <1>1, <1>2, <1>3, <1>4, <1>5, <1>6, <1>7, <1>8 DEF Next, Done

LEMMA Invariance == Spec => []IInv
<1> QED BY InitIInv, NextStep, PTL DEF Spec

\* An answer is true to the child: exit code 0 exactly for the status of a child that
\* ended well, and a child's refusal under its own name, never for a retry.
THEOREM StatementsAnswerTrueAlways == Spec => []StatementsAnswerTrue
<1>1. IInv => StatementsAnswerTrue
  BY DEF IInv
<1> QED BY <1>1, Invariance, PTL

\* No child works at the provider, nor goes on with a listing, without the ceilings
\* of its caller.
THEOREM StatementsWorkBoundedAlways == Spec => []StatementsWorkBounded
<1>1. IInv => StatementsWorkBounded
  BY DEF IInv
<1> QED BY <1>1, Invariance, PTL
=============================================================================
