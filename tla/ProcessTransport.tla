-------------------------- MODULE ProcessTransport --------------------------
(***************************************************************************)
(* One call of run_bounded (scripts/ff_process_transport.py) on POSIX: the *)
(* controller thread, the two reader threads and the writer thread it      *)
(* starts, the process tree it owns (scripts/ff_process_tree.py), and the  *)
(* pipes between them.  A stream's content is its length: bytes are read   *)
(* in order by the single reader of their pipe, so what tells two runs     *)
(* apart is how many bytes were sent, are still in the pipe, and are kept. *)
(* Time is two flags, "the absolute deadline has passed" and "the cleanup  *)
(* grace has passed", that the environment sets at any moment.             *)
(***************************************************************************)
EXTENDS Naturals, FiniteSets

CONSTANTS
  Root,          \* the process Popen starts, leader of its own session
  Descendants,   \* the processes the tree may fork
  StdoutCap,     \* stdout_cap_bytes
  StderrCaps,    \* the stderr_cap_bytes that callers pass, None among them
  None,          \* Python's None: the whole diagnostic stream is kept
  PipeCapacity,  \* bytes a pipe holds before its writer blocks
  MaxSent,       \* bound: bytes the tree writes to stdout and to stderr
  InputSizes,    \* the sizes of input_bytes that callers pass
  KillMayFail,   \* whether killpg may raise an OSError other than ESRCH
  PidReuse       \* whether the system may give a freed group id to a stranger

ASSUME TransportAssumption ==
  /\ Root \notin Descendants
  /\ StdoutCap \in Nat \ {0}
  /\ None \notin Nat
  /\ StderrCaps \subseteq (Nat \ {0}) \cup {None}
  /\ PipeCapacity \in Nat \ {0}
  /\ MaxSent \in [{"stdout", "stderr"} -> Nat]
  /\ InputSizes \subseteq Nat
  /\ KillMayFail \in BOOLEAN
  /\ PidReuse \in BOOLEAN

VARIABLES
  pc,               \* where the controller stands in run_bounded
  raised,           \* the exception _await_lifetime is propagating
  sawComplete,      \* the "complete" of the last state.snapshot()
  tree_stopped,     \* _await_lifetime already killed the orphans
  groupStopped,     \* what wait_owned_group_stopped answered
  outcome,          \* what the caller gets: a result or an exception
  proc,             \* the state of every process of the tree
  escaped,          \* processes that left the group with setsid
  code,             \* the exit status of Root
  holds,            \* stream -> processes that hold the child's end of it
  sent,             \* bytes the tree wrote to stdout, to stderr
  inPipe,           \* bytes in each pipe
  hasStdin,         \* argument: input_bytes is not None
  stderrCap,        \* argument: stderr_cap_bytes
  toWrite,          \* bytes of input_bytes not yet in the pipe
  thread,           \* the state of the three I/O threads
  finished,         \* state.finished
  error,            \* state.error
  write_error,      \* state.write_error
  retained,         \* state.retained
  stderr_truncated, \* state.stderr_truncated
  deadlinePassed,   \* time.monotonic() >= deadline
  gracePassed,      \* the 2.5 s of _cleanup are over
  stranger          \* a process group that was given the freed id of ours

controlVars == <<pc, raised, sawComplete, tree_stopped, groupStopped, outcome>>
treeVars    == <<proc, escaped, code, holds>>
pipeVars    == <<sent, inPipe, toWrite>>
ioVars      == <<thread, finished, error, write_error, retained, stderr_truncated>>
timeVars    == <<deadlinePassed, gracePassed>>
argVars     == <<hasStdin, stderrCap>>
vars == <<controlVars, treeVars, pipeVars, argVars, ioVars, timeVars, stranger>>

Procs      == {Root} \cup Descendants
OutStreams == {"stdout", "stderr"}
Streams    == OutStreams \cup {"stdin"}

CleanupSteps == {"kill", "wait", "group", "join", "close"}
Steps == {"validate", "spawn", "start", "snapshot", "poll", "orphans", "deadline",
          "done"} \cup CleanupSteps

\* What _await_lifetime and the steps before it may raise.
Raisable == {"timeout", "output_limit", "read_failed", "kill_error", "runtime_error"}
\* Outcomes reported by a call whose cleanup ran to its end ...
CleanOutcomes == {"ok", "child_failed", "timeout", "output_limit", "read_failed"}
\* ... and those of a call that gave up part of it, or never had a child.
Outcomes == CleanOutcomes \cup {"none", "start_failed", "kill_error", "runtime_error",
                                "wait_expired", "threads_alive", "group_alive"}

Live(p)    == proc[p] \in {"running", "dying"}
InGroup    == {p \in Procs : Live(p) /\ p \notin escaped}
RootExited == proc[Root] \in {"zombie", "gone"}

\* Popen.poll and Popen.wait reap an exited child.
Reaped(status) == [status EXCEPT ![Root] = IF @ = "zombie" THEN "gone" ELSE @]

Init ==
  /\ pc = "validate" /\ raised = "none" /\ outcome = "none"
  /\ sawComplete = FALSE /\ tree_stopped = FALSE /\ groupStopped = FALSE
  /\ proc = [p \in Procs |-> "unborn"]
  /\ escaped = {} /\ code = "none"
  /\ holds = [s \in Streams |-> {}]
  /\ sent = [s \in OutStreams |-> 0]
  /\ inPipe = [s \in Streams |-> 0]
  /\ hasStdin \in BOOLEAN /\ stderrCap \in StderrCaps
  /\ toWrite \in IF hasStdin THEN InputSizes ELSE {0}
  /\ thread = [s \in Streams |-> "unstarted"]
  /\ finished = {} /\ error = "none" /\ write_error = FALSE
  /\ retained = [s \in OutStreams |-> 0]
  /\ stderr_truncated = FALSE
  /\ deadlinePassed \in BOOLEAN /\ gracePassed = FALSE
  /\ stranger = "absent"

-----------------------------------------------------------------------------
(* The controller.  Raise and Return are the two ways a step can end. *)

GoTo(next) == pc' = next /\ UNCHANGED <<raised, outcome>>
Raise(e)   == pc' = "kill" /\ raised' = e /\ UNCHANGED outcome
Return(o)  == pc' = "done" /\ outcome' = o /\ UNCHANGED raised

\* _validate: a timeout that is not positive never starts a child.
Validate ==
  /\ pc = "validate"
  /\ IF deadlinePassed THEN Return("timeout") ELSE GoTo("spawn")
  /\ UNCHANGED <<sawComplete, tree_stopped, groupStopped, treeVars, pipeVars, argVars,
                 ioVars, timeVars, stranger>>

\* _spawn: Popen raises before any child exists, or the root runs holding the
\* child's end of every pipe.
Spawn ==
  /\ pc = "spawn"
  /\ \/ Return("start_failed") /\ UNCHANGED <<proc, holds>>
     \/ /\ GoTo("start")
        /\ proc' = [proc EXCEPT ![Root] = "running"]
        /\ holds' = [s \in Streams |-> IF s = "stdin" /\ ~hasStdin THEN {} ELSE {Root}]
  /\ UNCHANGED <<sawComplete, tree_stopped, groupStopped, escaped, code, pipeVars,
                 argVars, ioVars, timeVars, stranger>>

\* _IOState.start: stdout-reader, stderr-reader, then stdin-writer (without a
\* stdin pipe, "stdin" is finished at once).  A thread the system refuses to
\* start is already listed in state.threads; the ones before it run.
Start ==
  /\ pc = "start"
  /\ \/ /\ deadlinePassed
        /\ Raise("timeout") /\ UNCHANGED <<thread, finished>>
     \/ /\ ~deadlinePassed
        /\ GoTo("snapshot")
        /\ thread' = [s \in Streams |->
                        IF s = "stdin" /\ ~hasStdin THEN "unstarted" ELSE "running"]
        /\ finished' = IF hasStdin THEN {} ELSE {"stdin"}
     \/ /\ ~deadlinePassed
        /\ Raise("runtime_error") /\ UNCHANGED finished
        /\ \E started \in {{}, {"stdout"}} \cup (IF hasStdin THEN {OutStreams} ELSE {}) :
             LET refused == CASE started = {}         -> "stdout"
                              [] started = {"stdout"} -> "stderr"
                              [] OTHER                -> "stdin"
             IN  thread' = [s \in Streams |-> CASE s \in started -> "running"
                                                [] s = refused   -> "listed"
                                                [] OTHER         -> "unstarted"]
  /\ UNCHANGED <<sawComplete, tree_stopped, groupStopped, treeVars, pipeVars, argVars,
                 error, write_error, retained, stderr_truncated, timeVars, stranger>>

\* _await_lifetime: state.snapshot(); the recorded error is raised.
Snapshot ==
  /\ pc = "snapshot"
  /\ sawComplete' = (finished = Streams)
  /\ IF error # "none" THEN Raise(error) ELSE GoTo("poll")
  /\ UNCHANGED <<tree_stopped, groupStopped, treeVars, pipeVars, argVars, ioVars,
                 timeVars, stranger>>

\* proc.poll() and what the loop does with its answer: return, stop the orphans
\* that a root which is gone left in the group, or look at the clock.
StopsOrphans == RootExited /\ ~tree_stopped
Poll ==
  /\ pc = "poll"
  /\ proc' = Reaped(proc)
  /\ GoTo(IF sawComplete /\ RootExited THEN "kill"
          ELSE IF StopsOrphans THEN "orphans" ELSE "deadline")
  /\ UNCHANGED <<sawComplete, tree_stopped, groupStopped, escaped, code, holds, pipeVars,
                 argVars, ioVars, timeVars, stranger>>

\* kill_owned_group(proc.pid) signals whoever is in the group that has this id
\* now; _kill_tree then polls the root and kills it if it still runs.
KillGroup ==
  /\ proc' = Reaped([p \in Procs |-> IF p \in InGroup THEN "dying" ELSE proc[p]])
  /\ stranger' = IF stranger = "running" THEN "killed" ELSE stranger
KillRootOnly ==
  /\ KillMayFail
  /\ proc' = Reaped([proc EXCEPT ![Root] = IF @ = "running" THEN "dying" ELSE @])
  /\ UNCHANGED stranger

\* The loop's own _kill_tree: orphans may hold the pipes after the root's exit.
StopOrphans ==
  /\ pc = "orphans"
  /\ \/ KillGroup /\ tree_stopped' = TRUE /\ GoTo("deadline")
     \/ KillRootOnly /\ Raise("kill_error") /\ UNCHANGED tree_stopped
  /\ UNCHANGED <<sawComplete, groupStopped, escaped, code, holds, pipeVars, argVars,
                 ioVars, timeVars>>

\* The loop's deadline test; the wait that follows is at most 20 ms.
CheckDeadline ==
  /\ pc = "deadline"
  /\ IF deadlinePassed THEN Raise("timeout") ELSE GoTo("snapshot")
  /\ UNCHANGED <<sawComplete, tree_stopped, groupStopped, treeVars, pipeVars, argVars,
                 ioVars, timeVars, stranger>>

\* _cleanup, step by step.  An exception of its own replaces the one it found.
CleanupKill ==
  /\ pc = "kill"
  /\ \/ KillGroup /\ GoTo("wait")
     \/ KillRootOnly /\ Return("kill_error")
  /\ UNCHANGED <<sawComplete, tree_stopped, groupStopped, escaped, code, holds, pipeVars,
                 argVars, ioVars, timeVars>>

\* proc.wait(timeout): subprocess.TimeoutExpired leaves the threads unjoined.
CleanupWait ==
  /\ pc = "wait"
  /\ \/ RootExited /\ proc' = Reaped(proc) /\ GoTo("group")
     \/ ~RootExited /\ gracePassed /\ Return("wait_expired") /\ UNCHANGED proc
  /\ UNCHANGED <<sawComplete, tree_stopped, groupStopped, escaped, code, holds, pipeVars,
                 argVars, ioVars, timeVars, stranger>>

\* wait_owned_group_stopped: whoever is in the group with this id is observed.  Its
\* killpg(id, 0) catches ESRCH only: a refused probe ends _cleanup before the joins.
RootEnded == ~Live(Root)
GroupEmpty == InGroup = {} /\ stranger # "running"
CleanupGroup ==
  /\ pc = "group"
  /\ \/ /\ GroupEmpty \/ gracePassed
        /\ groupStopped' = GroupEmpty
        /\ GoTo("join")
     \/ KillMayFail /\ Return("kill_error") /\ UNCHANGED groupStopped
  /\ UNCHANGED <<sawComplete, tree_stopped, treeVars, pipeVars, argVars, ioVars,
                 timeVars, stranger>>

\* The joins; joining a thread that never started raises RuntimeError.
Alive == {s \in Streams : thread[s] = "running"}
JoinsForever == Alive = {}
JoinsEnd == Alive = {} \/ gracePassed
CleanupJoin ==
  /\ pc = "join"
  /\ LET listed == {s \in Streams : thread[s] = "listed"}
     IN  /\ JoinsEnd
         /\ IF listed # {} THEN Return("runtime_error")
            ELSE IF Alive # {} THEN Return("threads_alive") ELSE GoTo("close")
  /\ UNCHANGED <<sawComplete, tree_stopped, groupStopped, treeVars, pipeVars, argVars,
                 ioVars, timeVars, stranger>>

\* The end of _cleanup, then _result when nothing was raised.
Result == IF code # "zero" \/ write_error THEN "child_failed" ELSE "ok"
AnswerUnwatched == IF raised # "none" THEN raised ELSE Result
Answer == IF ~groupStopped THEN "group_alive"
          ELSE IF raised # "none" THEN raised ELSE Result
Finish ==
  /\ pc = "close"
  /\ Return(Answer)
  /\ UNCHANGED <<sawComplete, tree_stopped, groupStopped, treeVars, pipeVars, argVars,
                 ioVars, timeVars, stranger>>

Controller ==
  \/ Validate \/ Spawn \/ Start \/ Snapshot \/ Poll \/ StopOrphans \/ CheckDeadline
  \/ CleanupKill \/ CleanupWait \/ CleanupGroup \/ CleanupJoin \/ Finish

-----------------------------------------------------------------------------
(* The I/O threads.  finish keeps the first error and ends the thread. *)

FinishThread(s, e) ==
  /\ thread' = [thread EXCEPT ![s] = "done"]
  /\ finished' = finished \cup {s}
  /\ error' = IF error = "none" THEN e ELSE error

\* What stays of a stream after another n bytes: stderr keeps its newest window,
\* if it has one, and says so when that drops bytes; stdout past its cap is an error.
Windowed(s) == s = "stderr" /\ stderrCap # None
RetainAll(s, n) == retained[s] + n
Retain(s, n) ==
  LET all == retained[s] + n
  IN  IF Windowed(s) /\ all > stderrCap THEN stderrCap ELSE all

TrimsLate(s, n) == Windowed(s) /\ retained[s] + n > stderrCap + 1
Trims(s, n) == Windowed(s) /\ retained[s] + n > stderrCap
Overflows(s, n) == s = "stdout" /\ retained[s] + n > StdoutCap

\* The largest read: stdout asks for one probe byte past its cap.
ReadSizeCapped(s) ==
  CASE s = "stdout" -> StdoutCap - retained[s] + 1
    [] Windowed(s)  -> stderrCap - retained[s]
    [] OTHER        -> PipeCapacity
ReadSize(s) == IF s = "stdout" THEN StdoutCap - retained[s] + 1 ELSE PipeCapacity

ReadPiece(s) ==
  /\ thread[s] = "running"
  /\ \E n \in 1..inPipe[s] :
       /\ n <= ReadSize(s)
       /\ inPipe' = [inPipe EXCEPT ![s] = @ - n]
       /\ retained' = [retained EXCEPT ![s] = Retain(s, n)]
       /\ stderr_truncated' = (stderr_truncated \/ Trims(s, n))
       /\ IF Overflows(s, n)
          THEN FinishThread(s, "output_limit")
          ELSE UNCHANGED <<thread, finished, error>>
  /\ UNCHANGED <<controlVars, treeVars, sent, toWrite, argVars, write_error, timeVars,
                 stranger>>

\* End of file: the pipe is empty and nobody holds its other end.
AtEofEarly(s) == holds[s] = {}
AtEof(s) == inPipe[s] = 0 /\ holds[s] = {}
ReadEof(s) ==
  /\ thread[s] = "running"
  /\ AtEof(s)
  /\ FinishThread(s, "none")
  /\ UNCHANGED <<controlVars, treeVars, pipeVars, argVars, write_error, retained,
                 stderr_truncated, timeVars, stranger>>

\* A read that raises: a lost payload is an error, lost diagnostics a log gap.
ReadFails(s) ==
  /\ thread[s] = "running"
  /\ FinishThread(s, IF s = "stdout" THEN "read_failed" ELSE "none")
  /\ stderr_truncated' = (stderr_truncated \/ s = "stderr")
  /\ UNCHANGED <<controlVars, treeVars, pipeVars, argVars, write_error, retained,
                 timeVars, stranger>>

\* The writer: a byte into the pipe, the end of the data, or a broken pipe.
WritesAlways == TRUE
InputLeft == toWrite > 0
WritePiece ==
  /\ thread["stdin"] = "running"
  /\ InputLeft /\ holds["stdin"] # {} /\ inPipe["stdin"] < PipeCapacity
  /\ toWrite' = toWrite - 1
  /\ inPipe' = [inPipe EXCEPT !["stdin"] = @ + 1]
  /\ UNCHANGED <<controlVars, treeVars, sent, argVars, ioVars, timeVars, stranger>>

WriteEnds ==
  /\ thread["stdin"] = "running"
  /\ \/ ~InputLeft /\ UNCHANGED write_error
     \/ InputLeft /\ holds["stdin"] = {} /\ write_error' = TRUE
  /\ FinishThread("stdin", "none")
  /\ UNCHANGED <<controlVars, treeVars, pipeVars, argVars, retained, stderr_truncated,
                 timeVars, stranger>>

ThreadWorks(s) == IF s = "stdin" THEN WritePiece \/ WriteEnds
                  ELSE ReadPiece(s) \/ ReadEof(s)
Thread(s) == ThreadWorks(s) \/ (s # "stdin" /\ ReadFails(s))

-----------------------------------------------------------------------------
(* The process tree: any program, doing whatever the operating system allows. *)

\* A byte into a pipe whose reader is still there.
ChildWrites(p, s) ==
  /\ proc[p] = "running" /\ p \in holds[s]
  /\ sent[s] < MaxSent[s] /\ inPipe[s] < PipeCapacity /\ thread[s] # "done"
  /\ sent' = [sent EXCEPT ![s] = @ + 1]
  /\ inPipe' = [inPipe EXCEPT ![s] = @ + 1]
  /\ UNCHANGED <<controlVars, treeVars, toWrite, argVars, ioVars, timeVars, stranger>>

ChildReads(p) ==
  /\ proc[p] = "running" /\ p \in holds["stdin"] /\ inPipe["stdin"] > 0
  /\ inPipe' = [inPipe EXCEPT !["stdin"] = @ - 1]
  /\ UNCHANGED <<controlVars, treeVars, sent, toWrite, argVars, ioVars, timeVars, stranger>>

ChildCloses(p, s) ==
  /\ proc[p] = "running" /\ p \in holds[s]
  /\ holds' = [holds EXCEPT ![s] = @ \ {p}]
  /\ UNCHANGED <<controlVars, proc, escaped, code, pipeVars, argVars, ioVars, timeVars,
                 stranger>>

\* A fork inherits the pipes and the group.
Fork(p, c) ==
  /\ proc[p] = "running" /\ proc[c] = "unborn"
  /\ proc' = [proc EXCEPT ![c] = "running"]
  /\ holds' = [s \in Streams |-> IF p \in holds[s] THEN holds[s] \cup {c} ELSE holds[s]]
  /\ escaped' = IF p \in escaped THEN escaped \cup {c} ELSE escaped
  /\ UNCHANGED <<controlVars, code, pipeVars, argVars, ioVars, timeVars, stranger>>

\* setsid fails for the root, which already leads its session.
Setsid(p) ==
  /\ p # Root /\ proc[p] = "running"
  /\ escaped' = escaped \cup {p}
  /\ UNCHANGED <<controlVars, proc, code, holds, pipeVars, argVars, ioVars, timeVars,
                 stranger>>

\* A process ends: by itself with any status, or by the SIGKILL it was sent.
Exit(p) ==
  /\ Live(p)
  /\ proc' = [proc EXCEPT ![p] = IF p = Root THEN "zombie" ELSE "gone"]
  /\ holds' = [s \in Streams |-> holds[s] \ {p}]
  /\ code' \in IF p # Root THEN {code}
               ELSE IF proc[p] = "dying" THEN {"nonzero"} ELSE {"zero", "nonzero"}
  /\ UNCHANGED <<controlVars, escaped, pipeVars, argVars, ioVars, timeVars, stranger>>

Tree == \E p \in Procs :
  \/ \E s \in OutStreams : ChildWrites(p, s)
  \/ ChildReads(p)
  \/ \E s \in Streams : ChildCloses(p, s)
  \/ \E c \in Descendants : Fork(p, c)
  \/ Setsid(p)
  \/ Exit(p)

\* The system: time passes, and an id nobody uses any more may be given out.
DeadlinePasses ==
  /\ pc # "validate" /\ ~deadlinePassed
  /\ deadlinePassed' = TRUE
  /\ UNCHANGED <<controlVars, treeVars, pipeVars, argVars, ioVars, gracePassed, stranger>>

GracePasses ==
  /\ pc \in CleanupSteps /\ ~gracePassed
  /\ gracePassed' = TRUE
  /\ UNCHANGED <<controlVars, treeVars, pipeVars, argVars, ioVars, deadlinePassed, stranger>>

ReuseId ==
  /\ PidReuse /\ stranger = "absent"
  /\ proc[Root] = "gone" /\ InGroup = {}
  /\ stranger' = "running"
  /\ UNCHANGED <<controlVars, treeVars, pipeVars, argVars, ioVars, timeVars>>

\* After the call returned only the system and what the call left behind move.
Returned == pc = "done" /\ UNCHANGED vars

Next ==
  \/ Controller
  \/ \E s \in Streams : Thread(s)
  \/ Tree
  \/ DeadlinePasses
  \/ GracePasses
  \/ ReuseId
  \/ Returned

\* Threads are scheduled and time passes; a read need not ever fail, and nothing
\* is assumed of the child, not even that one which was sent SIGKILL ends.
Fairness ==
  /\ WF_vars(Controller)
  /\ \A s \in Streams : WF_vars(ThreadWorks(s))
  /\ WF_vars(DeadlinePasses)
  /\ WF_vars(GracePasses)

Spec == Init /\ [][Next]_vars /\ Fairness
-----------------------------------------------------------------------------
(* Properties. *)

TypeOK ==
  /\ pc \in Steps /\ raised \in {"none"} \cup Raisable /\ outcome \in Outcomes
  /\ sawComplete \in BOOLEAN /\ tree_stopped \in BOOLEAN /\ groupStopped \in BOOLEAN
  /\ proc \in [Procs -> {"unborn", "running", "dying", "zombie", "gone"}]
  /\ escaped \subseteq Descendants
  /\ code \in {"none", "zero", "nonzero"}
  /\ holds \in [Streams -> SUBSET Procs]
  /\ sent \in [OutStreams -> Nat]
  /\ inPipe \in [Streams -> Nat]
  /\ hasStdin \in BOOLEAN /\ stderrCap \in StderrCaps /\ toWrite \in Nat
  /\ thread \in [Streams -> {"unstarted", "listed", "running", "done"}]
  /\ finished \subseteq Streams
  /\ error \in {"none", "output_limit", "read_failed"}
  /\ write_error \in BOOLEAN
  /\ retained \in [OutStreams -> Nat]
  /\ stderr_truncated \in BOOLEAN
  /\ deadlinePassed \in BOOLEAN /\ gracePassed \in BOOLEAN
  /\ stranger \in {"absent", "running", "killed"}

\* A result is complete: what run_bounded returns, and what ChildFailed carries,
\* is every byte the tree ever wrote to stdout, within the cap; success also
\* means that the root ended by itself with status 0 and that the whole input
\* went into its pipe.
CompleteResult ==
  /\ outcome \in {"ok", "child_failed"} =>
       retained["stdout"] = sent["stdout"] /\ sent["stdout"] <= StdoutCap
  /\ outcome = "ok" => code = "zero" /\ toWrite = 0

\* "One bounded lifetime": when the caller gets a result, a ChildFailed, a
\* timeout or a stream error, the root is reaped, no process of its group
\* lives and no I/O thread runs.
NothingLeftBehind ==
  outcome \in CleanOutcomes =>
    /\ proc[Root] \in {"unborn", "gone"}
    /\ InGroup = {}
    /\ \A s \in Streams : thread[s] # "running"

\* The bytes held for a child whose caller asked for a diagnostic window are bounded
\* whatever it writes: stdout by its cap and the one probe byte, stderr by the window.
\* A caller that passes stderr_cap_bytes=None asks for the whole stream: its stdout is
\* bounded all the same, its stderr by nothing, and none of what was read is dropped.
BoundedMemory ==
  /\ retained["stdout"] <= StdoutCap + 1
  /\ stderrCap # None => retained["stderr"] <= stderrCap
  /\ stderrCap = None => retained["stderr"] + inPipe["stderr"] = sent["stderr"]

\* stderr_truncated is honest: a delivered result that does not set it has
\* every diagnostic byte, in a window and without one.
HonestTruncation ==
  outcome \in {"ok", "child_failed"} /\ ~stderr_truncated =>
    retained["stderr"] = sent["stderr"]

\* The signals stay in the tree this call owns (ff_process_tree.py:1).
SignalsOwnTreeOnly == stranger # "killed"

\* The call returns, whatever the child does with its streams and its life.
Returns == <>(pc = "done")

\* "it is drained concurrently (so the child never blocks on a full pipe)".
DiagnosticsDrained ==
  inPipe["stderr"] = PipeCapacity ~>
    (inPipe["stderr"] < PipeCapacity \/ thread["stderr"] # "running")
\* The call implements BoundedCall: it returns once, and a clean outcome means
\* that its group and its threads are at rest for good.
Call == INSTANCE BoundedCall WITH
  Workers <- Procs \cup Streams,
  phase   <- IF pc = "done" THEN "returned"
             ELSE IF proc[Root] = "unborn" THEN "called" ELSE "running",
  result  <- outcome,
  busy    <- InGroup \cup {s \in Streams : thread[s] = "running"}
ImplementsCall == Call!Spec
=============================================================================
