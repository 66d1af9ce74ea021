----------------------- MODULE ProcessTransport_proofs -----------------------
(***************************************************************************)
(* Theorems of ProcessTransport, for every process tree, cap, pipe size,   *)
(* input and schedule.  IInv is the inductive invariant; its three parts   *)
(* follow the life of the call: before the child exists, while its output  *)
(* is collected, and while its tree is taken down.                         *)
(***************************************************************************)
EXTENDS ProcessTransport, TLAPS

\* Before Popen returns there is no process, no thread and no finished stream.
UnbornInv ==
  /\ pc \in {"validate", "spawn"} => proc[Root] = "unborn"
  /\ pc \in {"validate", "spawn", "start"} =>
       finished = {} /\ \A s \in Streams : thread[s] = "unstarted"
  /\ proc[Root] = "unborn" =>
       /\ pc \in {"validate", "spawn", "done"}
       /\ \A p \in Procs : proc[p] = "unborn"
       /\ \A s \in Streams : thread[s] = "unstarted"
       /\ finished = {}

\* What is known of the payload once streams have finished.
PayloadInv ==
  /\ \A s \in Streams : thread[s] = "running" => s \notin finished
  /\ retained["stdout"] + inPipe["stdout"] = sent["stdout"]
  /\ "stdout" \in finished /\ error = "none" => holds["stdout"] = {} /\ inPipe["stdout"] = 0
  /\ retained["stdout"] > StdoutCap => error # "none"
  /\ "stdin" \in finished /\ ~write_error => toWrite = 0
  /\ ~hasStdin => toWrite = 0
  /\ sawComplete /\ raised = "none" => finished = Streams /\ error = "none"
  /\ pc \in CleanupSteps /\ raised = "none" => sawComplete
  /\ outcome \in {"ok", "child_failed"} => finished = Streams /\ error = "none"
  /\ outcome = "ok" => code = "zero" /\ ~write_error

\* How the steps of _cleanup accumulate what a clean outcome promises.
StoppedInv ==
  /\ groupStopped => InGroup = {} /\ pc \in {"join", "close", "done"}
  /\ pc \in {"group", "join", "close"} => proc[Root] = "gone"
  /\ pc = "close" => \A s \in Streams : thread[s] # "running"
  /\ outcome # "none" => pc = "done"
  /\ outcome \in CleanOutcomes /\ proc[Root] # "unborn" =>
       /\ groupStopped /\ proc[Root] = "gone"
       /\ \A s \in Streams : thread[s] # "running"

IInv == TypeOK /\ UnbornInv /\ PayloadInv /\ StoppedInv

-----------------------------------------------------------------------------
\* The initial states satisfy the invariant.
LEMMA InitIInv == Init => IInv
<1> USE TransportAssumption DEF Init, Steps, CleanupSteps, CleanOutcomes, Outcomes, Procs,
                                Streams, OutStreams
<1> SUFFICES ASSUME Init PROVE IInv
  OBVIOUS
<1>1. TypeOK
  <2>1. toWrite \in Nat
    BY SMT
  <2> QED BY <2>1 DEF TypeOK, Raisable
<1>2. UnbornInv BY DEF UnbornInv
<1>3. PayloadInv BY DEF PayloadInv
<1>4. StoppedInv BY DEF StoppedInv, InGroup, Live
<1> QED BY <1>1, <1>2, <1>3, <1>4 DEF IInv

\* A kill, of the group or of the root alone, leaves every process in a legal
\* state, starts none, and reaps a root that had exited.
LEMMA KillStep ==
  ASSUME TypeOK, KillGroup \/ KillRootOnly
  PROVE  /\ proc' \in [Procs -> {"unborn", "running", "dying", "zombie", "gone"}]
         /\ stranger' \in {"absent", "running", "killed"}
         /\ \A p \in Procs : proc[p] = "unborn" <=> proc'[p] = "unborn"
         /\ \A p \in Procs : proc'[p] \in {"running", "dying"} <=> Live(p)
<1>1. CASE KillGroup
  <2> DEFINE hit == [p \in Procs |-> IF p \in InGroup THEN "dying" ELSE proc[p]]
  <2>1. /\ hit \in [Procs -> {"unborn", "running", "dying", "zombie", "gone"}]
        /\ \A p \in Procs : proc[p] = "unborn" <=> hit[p] = "unborn"
        /\ \A p \in Procs : hit[p] \in {"running", "dying"} <=> Live(p)
    BY DEF TypeOK, InGroup, Live
  <2>2. proc' = [hit EXCEPT ![Root] = IF hit[Root] = "zombie" THEN "gone" ELSE hit[Root]]
    BY <1>1 DEF KillGroup, Reaped
  <2> QED BY <1>1, <2>1, <2>2 DEF KillGroup, TypeOK
<1>2. CASE KillRootOnly
  <2> DEFINE hit == [proc EXCEPT ![Root] = IF @ = "running" THEN "dying" ELSE @]
  <2>1. /\ hit \in [Procs -> {"unborn", "running", "dying", "zombie", "gone"}]
        /\ \A p \in Procs : proc[p] = "unborn" <=> hit[p] = "unborn"
        /\ \A p \in Procs : hit[p] \in {"running", "dying"} <=> Live(p)
    BY DEF TypeOK, Live, Procs
  <2>2. proc' = [hit EXCEPT ![Root] = IF hit[Root] = "zombie" THEN "gone" ELSE hit[Root]]
    BY <1>2 DEF KillRootOnly, Reaped
  <2> HIDE DEF hit
  <2>3. stranger' \in {"absent", "running", "killed"}
    BY <1>2 DEF KillRootOnly, TypeOK
  <2> QED BY <2>1, <2>2, <2>3
<1> QED BY <1>1, <1>2

\* The variables keep their types.
LEMMA TypeStep == TypeOK /\ [Next]_vars => TypeOK'
<1> USE TransportAssumption
    DEF TypeOK, Procs, Streams, OutStreams, Steps, CleanupSteps, CleanOutcomes, Outcomes,
        Raisable, argVars
<1> SUFFICES ASSUME TypeOK, [Next]_vars PROVE TypeOK'
  OBVIOUS
<1>1. CASE Validate BY <1>1 DEF Validate, Return, GoTo, treeVars, pipeVars, ioVars, timeVars
<1>2. CASE Spawn BY <1>2 DEF Spawn, Return, GoTo, pipeVars, ioVars, timeVars
<1>3. CASE Start BY <1>3 DEF Start, Raise, GoTo, treeVars, pipeVars, timeVars
<1>4. CASE Snapshot BY <1>4 DEF Snapshot, Raise, GoTo, treeVars, pipeVars, ioVars, timeVars
<1>5. CASE Poll BY <1>5 DEF Poll, StopsOrphans, Reaped, GoTo, pipeVars, ioVars, timeVars
<1>6. CASE StopOrphans
  <2>1. CASE KillGroup /\ tree_stopped' = TRUE /\ GoTo("deadline")
    BY <1>6, <2>1, KillStep DEF StopOrphans, GoTo, pipeVars, ioVars, timeVars
  <2>2. CASE KillRootOnly /\ Raise("kill_error") /\ UNCHANGED tree_stopped
    BY <1>6, <2>2, KillStep DEF StopOrphans, Raise, pipeVars, ioVars, timeVars
  <2> QED BY <1>6, <2>1, <2>2 DEF StopOrphans
<1>7. CASE CheckDeadline
  BY <1>7 DEF CheckDeadline, Raise, GoTo, treeVars, pipeVars, ioVars, timeVars
<1>8. CASE CleanupKill
  BY <1>8, KillStep DEF CleanupKill, Return, GoTo, pipeVars, ioVars, timeVars
<1>9. CASE CleanupWait
  BY <1>9 DEF CleanupWait, Reaped, Return, GoTo, pipeVars, ioVars, timeVars
<1>10. CASE CleanupGroup
  <2>1. /\ pc' \in Steps /\ raised' \in {"none"} \cup Raisable
        /\ outcome' \in Outcomes /\ groupStopped' \in BOOLEAN
    <3>1. CASE groupStopped' = GroupEmpty /\ GoTo("join")
      BY <3>1 DEF GroupEmpty, GoTo
    <3>2. CASE Return("kill_error") /\ UNCHANGED groupStopped
      BY <3>2 DEF Return
    <3> QED
      BY <1>10, <3>1, <3>2 DEF CleanupGroup
  <2> QED
    BY <1>10, <2>1 DEF CleanupGroup, treeVars, pipeVars, ioVars, timeVars
<1>11. CASE CleanupJoin
  BY <1>11 DEF CleanupJoin, Alive, JoinsEnd, Return, GoTo, treeVars, pipeVars, ioVars, timeVars
<1>12. CASE Finish
  BY <1>12 DEF Finish, Answer, Result, Return, treeVars, pipeVars, ioVars, timeVars
<1>13. ASSUME NEW s \in Streams, Thread(s) PROVE TypeOK'
  <2>1. CASE s = "stdin" /\ WritePiece
    BY <2>1 DEF WritePiece, InputLeft, controlVars, treeVars, ioVars, timeVars
  <2>2. CASE s = "stdin" /\ WriteEnds
    <3>1. thread' \in [Streams -> {"unstarted", "listed", "running", "done"}]
      BY <2>2 DEF WriteEnds, InputLeft, FinishThread
    <3>2. finished' \subseteq Streams
      BY <2>2 DEF WriteEnds, InputLeft, FinishThread
    <3>3. error' \in {"none", "output_limit", "read_failed"} /\ write_error' \in BOOLEAN
      BY <2>2 DEF WriteEnds, InputLeft, FinishThread
    <3> QED BY <2>2, <3>1, <3>2, <3>3 DEF WriteEnds, InputLeft, controlVars, treeVars, pipeVars, timeVars
  <2>3. CASE s # "stdin" /\ ReadPiece(s)
    <3>1. PICK n \in 1..inPipe[s] :
            /\ inPipe' = [inPipe EXCEPT ![s] = @ - n]
            /\ retained' = [retained EXCEPT ![s] = Retain(s, n)]
            /\ \/ FinishThread(s, "output_limit")
               \/ UNCHANGED <<thread, finished, error>>
      BY <2>3 DEF ReadPiece, Trims, Overflows
    <3>2. inPipe' \in [Streams -> Nat]
      BY <3>1
    <3>3. retained' \in [OutStreams -> Nat]
      BY <2>3, <3>1 DEF Retain, Windowed
    <3>4. /\ thread' \in [Streams -> {"unstarted", "listed", "running", "done"}]
          /\ finished' \subseteq Streams
          /\ error' \in {"none", "output_limit", "read_failed"}
      BY <3>1 DEF FinishThread
    <3>5. stderr_truncated' \in BOOLEAN
      BY <2>3 DEF ReadPiece, Trims, Overflows
    <3> QED BY <2>3, <3>2, <3>3, <3>4, <3>5 DEF ReadPiece, controlVars, treeVars, timeVars
  <2>4. CASE s # "stdin" /\ ReadEof(s)
    BY <2>4 DEF ReadEof, AtEof, FinishThread, controlVars, treeVars, pipeVars, timeVars
  <2>5. CASE s # "stdin" /\ ReadFails(s)
    BY <2>5 DEF ReadFails, FinishThread, controlVars, treeVars, pipeVars, timeVars
  <2> QED BY <1>13, <2>1, <2>2, <2>3, <2>4, <2>5 DEF Thread, ThreadWorks
<1>14. CASE Tree
  <2> PICK p \in Procs : \/ \E s \in OutStreams : ChildWrites(p, s)
                         \/ ChildReads(p)
                         \/ \E s \in Streams : ChildCloses(p, s)
                         \/ \E c \in Descendants : Fork(p, c)
                         \/ Setsid(p)
                         \/ Exit(p)
    BY <1>14 DEF Tree
  <2>1. ASSUME NEW s \in OutStreams, ChildWrites(p, s) PROVE TypeOK'
    BY <2>1 DEF ChildWrites, controlVars, treeVars, ioVars, timeVars
  <2>2. CASE ChildReads(p)
    BY <2>2 DEF ChildReads, controlVars, treeVars, ioVars, timeVars
  <2>3. ASSUME NEW s \in Streams, ChildCloses(p, s) PROVE TypeOK'
    BY <2>3 DEF ChildCloses, controlVars, pipeVars, ioVars, timeVars
  <2>4. ASSUME NEW c \in Descendants, Fork(p, c) PROVE TypeOK'
    BY <2>4 DEF Fork, controlVars, pipeVars, ioVars, timeVars
  <2>5. CASE Setsid(p)
    BY <2>5 DEF Setsid, controlVars, pipeVars, ioVars, timeVars
  <2>6. CASE Exit(p)
    BY <2>6 DEF Exit, controlVars, pipeVars, ioVars, timeVars
  <2> QED BY <2>1, <2>2, <2>3, <2>4, <2>5, <2>6
<1>15. CASE DeadlinePasses
  BY <1>15 DEF DeadlinePasses, controlVars, treeVars, pipeVars, ioVars
<1>16. CASE GracePasses
  BY <1>16 DEF GracePasses, controlVars, treeVars, pipeVars, ioVars
<1>17. CASE ReuseId
  BY <1>17 DEF ReuseId, controlVars, treeVars, pipeVars, ioVars, timeVars
<1>18. CASE UNCHANGED vars
  BY <1>18 DEF vars, controlVars, treeVars, pipeVars, ioVars, timeVars
<1> QED
  BY <1>1, <1>2, <1>3, <1>4, <1>5, <1>6, <1>7, <1>8, <1>9, <1>10, <1>11, <1>12, <1>13,
     <1>14, <1>15, <1>16, <1>17, <1>18 DEF Next, Controller, Returned

\* Every variable always has its type, whatever the child does.
THEOREM TypeCorrect == Spec => []TypeOK
<1>1. Init => TypeOK BY InitIInv DEF IInv
<1> QED BY <1>1, TypeStep, PTL DEF Spec
\* No step gives a call without a child a process, a thread or a finished stream.
LEMMA UnbornStep == IInv /\ [Next]_vars => UnbornInv'
<1> USE TransportAssumption
    DEF TypeOK, UnbornInv, Procs, Streams, OutStreams, Live, CleanupSteps
<1> SUFFICES ASSUME IInv, [Next]_vars PROVE UnbornInv'
  OBVIOUS
<1> USE DEF IInv
<1>1. CASE Validate
  BY <1>1 DEF Validate, Return, GoTo, treeVars, pipeVars, ioVars, timeVars
<1>2. CASE Spawn
  BY <1>2 DEF Spawn, Return, GoTo, pipeVars, ioVars, timeVars
<1>3. CASE Start
  BY <1>3 DEF Start, Raise, GoTo, treeVars, pipeVars, timeVars
<1>4. CASE Snapshot
  BY <1>4 DEF Snapshot, Raise, GoTo, treeVars, pipeVars, ioVars, timeVars
<1>5. CASE Poll
  BY <1>5 DEF Poll, StopsOrphans, Reaped, RootExited, GoTo, pipeVars, ioVars, timeVars
<1>6. CASE StopOrphans
  BY <1>6, KillStep DEF StopOrphans, Raise, GoTo, pipeVars, ioVars, timeVars
<1>7. CASE CheckDeadline
  BY <1>7 DEF CheckDeadline, Raise, GoTo, treeVars, pipeVars, ioVars, timeVars
<1>8. CASE CleanupKill
  BY <1>8, KillStep DEF CleanupKill, Return, GoTo, pipeVars, ioVars, timeVars
<1>9. CASE CleanupWait
  BY <1>9 DEF CleanupWait, Reaped, RootExited, Return, GoTo, pipeVars, ioVars, timeVars
<1>10. CASE CleanupGroup
  BY <1>10 DEF CleanupGroup, GroupEmpty, Return, GoTo, treeVars, pipeVars, ioVars, timeVars
<1>11. CASE CleanupJoin
  BY <1>11 DEF CleanupJoin, Alive, JoinsEnd, Return, GoTo, treeVars, pipeVars, ioVars, timeVars
<1>12. CASE Finish
  BY <1>12 DEF Finish, Answer, Result, Return, treeVars, pipeVars, ioVars, timeVars
<1>13. ASSUME NEW s \in Streams, Thread(s) PROVE UnbornInv'
  <2>1. CASE s = "stdin" /\ WritePiece
    BY <2>1 DEF WritePiece, InputLeft, controlVars, treeVars, ioVars, timeVars
  <2>2. CASE s = "stdin" /\ WriteEnds
    BY <2>2 DEF WriteEnds, InputLeft, FinishThread, controlVars, treeVars, pipeVars, timeVars
  <2>3. CASE s # "stdin" /\ ReadPiece(s)
    BY <2>3 DEF ReadPiece, Overflows, Trims, FinishThread, Retain, Windowed, ReadSize, controlVars, treeVars, timeVars
  <2>4. CASE s # "stdin" /\ ReadEof(s)
    BY <2>4 DEF ReadEof, AtEof, FinishThread, controlVars, treeVars, pipeVars, timeVars
  <2>5. CASE s # "stdin" /\ ReadFails(s)
    BY <2>5 DEF ReadFails, FinishThread, controlVars, treeVars, pipeVars, timeVars
  <2> QED BY <1>13, <2>1, <2>2, <2>3, <2>4, <2>5 DEF Thread, ThreadWorks
<1>14. CASE Tree
  <2> PICK p \in Procs : \/ \E s \in OutStreams : ChildWrites(p, s)
                         \/ ChildReads(p)
                         \/ \E s \in Streams : ChildCloses(p, s)
                         \/ \E c \in Descendants : Fork(p, c)
                         \/ Setsid(p)
                         \/ Exit(p)
    BY <1>14 DEF Tree
  <2>1. ASSUME NEW s \in OutStreams, ChildWrites(p, s) PROVE UnbornInv'
    BY <2>1 DEF ChildWrites, controlVars, treeVars, ioVars, timeVars
  <2>2. CASE ChildReads(p)
    BY <2>2 DEF ChildReads, controlVars, treeVars, ioVars, timeVars
  <2>3. ASSUME NEW s \in Streams, ChildCloses(p, s) PROVE UnbornInv'
    BY <2>3 DEF ChildCloses, controlVars, pipeVars, ioVars, timeVars
  <2>4. ASSUME NEW c \in Descendants, Fork(p, c) PROVE UnbornInv'
    BY <2>4 DEF Fork, controlVars, pipeVars, ioVars, timeVars
  <2>5. CASE Setsid(p)
    BY <2>5 DEF Setsid, controlVars, pipeVars, ioVars, timeVars
  <2>6. CASE Exit(p)
    BY <2>6 DEF Exit, controlVars, pipeVars, ioVars, timeVars
  <2> QED BY <2>1, <2>2, <2>3, <2>4, <2>5, <2>6
<1>15. CASE DeadlinePasses
  BY <1>15 DEF DeadlinePasses, controlVars, treeVars, pipeVars, ioVars
<1>16. CASE GracePasses
  BY <1>16 DEF GracePasses, controlVars, treeVars, pipeVars, ioVars
<1>17. CASE ReuseId
  BY <1>17 DEF ReuseId, controlVars, treeVars, pipeVars, ioVars, timeVars
<1>18. CASE UNCHANGED vars
  BY <1>18 DEF vars, controlVars, treeVars, pipeVars, ioVars, timeVars
<1> QED
  BY <1>1, <1>2, <1>3, <1>4, <1>5, <1>6, <1>7, <1>8, <1>9,
     <1>10, <1>11, <1>12, <1>13, <1>14, <1>15, <1>16, <1>17, <1>18
  DEF Next, Controller, Returned

\* What the cleanup established stays established.
LEMMA StoppedStep == IInv /\ [Next]_vars => StoppedInv'
<1> USE TransportAssumption
    DEF TypeOK, UnbornInv, StoppedInv, Procs, Streams, OutStreams, InGroup, Live, CleanOutcomes, CleanupSteps
<1> SUFFICES ASSUME IInv, [Next]_vars PROVE StoppedInv'
  OBVIOUS
<1> USE DEF IInv
<1>1. CASE Validate
  BY <1>1 DEF Validate, Return, GoTo, treeVars, pipeVars, ioVars, timeVars
<1>2. CASE Spawn
  BY <1>2 DEF Spawn, Return, GoTo, pipeVars, ioVars, timeVars
<1>3. CASE Start
  BY <1>3 DEF Start, Raise, GoTo, treeVars, pipeVars, timeVars
<1>4. CASE Snapshot
  BY <1>4 DEF Snapshot, Raise, GoTo, treeVars, pipeVars, ioVars, timeVars
<1>5. CASE Poll
  BY <1>5 DEF Poll, StopsOrphans, Reaped, RootExited, GoTo, pipeVars, ioVars, timeVars
<1>6. CASE StopOrphans
  BY <1>6, KillStep DEF StopOrphans, Raise, GoTo, pipeVars, ioVars, timeVars
<1>7. CASE CheckDeadline
  BY <1>7 DEF CheckDeadline, Raise, GoTo, treeVars, pipeVars, ioVars, timeVars
<1>8. CASE CleanupKill
  BY <1>8, KillStep DEF CleanupKill, Return, GoTo, pipeVars, ioVars, timeVars
<1>9. CASE CleanupWait
  BY <1>9 DEF CleanupWait, Reaped, RootExited, Return, GoTo, pipeVars, ioVars, timeVars
<1>10. CASE CleanupGroup
  BY <1>10 DEF CleanupGroup, GroupEmpty, Return, GoTo, treeVars, pipeVars, ioVars, timeVars
<1>11. CASE CleanupJoin
  BY <1>11 DEF CleanupJoin, Alive, JoinsEnd, Return, GoTo, treeVars, pipeVars, ioVars, timeVars
<1>12. CASE Finish
  BY <1>12 DEF Finish, Answer, Result, Return, treeVars, pipeVars, ioVars, timeVars
<1>13. ASSUME NEW s \in Streams, Thread(s) PROVE StoppedInv'
  <2>1. CASE s = "stdin" /\ WritePiece
    BY <2>1 DEF WritePiece, InputLeft, controlVars, treeVars, ioVars, timeVars
  <2>2. CASE s = "stdin" /\ WriteEnds
    BY <2>2 DEF WriteEnds, InputLeft, FinishThread, controlVars, treeVars, pipeVars, timeVars
  <2>3. CASE s # "stdin" /\ ReadPiece(s)
    BY <2>3 DEF ReadPiece, Overflows, Trims, FinishThread, Retain, Windowed, ReadSize, controlVars, treeVars, timeVars
  <2>4. CASE s # "stdin" /\ ReadEof(s)
    BY <2>4 DEF ReadEof, AtEof, FinishThread, controlVars, treeVars, pipeVars, timeVars
  <2>5. CASE s # "stdin" /\ ReadFails(s)
    BY <2>5 DEF ReadFails, FinishThread, controlVars, treeVars, pipeVars, timeVars
  <2> QED BY <1>13, <2>1, <2>2, <2>3, <2>4, <2>5 DEF Thread, ThreadWorks
<1>14. CASE Tree
  <2> PICK p \in Procs : \/ \E s \in OutStreams : ChildWrites(p, s)
                         \/ ChildReads(p)
                         \/ \E s \in Streams : ChildCloses(p, s)
                         \/ \E c \in Descendants : Fork(p, c)
                         \/ Setsid(p)
                         \/ Exit(p)
    BY <1>14 DEF Tree
  <2>1. ASSUME NEW s \in OutStreams, ChildWrites(p, s) PROVE StoppedInv'
    BY <2>1 DEF ChildWrites, controlVars, treeVars, ioVars, timeVars
  <2>2. CASE ChildReads(p)
    BY <2>2 DEF ChildReads, controlVars, treeVars, ioVars, timeVars
  <2>3. ASSUME NEW s \in Streams, ChildCloses(p, s) PROVE StoppedInv'
    BY <2>3 DEF ChildCloses, controlVars, pipeVars, ioVars, timeVars
  <2>4. ASSUME NEW c \in Descendants, Fork(p, c) PROVE StoppedInv'
    BY <2>4 DEF Fork, controlVars, pipeVars, ioVars, timeVars
  <2>5. CASE Setsid(p)
    BY <2>5 DEF Setsid, controlVars, pipeVars, ioVars, timeVars
  <2>6. CASE Exit(p)
    BY <2>6 DEF Exit, controlVars, pipeVars, ioVars, timeVars
  <2> QED BY <2>1, <2>2, <2>3, <2>4, <2>5, <2>6
<1>15. CASE DeadlinePasses
  BY <1>15 DEF DeadlinePasses, controlVars, treeVars, pipeVars, ioVars
<1>16. CASE GracePasses
  BY <1>16 DEF GracePasses, controlVars, treeVars, pipeVars, ioVars
<1>17. CASE ReuseId
  BY <1>17 DEF ReuseId, controlVars, treeVars, pipeVars, ioVars, timeVars
<1>18. CASE UNCHANGED vars
  BY <1>18 DEF vars, controlVars, treeVars, pipeVars, ioVars, timeVars
<1> QED
  BY <1>1, <1>2, <1>3, <1>4, <1>5, <1>6, <1>7, <1>8, <1>9,
     <1>10, <1>11, <1>12, <1>13, <1>14, <1>15, <1>16, <1>17, <1>18
  DEF Next, Controller, Returned

\* A finished stream stays complete.
LEMMA PayloadStep == IInv /\ [Next]_vars => PayloadInv'
<1> USE TransportAssumption
    DEF TypeOK, UnbornInv, PayloadInv, StoppedInv, Procs, Streams, OutStreams, Live,
        CleanOutcomes, CleanupSteps, Raisable, argVars
<1> SUFFICES ASSUME IInv, [Next]_vars PROVE PayloadInv'
  OBVIOUS
<1> USE DEF IInv
<1>1. CASE Validate
  BY <1>1 DEF Validate, Return, GoTo, treeVars, pipeVars, ioVars, timeVars
<1>2. CASE Spawn
  BY <1>2 DEF Spawn, Return, GoTo, pipeVars, ioVars, timeVars
<1>3. CASE Start
  <2>1. finished = {}
    BY <1>3 DEF Start
  <2> QED BY <1>3, <2>1 DEF Start, Raise, GoTo, treeVars, pipeVars, timeVars
<1>4. CASE Snapshot
  BY <1>4 DEF Snapshot, Raise, GoTo, treeVars, pipeVars, ioVars, timeVars
<1>5. CASE Poll
  BY <1>5 DEF Poll, StopsOrphans, Reaped, RootExited, GoTo, pipeVars, ioVars, timeVars
<1>6. CASE StopOrphans
  BY <1>6, KillStep DEF StopOrphans, Raise, GoTo, pipeVars, ioVars, timeVars
<1>7. CASE CheckDeadline
  BY <1>7 DEF CheckDeadline, Raise, GoTo, treeVars, pipeVars, ioVars, timeVars
<1>8. CASE CleanupKill
  BY <1>8, KillStep DEF CleanupKill, Return, GoTo, pipeVars, ioVars, timeVars
<1>9. CASE CleanupWait
  BY <1>9 DEF CleanupWait, Reaped, RootExited, Return, GoTo, pipeVars, ioVars, timeVars
<1>10. CASE CleanupGroup
  BY <1>10 DEF CleanupGroup, GroupEmpty, Return, GoTo, treeVars, pipeVars, ioVars, timeVars
<1>11. CASE CleanupJoin
  BY <1>11 DEF CleanupJoin, Alive, JoinsEnd, Return, GoTo, treeVars, pipeVars, ioVars, timeVars
<1>12. CASE Finish
  BY <1>12 DEF Finish, Answer, Result, Return, treeVars, pipeVars, ioVars, timeVars
<1>13. ASSUME NEW s \in Streams, Thread(s) PROVE PayloadInv'
  <2>1. CASE s = "stdin" /\ WritePiece
    BY <2>1 DEF WritePiece, InputLeft, controlVars, treeVars, ioVars, timeVars
  <2>2. CASE s = "stdin" /\ WriteEnds
    BY <2>2 DEF WriteEnds, InputLeft, FinishThread, controlVars, treeVars, pipeVars, timeVars
  <2>3. CASE s # "stdin" /\ ReadPiece(s)
    BY <2>3 DEF ReadPiece, Overflows, Trims, FinishThread, Retain, Windowed, ReadSize, controlVars, treeVars, timeVars
  <2>4. CASE s # "stdin" /\ ReadEof(s)
    BY <2>4 DEF ReadEof, AtEof, FinishThread, controlVars, treeVars, pipeVars, timeVars
  <2>5. CASE s # "stdin" /\ ReadFails(s)
    BY <2>5 DEF ReadFails, FinishThread, controlVars, treeVars, pipeVars, timeVars
  <2> QED BY <1>13, <2>1, <2>2, <2>3, <2>4, <2>5 DEF Thread, ThreadWorks
<1>14. CASE Tree
  <2> PICK p \in Procs : \/ \E s \in OutStreams : ChildWrites(p, s)
                         \/ ChildReads(p)
                         \/ \E s \in Streams : ChildCloses(p, s)
                         \/ \E c \in Descendants : Fork(p, c)
                         \/ Setsid(p)
                         \/ Exit(p)
    BY <1>14 DEF Tree
  <2>1. ASSUME NEW s \in OutStreams, ChildWrites(p, s) PROVE PayloadInv'
    BY <2>1 DEF ChildWrites, controlVars, treeVars, ioVars, timeVars
  <2>2. CASE ChildReads(p)
    BY <2>2 DEF ChildReads, controlVars, treeVars, ioVars, timeVars
  <2>3. ASSUME NEW s \in Streams, ChildCloses(p, s) PROVE PayloadInv'
    BY <2>3 DEF ChildCloses, controlVars, pipeVars, ioVars, timeVars
  <2>4. ASSUME NEW c \in Descendants, Fork(p, c) PROVE PayloadInv'
    BY <2>4 DEF Fork, controlVars, pipeVars, ioVars, timeVars
  <2>5. CASE Setsid(p)
    BY <2>5 DEF Setsid, controlVars, pipeVars, ioVars, timeVars
  <2>6. CASE Exit(p)
    BY <2>6 DEF Exit, controlVars, pipeVars, ioVars, timeVars
  <2> QED BY <2>1, <2>2, <2>3, <2>4, <2>5, <2>6
<1>15. CASE DeadlinePasses
  BY <1>15 DEF DeadlinePasses, controlVars, treeVars, pipeVars, ioVars
<1>16. CASE GracePasses
  BY <1>16 DEF GracePasses, controlVars, treeVars, pipeVars, ioVars
<1>17. CASE ReuseId
  BY <1>17 DEF ReuseId, controlVars, treeVars, pipeVars, ioVars, timeVars
<1>18. CASE UNCHANGED vars
  BY <1>18 DEF vars, controlVars, treeVars, pipeVars, ioVars, timeVars
<1> QED
  BY <1>1, <1>2, <1>3, <1>4, <1>5, <1>6, <1>7, <1>8, <1>9,
     <1>10, <1>11, <1>12, <1>13, <1>14, <1>15, <1>16, <1>17, <1>18
  DEF Next, Controller, Returned

-----------------------------------------------------------------------------
\* The inductive invariant holds in every reachable state.
LEMMA IInvAlways == Spec => []IInv
<1>1. IInv /\ [Next]_vars => IInv'
  <2>1. IInv => TypeOK BY DEF IInv
  <2> QED BY <2>1, TypeStep, UnbornStep, StoppedStep, PayloadStep DEF IInv
<1> QED BY InitIInv, <1>1, PTL DEF Spec

\* A clean outcome leaves no process of the group, no unreaped root and no
\* running I/O thread, however the child forks, escapes, stalls or dies.
THEOREM NothingLeftBehindAlways == Spec => []NothingLeftBehind
<1>1. IInv => NothingLeftBehind
  BY DEF IInv, TypeOK, UnbornInv, StoppedInv, NothingLeftBehind, InGroup, Live, Procs
<1> QED BY <1>1, IInvAlways, PTL

\* A delivered result carries the whole payload, within the cap, and success
\* also the exit status 0 and the whole input.
THEOREM CompleteResultAlways == Spec => []CompleteResult
<1>1. IInv => CompleteResult
  BY TransportAssumption
  DEF IInv, TypeOK, PayloadInv, CompleteResult, Streams, OutStreams
<1> QED BY <1>1, IInvAlways, PTL

-----------------------------------------------------------------------------
\* What the readers keep: the payload goes past its cap by the one probe byte that
\* ends its reader, the diagnostics stay in their window if they have one, and as long
\* as nothing was dropped every byte of them is kept or still in the pipe.
BufferInv ==
  /\ retained["stdout"] <= StdoutCap + 1
  /\ retained["stdout"] > StdoutCap => thread["stdout"] = "done"
  /\ stderrCap # None => retained["stderr"] <= stderrCap
  /\ stderrCap = None \/ ~stderr_truncated =>
       retained["stderr"] + inPipe["stderr"] = sent["stderr"]
  /\ "stderr" \in finished /\ ~stderr_truncated =>
       holds["stderr"] = {} /\ inPipe["stderr"] = 0

\* A reader keeps it.
LEMMA ReadBuffers ==
  ASSUME TypeOK, PayloadInv, BufferInv, NEW s \in OutStreams, ReadPiece(s)
  PROVE  BufferInv'
<1> USE TransportAssumption DEF TypeOK, BufferInv, Streams, OutStreams
<1>0. stderrCap' = stderrCap /\ (stderrCap # None => stderrCap \in Nat)
  BY DEF ReadPiece, argVars
<1>1. PICK n \in 1..inPipe[s] :
        /\ n <= ReadSize(s)
        /\ inPipe' = [inPipe EXCEPT ![s] = @ - n]
        /\ retained' = [retained EXCEPT ![s] = Retain(s, n)]
        /\ stderr_truncated' = (stderr_truncated \/ Trims(s, n))
        /\ IF Overflows(s, n) THEN FinishThread(s, "output_limit")
           ELSE UNCHANGED <<thread, finished, error>>
  BY DEF ReadPiece
<1>2. thread[s] = "running" /\ UNCHANGED <<sent, holds>>
  BY DEF ReadPiece, treeVars
<1>3. s \notin finished
  BY <1>2 DEF PayloadInv
<1>4. CASE s = "stdout"
  <2>1. /\ retained'["stdout"] = retained["stdout"] + n
        /\ retained'["stdout"] <= StdoutCap + 1
        /\ UNCHANGED <<retained["stderr"], inPipe["stderr"]>>
    BY <1>1, <1>4 DEF Retain, Windowed, ReadSize
  <2>2. stderr_truncated' = stderr_truncated
    BY <1>1, <1>4 DEF Trims, Windowed
  <2>3. retained'["stdout"] > StdoutCap => thread'["stdout"] = "done"
    BY <1>1, <1>4, <2>1 DEF Overflows, FinishThread
  <2>4. "stderr" \in finished' => "stderr" \in finished
    BY <1>1, <1>4 DEF FinishThread
  <2> QED
    BY <1>0, <1>2, <2>1, <2>2, <2>3, <2>4
<1>5. CASE s = "stderr"
  <2>1. /\ retained'["stderr"] = Retain("stderr", n)
        /\ inPipe'["stderr"] = inPipe["stderr"] - n
        /\ UNCHANGED <<retained["stdout"], thread, finished>>
    BY <1>1, <1>5 DEF Overflows
  <2>2. stderrCap # None => retained'["stderr"] <= stderrCap
    BY <1>0, <1>1, <2>1 DEF Retain, Windowed
  <2>3. ~stderr_truncated' => ~stderr_truncated /\ Retain("stderr", n) = retained["stderr"] + n
    BY <1>0, <1>1, <1>5 DEF Trims, Retain, Windowed
  <2>4. stderrCap = None => Retain("stderr", n) = retained["stderr"] + n
    BY DEF Retain, Windowed
  <2>5. stderrCap = None \/ ~stderr_truncated' =>
          retained'["stderr"] + inPipe'["stderr"] = sent["stderr"]
    BY <1>1, <2>1, <2>3, <2>4
  <2>6. "stderr" \notin finished'
    BY <1>3, <1>5, <2>1
  <2>7. retained'["stdout"] = retained["stdout"] /\ thread' = thread
    BY <2>1
  <2> QED
    BY <1>0, <1>2, <2>2, <2>5, <2>6, <2>7
<1> QED
  BY <1>4, <1>5 DEF OutStreams

\* The steps of the call, its threads and its tree keep it.
LEMMA BufferStep == IInv /\ BufferInv /\ [Next]_vars => BufferInv'
<1> USE TransportAssumption
    DEF TypeOK, BufferInv, Procs, Streams, OutStreams, controlVars, argVars
<1> SUFFICES ASSUME IInv, BufferInv, [Next]_vars PROVE BufferInv'
  OBVIOUS
<1> USE DEF IInv
<1>1. CASE Validate \/ Snapshot \/ Poll \/ CheckDeadline
  BY <1>1 DEF Validate, Snapshot, Poll, CheckDeadline, treeVars, pipeVars, ioVars
<1>2. CASE Spawn
  BY <1>2 DEF Spawn, UnbornInv, pipeVars, ioVars
<1>3. CASE Start
  <2>1. thread["stdout"] = "unstarted"
    BY <1>3 DEF Start, UnbornInv
  <2>2. UNCHANGED <<retained, inPipe, sent, stderr_truncated, holds>>
    BY <1>3 DEF Start, treeVars, pipeVars
  <2>3. "stderr" \notin finished'
    BY <1>3 DEF Start, UnbornInv, Raise
  <2>4. stderrCap' = stderrCap
    BY <1>3 DEF Start
  <2> QED
    BY <2>1, <2>2, <2>3, <2>4
<1>4. CASE StopOrphans \/ CleanupKill \/ CleanupWait \/ CleanupGroup \/ CleanupJoin \/ Finish
  BY <1>4 DEF StopOrphans, CleanupKill, CleanupWait, CleanupGroup, CleanupJoin, Finish, treeVars,
     pipeVars, ioVars
<1>5. ASSUME NEW s \in Streams, Thread(s) PROVE BufferInv'
  <2>1. CASE s = "stdin" /\ WritePiece
    BY <2>1 DEF WritePiece, treeVars, ioVars
  <2>2. CASE s = "stdin" /\ WriteEnds
    BY <2>2 DEF WriteEnds, FinishThread, treeVars, pipeVars
  <2>3. CASE s # "stdin" /\ ReadPiece(s)
    BY <2>3, ReadBuffers
  <2>4. CASE s # "stdin" /\ ReadEof(s)
    BY <2>4 DEF ReadEof, AtEof, FinishThread, treeVars, pipeVars
  <2>5. CASE s # "stdin" /\ ReadFails(s)
    BY <2>5 DEF ReadFails, FinishThread, treeVars, pipeVars
  <2> QED
    BY <1>5, <2>1, <2>2, <2>3, <2>4, <2>5 DEF Thread, ThreadWorks
<1>6. CASE Tree
  <2> PICK p \in Procs : \/ \E s \in OutStreams : ChildWrites(p, s)
                         \/ ChildReads(p)
                         \/ \E s \in Streams : ChildCloses(p, s)
                         \/ \E c \in Descendants : Fork(p, c)
                         \/ Setsid(p)
                         \/ Exit(p)
    BY <1>6 DEF Tree
  <2>1. ASSUME NEW s \in OutStreams, ChildWrites(p, s) PROVE BufferInv'
    BY <2>1 DEF ChildWrites, treeVars, ioVars
  <2>2. CASE ChildReads(p)
    BY <2>2 DEF ChildReads, treeVars, ioVars
  <2>3. ASSUME NEW s \in Streams, ChildCloses(p, s) PROVE BufferInv'
    BY <2>3 DEF ChildCloses, pipeVars, ioVars
  <2>4. ASSUME NEW c \in Descendants, Fork(p, c) PROVE BufferInv'
    BY <2>4 DEF Fork, pipeVars, ioVars
  <2>5. CASE Setsid(p)
    BY <2>5 DEF Setsid, pipeVars, ioVars
  <2>6. CASE Exit(p)
    BY <2>6 DEF Exit, pipeVars, ioVars
  <2> QED
    BY <2>1, <2>2, <2>3, <2>4, <2>5, <2>6
<1>7. CASE DeadlinePasses \/ GracePasses \/ ReuseId \/ UNCHANGED vars
  BY <1>7 DEF DeadlinePasses, GracePasses, ReuseId, vars, treeVars, pipeVars, ioVars
<1> QED
  BY <1>1, <1>2, <1>3, <1>4, <1>5, <1>6, <1>7 DEF Next, Controller, Returned

\* It holds in every reachable state.
LEMMA BufferAlways == Spec => []BufferInv
<1>1. Init => BufferInv
  <2> SUFFICES ASSUME Init PROVE BufferInv
    OBVIOUS
  <2>1. stderrCap # None => stderrCap \in Nat
    BY TransportAssumption DEF Init
  <2> QED
    BY <2>1, TransportAssumption DEF Init, BufferInv, Streams, OutStreams
<1> QED
  BY <1>1, BufferStep, IInvAlways, PTL DEF Spec

\* The memory held for a child whose caller asked for a window is bounded, however
\* much it writes and in whatever pieces its output arrives; a caller that asked for
\* the whole diagnostic stream (None) has every byte that was read of it.
THEOREM BoundedMemoryAlways == Spec => []BoundedMemory
<1>1. BufferInv => BoundedMemory
  BY DEF BufferInv, BoundedMemory
<1> QED
  BY <1>1, BufferAlways, PTL

\* A delivered result that does not say that its diagnostics were truncated has all
\* of them, whichever thread ended first and whatever went wrong in a reader.
THEOREM HonestTruncationAlways == Spec => []HonestTruncation
<1>1. IInv /\ BufferInv => HonestTruncation
  <2> SUFFICES ASSUME IInv, BufferInv, outcome \in {"ok", "child_failed"}, ~stderr_truncated
               PROVE  retained["stderr"] = sent["stderr"]
    BY DEF HonestTruncation
  <2>1. "stderr" \in finished
    BY DEF IInv, PayloadInv, Streams, OutStreams
  <2> QED
    BY <2>1 DEF IInv, TypeOK, BufferInv, Streams, OutStreams
<1> QED
  BY <1>1, IInvAlways, BufferAlways, PTL

\* The control facts a refinement needs: "done" is final, only Return sets the
\* outcome, and a root that was started stays started.
LEMMA ControlStep ==
  ASSUME IInv, [Next]_vars
  PROVE  /\ pc = "done" => pc' = "done" /\ outcome' = outcome
         /\ pc' # "done" => outcome' = outcome
         /\ proc[Root] # "unborn" => proc'[Root] # "unborn"
<1> DEFINE Goal == /\ pc = "done" => pc' = "done" /\ outcome' = outcome
                   /\ pc' # "done" => outcome' = outcome
                   /\ proc[Root] # "unborn" => proc'[Root] # "unborn"
<1> USE DEF IInv, TypeOK, Procs
<1>1. CASE Validate
  BY <1>1 DEF Validate, Return, GoTo, treeVars, pipeVars, ioVars, timeVars
<1>2. CASE Spawn
  BY <1>2 DEF Spawn, Return, GoTo, pipeVars, ioVars, timeVars
<1>3. CASE Start
  BY <1>3 DEF Start, Raise, GoTo, treeVars, pipeVars, timeVars
<1>4. CASE Snapshot
  BY <1>4 DEF Snapshot, Raise, GoTo, treeVars, pipeVars, ioVars, timeVars
<1>5. CASE Poll
  BY <1>5 DEF Poll, StopsOrphans, Reaped, RootExited, GoTo, pipeVars, ioVars, timeVars
<1>6. CASE StopOrphans
  BY <1>6, KillStep DEF StopOrphans, Raise, GoTo, pipeVars, ioVars, timeVars
<1>7. CASE CheckDeadline
  BY <1>7 DEF CheckDeadline, Raise, GoTo, treeVars, pipeVars, ioVars, timeVars
<1>8. CASE CleanupKill
  BY <1>8, KillStep DEF CleanupKill, Return, GoTo, pipeVars, ioVars, timeVars
<1>9. CASE CleanupWait
  BY <1>9 DEF CleanupWait, Reaped, RootExited, Return, GoTo, pipeVars, ioVars, timeVars
<1>10. CASE CleanupGroup
  BY <1>10 DEF CleanupGroup, GroupEmpty, Return, GoTo, treeVars, pipeVars, ioVars, timeVars
<1>11. CASE CleanupJoin
  BY <1>11 DEF CleanupJoin, Alive, JoinsEnd, Return, GoTo, treeVars, pipeVars, ioVars, timeVars
<1>12. CASE Finish
  BY <1>12 DEF Finish, Answer, Result, Return, treeVars, pipeVars, ioVars, timeVars
<1>13. ASSUME NEW s \in Streams, Thread(s) PROVE Goal
  <2>1. CASE s = "stdin" /\ WritePiece
    BY <2>1 DEF WritePiece, InputLeft, controlVars, treeVars, ioVars, timeVars
  <2>2. CASE s = "stdin" /\ WriteEnds
    BY <2>2 DEF WriteEnds, InputLeft, FinishThread, controlVars, treeVars, pipeVars, timeVars
  <2>3. CASE s # "stdin" /\ ReadPiece(s)
    BY <2>3 DEF ReadPiece, Overflows, Trims, FinishThread, Retain, Windowed, ReadSize, controlVars, treeVars, timeVars
  <2>4. CASE s # "stdin" /\ ReadEof(s)
    BY <2>4 DEF ReadEof, AtEof, FinishThread, controlVars, treeVars, pipeVars, timeVars
  <2>5. CASE s # "stdin" /\ ReadFails(s)
    BY <2>5 DEF ReadFails, FinishThread, controlVars, treeVars, pipeVars, timeVars
  <2> QED BY <1>13, <2>1, <2>2, <2>3, <2>4, <2>5 DEF Thread, ThreadWorks
<1>14. CASE Tree
  <2> PICK p \in Procs : \/ \E s \in OutStreams : ChildWrites(p, s)
                         \/ ChildReads(p)
                         \/ \E s \in Streams : ChildCloses(p, s)
                         \/ \E c \in Descendants : Fork(p, c)
                         \/ Setsid(p)
                         \/ Exit(p)
    BY <1>14 DEF Tree
  <2>1. ASSUME NEW s \in OutStreams, ChildWrites(p, s) PROVE Goal
    BY <2>1 DEF ChildWrites, controlVars, treeVars, ioVars, timeVars
  <2>2. CASE ChildReads(p)
    BY <2>2 DEF ChildReads, controlVars, treeVars, ioVars, timeVars
  <2>3. ASSUME NEW s \in Streams, ChildCloses(p, s) PROVE Goal
    BY <2>3 DEF ChildCloses, controlVars, pipeVars, ioVars, timeVars
  <2>4. ASSUME NEW c \in Descendants, Fork(p, c) PROVE Goal
    BY <2>4 DEF Fork, controlVars, pipeVars, ioVars, timeVars
  <2>5. CASE Setsid(p)
    BY <2>5 DEF Setsid, controlVars, pipeVars, ioVars, timeVars
  <2>6. CASE Exit(p)
    BY <2>6 DEF Exit, controlVars, pipeVars, ioVars, timeVars
  <2> QED BY <2>1, <2>2, <2>3, <2>4, <2>5, <2>6
<1>15. CASE DeadlinePasses
  BY <1>15 DEF DeadlinePasses, controlVars, treeVars, pipeVars, ioVars
<1>16. CASE GracePasses
  BY <1>16 DEF GracePasses, controlVars, treeVars, pipeVars, ioVars
<1>17. CASE ReuseId
  BY <1>17 DEF ReuseId, controlVars, treeVars, pipeVars, ioVars, timeVars
<1>18. CASE UNCHANGED vars
  BY <1>18 DEF vars, controlVars, treeVars, pipeVars, ioVars, timeVars
<1> QED
  BY <1>1, <1>2, <1>3, <1>4, <1>5, <1>6, <1>7, <1>8, <1>9,
     <1>10, <1>11, <1>12, <1>13, <1>14, <1>15, <1>16, <1>17, <1>18
  DEF Next, Controller, Returned

\* The transport implements the abstract call that its callers rely on.
THEOREM Refinement == Spec => ImplementsCall
<1> DEFINE working == InGroup \cup {s \in Streams : thread[s] = "running"}
<1>1. Init => Call!Init
  BY DEF Init, Call!Init, InGroup, Live, Procs, Streams
<1>2. ASSUME IInv, IInv', [Next]_vars PROVE [Call!Next]_(Call!callVars)
  <2>1. working \in SUBSET (Procs \cup Streams) /\ working' \in SUBSET (Procs \cup Streams)
    BY DEF InGroup
  <2>2. /\ outcome' \in Outcomes
        /\ outcome \in CleanOutcomes => working = {}
        /\ outcome' \in CleanOutcomes => working' = {}
    BY <1>2 DEF IInv, TypeOK, UnbornInv, StoppedInv, InGroup, Live, Procs
  <2>3. /\ proc[Root] = "unborn" => working = {}
        /\ proc'[Root] = "unborn" => working' = {}
    BY <1>2 DEF IInv, UnbornInv, InGroup, Live
  <2> HIDE DEF working
  <2>4. CASE pc = "done"
    <3>1. pc' = "done" /\ outcome' = outcome
      BY <1>2, <2>4, ControlStep
    <3>2. CASE outcome \in CleanOutcomes
      BY <2>2, <2>4, <3>1, <3>2 DEF Call!callVars, working
    <3>3. CASE outcome \notin CleanOutcomes
      BY <2>1, <2>4, <3>1, <3>3 DEF Call!Next, Call!Leftovers, working
    <3> QED BY <3>2, <3>3
  <2>5. CASE pc # "done" /\ pc' = "done"
    BY <2>1, <2>2, <2>5 DEF Call!Next, Call!Return, working
  <2>6. CASE pc # "done" /\ pc' # "done"
    <3>1. outcome' = outcome /\ (proc[Root] # "unborn" => proc'[Root] # "unborn")
      BY <1>2, <2>6, ControlStep
    <3>2. CASE proc'[Root] = "unborn"
      BY <2>3, <2>6, <3>1, <3>2 DEF Call!callVars, working
    <3>3. CASE proc'[Root] # "unborn"
      BY <2>1, <2>6, <3>1, <3>3 DEF Call!Next, Call!Work, working
    <3> QED BY <3>2, <3>3
  <2> QED BY <2>4, <2>5, <2>6
<1> QED BY <1>1, <1>2, IInvAlways, PTL DEF Spec, ImplementsCall, Call!Spec
=============================================================================
