------------------------------- MODULE MatrixRun -------------------------------
(***************************************************************************)
(* One batch of the offline contract matrix: main and run_case_group of    *)
(* tools/offline_contract_matrix/cli_main.py with the deadlines of run.py  *)
(* and runtime.py and the verdict of oracle.py.  Worker groups (threads)   *)
(* run disjoint cases under one absolute deadline; then the sources are    *)
(* proved afresh, the scratch is removed and a report is written.          *)
(*                                                                         *)
(* Time is whole units and passes only while a thread waits for a child    *)
(* process (or for a directory to be removed): every other step is short.  *)
(* A child started through run_process is a BoundedCall: it is over by its *)
(* deadline plus Grace.                                                    *)
(***************************************************************************)
EXTENDS CaseScheduling

CONSTANTS
  Workers,       \* the number of worker groups
  Base,          \* the required cases (numbers)
  Supplemental,  \* the cases that only a selection runs
  Selections,    \* what --cases may name; {} stands for no selection
  Runs,          \* case -> how many filing-fetch runs it has to make
  Probing,       \* supplemental cases that read a source back after their first run
  Paired,        \* supplemental cases that start their first two runs at once
  Documents,     \* documents that the cases refer to
  Refers,        \* case -> the documents it is answered with
  BatchDeadline, CaseTimeout, Reserve,  \* BATCH_DEADLINE, CASE_TIMEOUT, PROOF_RESERVE_SECONDS
  ProbeTimeout,  \* timeout_seconds of probe_catalog
  Grace,         \* how long a child may take to be stopped
  CleanupTime    \* how long the removal of the scratch may take

Known  == Base \cup Supplemental
Groups == 1..Workers

ASSUME MatrixAssumption ==
  /\ Workers \in Nat \ {0}
  /\ Base \subseteq Nat /\ Supplemental \subseteq Nat
  /\ Base \cap Supplemental = {} /\ IsFiniteSet(Known)
  /\ Selections \subseteq SUBSET Known
  /\ Runs \in [Known -> Nat \ {0}]
  /\ Probing \subseteq Supplemental /\ Paired \subseteq Supplemental
  /\ Probing \cap Paired = {} /\ \A c \in Paired : Runs[c] >= 2
  /\ Refers \in [Known -> SUBSET Documents]
  /\ {BatchDeadline, CaseTimeout, Reserve, ProbeTimeout, Grace, CleanupTime} \subseteq Nat
  /\ Reserve < BatchDeadline

AssignedToAll(cases) ==
  [g \in Groups |-> AssignGroups([c \in Known |-> StaticCost(Runs[c])], cases, 1)[1]]

\* The cases of each group, by their static costs.
Assigned(cases) == AssignGroups([c \in Known |-> StaticCost(Runs[c])], cases, Workers)

VARIABLES
  now,        \* time.monotonic() - start
  selected,   \* the selection, or {}
  pc,         \* where main is
  limit,      \* by when the child or the removal that main waits for is over, or 0
  bound,      \* binding["verified"]
  error,      \* main caught an exception
  lost,       \* ... that left `results` empty
  gpc,        \* where each group is
  queue,      \* the cases a group has left; the first is the current one
  start,      \* case_start of the current case, or 0
  window,     \* ctx.deadline of the current case, or 0
  until,      \* by when the child that the group waits for is over, or 0
  ran,        \* case -> len(ctx.traces[case])
  done,       \* case -> its result once it is in `done`
  proving,    \* the group whose sources are proved
  parts,      \* proofs["worker_groups"]: group -> document -> proof
  merged,     \* proofs["proofs"]: document -> proof
  crashed,    \* the bookkeeping of the finally block raised
  restored,   \* restore["restored"]
  rows,       \* the report: case -> result
  exit,       \* the exit code
  leaked      \* cases with a child that nobody waits for

groupVars  == <<gpc, queue, start, window, until, ran, done, leaked>>
proofVars  == <<proving, parts, merged>>
reportVars == <<restored, rows, exit>>
vars == <<now, selected, pc, limit, bound, error, lost, crashed,
          groupVars, proofVars, reportVars>>

Results == {"PASS", "FAIL", "PARTIAL"}
\* What a proof says of a document: no row, not verified, or verified with one
\* of two values of the facts that two groups have to agree on.
Verified == {"factsA", "factsB"}
Proofs == {"none", "bad"} \cup Verified

Least(a, b) == IF a < b THEN a ELSE b

\* The registry that main runs, and the cases that get a row.
RegistryOf(selection) == IF selection = {} THEN Base ELSE selection
Registry == RegistryOf(selected)
Reported == IF selected = {} THEN Base ELSE Known

Current(g) == Head(queue[g])
GroupOver  == {"joined", "raised"}
MainOver   == {"done", "died"}

Init ==
  /\ now = 0 /\ selected \in Selections
  /\ pc = "bind" /\ limit = BatchDeadline + Grace
  /\ bound = FALSE /\ error = FALSE /\ lost = FALSE /\ crashed = FALSE
  /\ gpc = [g \in Groups |-> "idle"]
  /\ queue = [g \in Groups |-> <<>>]
  /\ start = [g \in Groups |-> 0]
  /\ window = [g \in Groups |-> 0]
  /\ until = [g \in Groups |-> 0]
  /\ ran = [c \in Known |-> 0]
  /\ done = [c \in Known |-> "NOT_RUN"]
  /\ leaked = {}
  /\ proving = 0
  /\ parts = [g \in Groups |-> [d \in Documents |-> "none"]]
  /\ merged = [d \in Documents |-> "none"]
  /\ restored = FALSE
  /\ rows = [c \in Known |-> "none"]
  /\ exit = "none"

-----------------------------------------------------------------------------
(* main, up to the worker groups *)

\* An exception of the try block: the finally block is next.
Fails(losing) == error' = TRUE /\ lost' = losing /\ pc' = "finish"

\* The binding probe answers.  Unverified code ends the batch; otherwise every
\* group is submitted and begins with its seed helper, which an expired deadline
\* refuses.
Bind ==
  /\ pc = "bind" /\ limit' = 0
  /\ \/ /\ Fails(FALSE)
        /\ UNCHANGED <<bound, gpc, queue, until>>
     \/ /\ bound' = TRUE
        /\ pc' = "run"
        /\ queue' = Assigned(Registry)
        /\ gpc' = [g \in Groups |-> IF now < BatchDeadline THEN "seed" ELSE "raised"]
        /\ until' = [g \in Groups |-> IF now < BatchDeadline THEN BatchDeadline + Grace ELSE 0]
        /\ UNCHANGED <<error, lost>>
  /\ UNCHANGED <<now, selected, crashed, start, window, ran, done, leaked,
                 proofVars, reportVars>>

-----------------------------------------------------------------------------
(* run_case_group *)

\* A step of group g that ends or starts no case.
GroupMoves(g, place) ==
  /\ gpc' = [gpc EXCEPT ![g] = place]
  /\ UNCHANGED <<now, selected, pc, limit, bound, error, lost, crashed, proofVars, reportVars>>

\* seed_all: the seed helper, then the scan, both against the deadline of the
\* batch.  An exception leaves the group.
Seed(g) ==
  /\ gpc[g] \in {"seed", "scan"}
  /\ \/ gpc[g] = "seed" /\ now < BatchDeadline /\ GroupMoves(g, "scan") /\ UNCHANGED until
     \/ gpc[g] = "scan" /\ GroupMoves(g, "next") /\ until' = [until EXCEPT ![g] = 0]
     \/ GroupMoves(g, "raised") /\ until' = [until EXCEPT ![g] = 0]
  /\ UNCHANGED <<queue, start, window, ran, done, leaked>>

ReserveReached == now >= BatchDeadline - Reserve

\* No case is left, or the rest has to stay NOT_RUN.
LeaveLoop(g) ==
  /\ gpc[g] = "next" /\ (queue[g] = <<>> \/ ReserveReached)
  /\ GroupMoves(g, "joined")
  /\ UNCHANGED <<queue, start, window, until, ran, done, leaked>>

CaseWindowUnreserved == Least(BatchDeadline, now + CaseTimeout)

\* begin_case
CaseWindow == Least(Least(BatchDeadline, now + CaseTimeout), BatchDeadline - Reserve)

BeginCase(g) ==
  /\ gpc[g] = "next" /\ queue[g] # <<>> /\ ~ReserveReached
  /\ start' = [start EXCEPT ![g] = now]
  /\ window' = [window EXCEPT ![g] = CaseWindow]
  /\ GroupMoves(g, "case")
  /\ UNCHANGED <<queue, until, ran, done, leaked>>

\* A case that took too long has no verdict of its own.
Verdict(g, result) == IF now - start[g] > CaseTimeout THEN "PARTIAL" ELSE result

CaseForgotten(g) ==
  /\ start' = [start EXCEPT ![g] = 0]
  /\ window' = [window EXCEPT ![g] = 0]
  /\ until' = [until EXCEPT ![g] = 0]

\* The current case of g is over with this result.
CaseOver(g, result) ==
  /\ done' = [done EXCEPT ![Current(g)] = Verdict(g, result)]
  /\ queue' = [queue EXCEPT ![g] = Tail(@)]
  /\ GroupMoves(g, IF now >= BatchDeadline THEN "joined" ELSE "next")
  /\ CaseForgotten(g)

\* The group waits at this place, for a child until then (or for nothing: 0).
Waits(g, place, by) ==
  /\ until' = [until EXCEPT ![g] = by]
  /\ GroupMoves(g, place)
  /\ UNCHANGED <<queue, start, window, done>>

\* The case starts its next filing-fetch.  run_ff asks for the time that is left
\* before it starts a child, launch_ff_run after it has started one.
StartRun(g) ==
  /\ gpc[g] = "case" /\ ran[Current(g)] < Runs[Current(g)]
  /\ IF now < window[g]
     THEN Waits(g, "child", window[g] + Grace) /\ UNCHANGED leaked
     ELSE /\ leaked' = IF Current(g) \in Supplemental THEN leaked \cup {Current(g)} ELSE leaked
          /\ CaseOver(g, "PARTIAL")
  /\ UNCHANGED ran

\* How many runs the child that is waited for stands for.
Together(c) == IF c \in Paired /\ ran[c] = 0 THEN 2 ELSE 1

\* The run is over and has its trace: the child ended, or launch_ff_run killed it.
RunEnds(g) ==
  LET c == Current(g) IN
  /\ gpc[g] = "child"
  /\ ran' = [ran EXCEPT ![c] = @ + Together(c)]
  /\ \/ Waits(g, "case", 0)
     \/ c \in Probing /\ ran[c] = 0 /\ Waits(g, "probe", now + ProbeTimeout)
  /\ UNCHANGED leaked

\* run_ff gives up at its deadline.
RunTimesOut(g) ==
  /\ gpc[g] = "child" /\ Current(g) \in Base /\ now >= window[g]
  /\ CaseOver(g, "PARTIAL")
  /\ UNCHANGED <<ran, leaked>>

\* Any other exception of a case.
CaseRaises(g) ==
  /\ gpc[g] \in {"case", "child"}
  /\ CaseOver(g, "FAIL")
  /\ UNCHANGED <<ran, leaked>>

\* The first of two concurrent runs raised after the second had its trace: the
\* empty trace in front of it is read outside the try block, and the group ends.
TraceHole(g) ==
  /\ gpc[g] = "child" /\ Together(Current(g)) = 2
  /\ GroupMoves(g, "raised") /\ CaseForgotten(g)
  /\ UNCHANGED <<queue, ran, done, leaked>>

\* probe_catalog answers or is stopped; it raises nothing.
ProbeEnds(g) ==
  /\ gpc[g] = "probe"
  /\ Waits(g, "case", 0)
  /\ UNCHANGED <<ran, leaked>>

\* The case has made its runs and judges them.
Judge(g) ==
  /\ gpc[g] = "case" /\ ran[Current(g)] = Runs[Current(g)]
  /\ \E result \in Results :
       /\ Current(g) \in Supplemental => result # "PARTIAL"
       /\ CaseOver(g, result)
  /\ UNCHANGED <<ran, leaked>>

Group(g) ==
  \/ Seed(g) \/ LeaveLoop(g) \/ BeginCase(g) \/ StartRun(g) \/ RunEnds(g)
  \/ RunTimesOut(g) \/ CaseRaises(g) \/ TraceHole(g) \/ ProbeEnds(g) \/ Judge(g)

-----------------------------------------------------------------------------
(* main, from the end of the groups *)

StartProofRenewed(g) ==
  /\ pc' = "prove" /\ proving' = g /\ limit' = now + BatchDeadline + Grace
  /\ UNCHANGED <<error, lost>>

\* The reader of group g is started, if there is time left.
StartProof(g) ==
  IF now < BatchDeadline
  THEN /\ pc' = "prove" /\ proving' = g /\ limit' = BatchDeadline + Grace
       /\ UNCHANGED <<error, lost>>
  ELSE /\ Fails(FALSE) /\ UNCHANGED <<proving, limit>>

\* Leaving the pool waits for every group; the exception of one leaves no results.
Join ==
  /\ pc = "run" /\ \A g \in Groups : gpc[g] \in GroupOver
  /\ IF \E g \in Groups : gpc[g] = "raised"
     THEN Fails(TRUE) /\ UNCHANGED <<proving, limit>>
     ELSE StartProof(1)
  /\ UNCHANGED <<now, selected, bound, crashed, groupVars, parts, merged, reportVars>>

\* The documents that the traces of a group refer to.
Mine(g) == Assigned(Registry)[g]
Wanted(g) == UNION {Refers[c] : c \in {Mine(g)[i] : i \in {j \in DOMAIN Mine(g) : ran[Mine(g)[j]] > 0}}}

MergeFirst(old, new) == IF old = "none" THEN new ELSE old

\* A document that two groups prove has to verify in both, with the same facts.
Merge(old, new) ==
  IF old = "none" THEN new
  ELSE IF new = "none" \/ old = new THEN old
  ELSE "bad"

ProofEnds ==
  /\ pc = "prove"
  /\ \/ /\ Fails(FALSE)
        /\ UNCHANGED <<parts, merged, proving, limit>>
     \/ \E row \in [Wanted(proving) -> Proofs \ {"none"}] :
          LET part == [d \in Documents |-> IF d \in Wanted(proving) THEN row[d] ELSE "none"]
          IN  /\ parts' = [parts EXCEPT ![proving] = part]
              /\ merged' = [d \in Documents |-> Merge(merged[d], part[d])]
              /\ IF proving < Workers THEN StartProof(proving + 1)
                 ELSE pc' = "finish" /\ UNCHANGED <<proving, limit, error, lost>>
  /\ UNCHANGED <<now, selected, bound, crashed, groupVars, reportVars>>

\* The finally block: first the bookkeeping, which reads files and may raise, ...
Bookkeeping ==
  /\ pc = "finish"
  /\ crashed' \in BOOLEAN
  /\ pc' = "cleanup" /\ limit' = now + CleanupTime
  /\ UNCHANGED <<now, selected, bound, error, lost, groupVars, proofVars, reportVars>>

\* ... then, whatever that did, the cleanup.  It raises when the scratch cannot be
\* removed, and says whether everything else is as it was before.
Cleanup ==
  /\ pc = "cleanup"
  /\ limit' = 0
  /\ \/ restored' \in BOOLEAN /\ pc' = IF crashed THEN "died" ELSE "report"
     \/ pc' = "died" /\ UNCHANGED restored
  /\ exit' = IF pc' = "died" THEN "failure" ELSE "none"
  /\ UNCHANGED <<now, selected, bound, error, lost, crashed, groupVars, proofVars, rows>>

-----------------------------------------------------------------------------
(* The report *)

\* `results`, and the rows that are added for cases without one.
Result(c) == IF lost THEN "NOT_RUN" ELSE done[c]
Traces(c) == IF lost THEN 0 ELSE ran[c]

\* Files of evidence that are not bound, or a document without a good proof.
Unproved(c) == Traces(c) = 0 \/ \E d \in Refers[c] : merged[d] \notin Verified

\* Findings of the audit about one case that was to run, and about the batch.
CaseFinding(c) == Result(c) # "PASS" \/ Traces(c) # Runs[c] \/ Unproved(c)
BatchFinding == ~bound \/ ~restored \/ now > BatchDeadline

Row(c) == IF Result(c) = "PASS" /\ Unproved(c) THEN "PARTIAL" ELSE Result(c)

\* `flawed` is any finding on what the model has no data for: assertions about
\* the answers, evidence of the layers, network attempts.
Report ==
  /\ pc = "report"
  /\ rows' = [c \in Known |-> IF c \in Reported THEN Row(c) ELSE "none"]
  /\ \E flawed \in BOOLEAN :
       exit' = IF /\ Registry # {} /\ \A c \in Registry : Row(c) = "PASS"
                  /\ ~flawed /\ ~BatchFinding /\ \A c \in Registry : ~CaseFinding(c)
                  /\ ~error
               THEN "success" ELSE "failure"
  /\ pc' = "done"
  /\ UNCHANGED <<now, selected, limit, bound, error, lost, crashed, groupVars,
                 proofVars, restored>>

Main == Bind \/ Join \/ ProofEnds \/ Bookkeeping \/ Cleanup \/ Report

-----------------------------------------------------------------------------
(* Time, and the children that nobody waits for *)

WaitingPlaces == {"idle", "seed", "scan", "child", "probe", "joined", "raised"}
Waiting(g) == gpc[g] \in {"seed", "scan", "child", "probe"}

\* Time passes while everybody waits, and never past the end of a wait.
Tick ==
  /\ pc \in {"bind", "run", "prove", "cleanup"}
  /\ pc = "run" => \E g \in Groups : Waiting(g)
  /\ \A g \in Groups : gpc[g] \in WaitingPlaces /\ (Waiting(g) => now < until[g])
  /\ pc # "run" => now < limit
  /\ now' = now + 1
  /\ UNCHANGED <<selected, pc, limit, bound, error, lost, crashed, groupVars,
                 proofVars, reportVars>>

\* A child without an owner ends when it likes.
LeakedEnds ==
  /\ \E c \in leaked : leaked' = leaked \ {c}
  /\ UNCHANGED <<now, selected, pc, limit, bound, error, lost, crashed, gpc, queue,
                 start, window, until, ran, done, proofVars, reportVars>>

Done == pc \in MainOver /\ UNCHANGED vars

Next == Main \/ (\E g \in Groups : Group(g)) \/ Tick \/ LeakedEnds \/ Done

\* Threads are scheduled, time passes, and a child is over by its bound.
Fairness ==
  /\ WF_vars(Main) /\ WF_vars(Tick)
  /\ \A g \in Groups : WF_vars(Group(g))

Spec == Init /\ [][Next]_vars /\ Fairness

-----------------------------------------------------------------------------
(* Properties *)

TypeOK ==
  /\ now \in Nat /\ limit \in Nat /\ selected \in Selections
  /\ pc \in {"bind", "run", "prove", "finish", "cleanup", "report"} \cup MainOver
  /\ bound \in BOOLEAN /\ error \in BOOLEAN /\ lost \in BOOLEAN /\ crashed \in BOOLEAN
  /\ restored \in BOOLEAN
  /\ gpc \in [Groups -> {"case", "next"} \cup WaitingPlaces]
  /\ queue \in [Groups -> Seq(Registry)]
  /\ start \in [Groups -> Nat] /\ window \in [Groups -> Nat] /\ until \in [Groups -> Nat]
  /\ ran \in [Known -> Nat]
  /\ done \in [Known -> Results \cup {"NOT_RUN"}]
  /\ proving \in 0..Workers
  /\ parts \in [Groups -> [Documents -> Proofs]] /\ merged \in [Documents -> Proofs]
  /\ rows \in [Known -> Results \cup {"NOT_RUN", "none"}]
  /\ exit \in {"none", "success", "failure"}
  /\ leaked \subseteq Supplemental

\* Every group that used a document of the case has proved it.
ProvedWhereUsed(c) ==
  \A g \in Groups : \A d \in Refers[c] \cap Wanted(g) : parts[g][d] \in Verified

\* "Exit 0 requires complete measured proof" (the docstring of cli_main.py): the code
\* was bound, every case that was to run made all its runs, passed, and is proved in
\* the wiki of every group that used its documents, in time, and all was put back.
\* And whatever the exit code, the report of a batch without an exception says NOT_RUN
\* exactly of what was not run, and PASS only of what is proved.
ReportHonest ==
  /\ exit = "success" =>
       /\ bound /\ restored /\ ~error /\ now <= BatchDeadline
       /\ \A c \in Registry : rows[c] = "PASS" /\ done[c] = "PASS" /\ ran[c] = Runs[c]
  /\ pc = "done" => \A c \in Reported :
       /\ ~error => /\ rows[c] = "NOT_RUN" <=> done[c] = "NOT_RUN"
                    /\ rows[c] = "PASS" => ProvedWhereUsed(c)
       /\ c \notin Registry => rows[c] = "NOT_RUN"

\* Case work leaves the reserve of the last proof alone (PROOF_RESERVE_SECONDS), but
\* for the time it takes to stop a child, and for a read-back that was under way: it
\* has a timeout of its own.
ReserveKept ==
  \A g \in Groups : gpc[g] \in {"case", "child", "probe"} =>
    now <= BatchDeadline - Reserve + Grace
             + (IF Current(g) \in Probing THEN ProbeTimeout ELSE 0)

\* "every *entry* lands in exactly one group" (assign_groups), and the groups keep it
\* so while they work: a case is left in one place of one group, has no verdict yet
\* and, before its turn, no run; and no case makes more runs than it has to.
EachCaseOnce ==
  /\ \A g, h \in Groups : \A i \in DOMAIN queue[g], j \in DOMAIN queue[h] :
       queue[g][i] = queue[h][j] => g = h /\ i = j
  /\ \A g \in Groups : \A i \in DOMAIN queue[g] :
       done[queue[g][i]] = "NOT_RUN" /\ (i > 1 => ran[queue[g][i]] = 0)
  /\ \A c \in Known : ran[c] <= Runs[c]

\* By how much a read-back may go beyond the reserve.
Overrun == IF ProbeTimeout > Reserve THEN ProbeTimeout - Reserve ELSE 0

\* The one window of the batch is never renewed: seeds, cases and proofs together end
\* with it, and main ends after the cleanup.
BatchEnds ==
  <>(pc \in MainOver /\ now <= BatchDeadline + Grace + Overrun + CleanupTime)

\* "Process deadlines are absolute across seed/binding/cases/proofs; owned child trees
\* are terminated/reaped when exhausted" (README.md of the tool): when main is over,
\* no child it started is left.
OwnedTreesEnd == pc \in MainOver => leaked = {}
=============================================================================
