------------------------------ MODULE Installer ------------------------------
(***************************************************************************)
(* The scoped installer of tools/sync_installs_b3.py: it hashes the        *)
(* package, compares every physical target, and replaces one file after    *)
(* the other, each through a temporary of its own directory.  It takes no  *)
(* lock: people and other installers change the package and the targets    *)
(* between any two of its steps, every file operation may fail, and the    *)
(* process may die.                                                        *)
(* Files are numbered in the order of their names.                         *)
(***************************************************************************)
EXTENDS Integers, Sequences, FiniteSets, SequencesExt

CONSTANTS
  NFiles,       \* files that the package owns
  Config,       \* those that are configuration templates
  NTargets,     \* physical install roots
  Contents,     \* contents of a file
  Destinations,     \* lists of destinations: sequences of the roots they resolve to
  Absent,       \* the content of a file that is not there
  Installed,    \* what may be installed at first: functions Targets -> [Files -> Bytes]
  MaxRuns,      \* bound: runs of the installer
  MaxTroubles   \* bound: edits by others, failures and deaths, together

Bytes == Contents \cup {Absent}
Files == 1..NFiles
Targets == 1..NTargets

ASSUME InstallerAssumption ==
  /\ NFiles \in Nat \ {0} /\ NTargets \in Nat \ {0} /\ MaxRuns \in Nat /\ MaxTroubles \in Nat
  /\ Config \subseteq Files
  /\ Destinations \subseteq Seq(Targets) \ {<<>>}
  /\ Absent \notin Contents
  /\ Installed \subseteq [Targets -> [Files -> Bytes]]

VARIABLES
  source,     \* the package: Files -> Contents
  target,     \* the installed files of each root
  pc,         \* the operation that is next
  mode,       \* "check", "plan" or "install"
  scope,      \* the selected files
  rows,       \* the roots of the plan, in order
  row,        \* the row that is worked on
  todo,       \* the files of the row that are left
  expected,   \* source_sha256 of the plan
  before,     \* before_sha256 of each row
  needs,      \* needs_update of each row
  errors,     \* the files of each row with an error
  written,    \* the files of each row that were written
  content,    \* the bytes of the file that is being installed
  temporary,  \* the content of its temporary, Absent without one
  leftovers,  \* temporary_path of the rows' errors: temporaries whose removal failed
  snapshot,   \* the package as the diagnostics hash it
  complete,   \* runtime_byte_complete of each row
  result,     \* what the run reported
  disk,       \* ghost: temporaries of this run that are on the disk
  troubled,   \* ghost: someone edited something, or an operation failed, in this run
  edited,     \* ghost: someone edited something since the run began
  raced,      \* ghost: the present file was edited after its last check
  settled,    \* ghost: installed files that are still those of the package
  runs, troubles

worldVars == <<source, target>>
planVars  == <<mode, scope, rows, expected, before, needs>>
fileVars  == <<content, temporary>>
ghostVars == <<disk, troubled, edited, raced, settled, runs, troubles>>
vars == <<source, target, pc, mode, scope, rows, row, todo, expected, before, needs, errors, written,
          content, temporary, leftovers, snapshot, complete, result, disk, troubled, edited, raced,
          settled, runs, troubles>>

NoFiles == [f \in Files |-> Absent]
Unread == <<>>
NoResult == [status |-> "none"]
Rows == 1..Len(rows)
Root == rows[row]
\* The loops take the files in the order of their names.
File == CHOOSE f \in todo : \A g \in todo : f <= g

Init ==
  /\ source \in [Files -> Contents] /\ target \in Installed
  /\ pc = "idle" /\ mode = "check" /\ scope = {} /\ rows = <<>> /\ row = 1 /\ todo = {}
  /\ expected = NoFiles /\ before = <<>> /\ needs = <<>> /\ errors = <<>> /\ written = <<>>
  /\ content = Absent /\ temporary = Absent /\ leftovers = {}
  /\ snapshot = NoFiles /\ complete = <<>> /\ result = NoResult
  /\ disk = {} /\ troubled = FALSE /\ edited = FALSE /\ raced = FALSE /\ settled = {}
  /\ runs = 0 /\ troubles = 0

\* A file operation fails.
Fails ==
  /\ troubles < MaxTroubles /\ troubles' = troubles + 1 /\ troubled' = TRUE
  /\ UNCHANGED <<edited, settled, runs>>
Works == UNCHANGED <<troubled, edited, settled, runs, troubles>>

\* The end of the process: its memory is gone, but for what it reported.
Forget ==
  /\ row' = 1 /\ todo' = {} /\ expected' = NoFiles /\ before' = [i \in 1..Len(rows') |-> NoFiles]
  /\ content' = Absent /\ temporary' = Absent /\ snapshot' = NoFiles
ForgetReport ==
  /\ mode' = "check" /\ scope' = {} /\ rows' = <<>> /\ leftovers' = {}
  /\ needs' = <<>> /\ errors' = <<>> /\ written' = <<>> /\ complete' = <<>>

RowError(f) == errors' = [errors EXCEPT ![row] = @ \cup {f}]
AnyBytes(f, bytes) == bytes # Absent
Planned(f, bytes) == bytes = expected[f]
-----------------------------------------------------------------------------
(* The plan. *)

\* Destinations that resolve to one physical root share its row: the roots in the
\* order in which they are first named.
FirstNamed(choice, t) == CHOOSE i \in DOMAIN choice : choice[i] = t /\ \A j \in 1..i - 1 : choice[j] # t
RowPerDestination(choice) == {choice}
RowsOf(choice) ==
  {order \in UNION {[1..n -> Targets] : n \in 1..NTargets} :
     /\ Range(order) = Range(choice)
     /\ \A i, j \in DOMAIN order : i < j => FirstNamed(choice, order[i]) < FirstNamed(choice, order[j])}

Start ==
  /\ pc = "idle" /\ runs < MaxRuns
  /\ mode' \in {"check", "plan", "install"}
  /\ scope' \in SUBSET Files \ {{}}
  /\ \E choice \in Destinations : rows' \in RowsOf(choice)
  /\ pc' = "hash" /\ row' = 1 /\ todo' = scope'
  /\ expected' = NoFiles
  /\ before' = [i \in 1..Len(rows') |-> NoFiles]
  /\ needs' = [i \in 1..Len(rows') |-> {}]
  /\ errors' = [i \in 1..Len(rows') |-> {}]
  /\ written' = [i \in 1..Len(rows') |-> {}]
  /\ complete' = [i \in 1..Len(rows') |-> FALSE]
  /\ leftovers' = {} /\ result' = NoResult
  /\ disk' = {} /\ troubled' = FALSE /\ edited' = FALSE /\ raced' = FALSE
  /\ runs' = runs + 1
  /\ UNCHANGED <<worldVars, fileVars, snapshot, settled, troubles>>

\* A selected file of the package that cannot be read ends the run: exit code 2.
HashSource ==
  /\ pc = "hash" /\ todo # {}
  /\ \/ /\ expected' = [expected EXCEPT ![File] = source[File]] /\ todo' = todo \ {File}
        /\ Works /\ UNCHANGED <<pc, result>>
        /\ UNCHANGED <<mode, scope, rows, row, before, needs, errors, written, fileVars, leftovers,
                       snapshot, complete>>
     \/ /\ result' = [status |-> "usage", exit |-> 2] /\ pc' = "idle"
        /\ Fails /\ ForgetReport /\ Forget
  /\ UNCHANGED <<worldVars, disk, raced>>

\* The diagnostics hash the package's runtime, which excludes the configuration; with
\* a file of it unread no row is complete.
Snapshot(next) ==
  /\ \/ snapshot' = [f \in Files |-> IF f \in Config THEN Absent ELSE source[f]] /\ Works
     \/ snapshot' = Unread /\ Fails
  /\ pc' = next /\ row' = 1

SnapshotForPlan ==
  /\ pc = "hash" /\ todo = {}
  /\ Snapshot("compare") /\ todo' = scope
  /\ UNCHANGED <<worldVars, planVars, errors, written, fileVars, leftovers, complete, result, disk, raced>>

\* Existing configuration is never read nor replaced.
Preserved(f) == f \in Config /\ target[Root][f] # Absent
NeedsIfAbsent(f) == target[Root][f] = Absent
NeedsAlways(f) == TRUE
NeedsUpdate(f) == target[Root][f] # expected[f]

CompareTarget ==
  /\ pc = "compare" /\ todo # {}
  /\ \/ /\ ~Preserved(File) /\ Works
        /\ before' = [before EXCEPT ![row][File] = target[Root][File]]
        /\ needs' = [needs EXCEPT ![row] = IF NeedsUpdate(File) THEN @ \cup {File} ELSE @]
        /\ UNCHANGED errors
     \/ Preserved(File) /\ Works /\ UNCHANGED <<before, needs, errors>>
     \/ /\ ~Preserved(File) /\ Fails
        /\ needs' = [needs EXCEPT ![row] = @ \cup {File}] /\ RowError(File)
        /\ UNCHANGED before
  /\ todo' = todo \ {File}
  /\ UNCHANGED <<worldVars, pc, mode, scope, rows, expected, row, written, fileVars, leftovers, snapshot,
                 complete, result, disk, raced>>

\* The row's owned runtime files are read again; a failed read leaves it incomplete.
SameScope == snapshot # Unread /\ \A f \in scope \ Config : target[Root][f] = snapshot[f]
SameRuntime == snapshot # Unread /\ \A f \in Files \ Config : target[Root][f] = snapshot[f]
Diagnose ==
  \/ complete' = [complete EXCEPT ![row] = SameRuntime] /\ Works
  \/ complete' = [complete EXCEPT ![row] = FALSE] /\ Fails

DiagnosePlan ==
  /\ pc = "compare" /\ todo = {}
  /\ Diagnose
  /\ IF row < Len(rows) THEN row' = row + 1 /\ todo' = scope /\ UNCHANGED pc
     ELSE /\ pc' = IF mode = "install" THEN "apply" ELSE "report"
          /\ row' = 1 /\ todo' = needs[1]
  /\ UNCHANGED <<worldVars, planVars, errors, written, fileVars, leftovers, snapshot, result, disk, raced>>
-----------------------------------------------------------------------------
(* The installation of one file: read, stage, verify, check, replace, clean up. *)

\* The row is over when it is done, or at its first error, of the plan or of a file.
NextRow ==
  /\ pc = "apply" /\ (todo = {} \/ errors[row] # {})
  /\ IF row < Len(rows) THEN row' = row + 1 /\ todo' = needs[row + 1] /\ Works /\ UNCHANGED <<pc, snapshot>>
     ELSE Snapshot("diagnose") /\ UNCHANGED todo
  /\ UNCHANGED <<worldVars, planVars, errors, written, fileVars, leftovers, complete, result, disk, raced>>

\* One operation on the present file: it goes on to the next, or to the cleanup
\* with an error.
GoOn(next) == pc' = next /\ UNCHANGED errors
GiveUp == pc' = "cleanup" /\ RowError(File)
FileStep ==
  UNCHANGED <<source, planVars, row, todo, leftovers, snapshot, complete, result>>

Read ==
  /\ pc = "apply" /\ todo # {} /\ errors[row] = {}
  /\ content' = source[File]
  /\ \/ Planned(File, source[File]) /\ GoOn("stage") /\ Works
     \/ ~Planned(File, source[File]) /\ GiveUp /\ Works
     \/ GiveUp /\ Fails
  /\ FileStep /\ UNCHANGED <<target, written, temporary, disk, raced>>

\* The temporary may be there before the operation fails.
Stage ==
  /\ pc = "stage"
  /\ \/ temporary' = content /\ GoOn("verify") /\ Works
     \/ temporary' \in Bytes /\ GiveUp /\ Fails
  /\ disk' = IF temporary' = Absent THEN disk ELSE disk \cup {<<Root, File>>}
  /\ FileStep /\ UNCHANGED <<target, written, content, raced>>

Verify ==
  /\ pc = "verify"
  /\ LET same == Planned(File, temporary) /\ Planned(File, source[File])
     IN  \/ same /\ GoOn("check") /\ Works
         \/ ~same /\ GiveUp /\ Works
         \/ GiveUp /\ Fails
  /\ FileStep /\ UNCHANGED <<target, written, fileVars, disk, raced>>

UnchangedUnlessNew(f) == before[row][f] = Absent \/ target[Root][f] = before[row][f]
Unchanged(f) == target[Root][f] = before[row][f]
Check ==
  /\ pc = "check"
  /\ \/ Unchanged(File) /\ GoOn("replace") /\ Works
     \/ ~Unchanged(File) /\ GiveUp /\ Works
     \/ GiveUp /\ Fails
  /\ FileStep /\ UNCHANGED <<target, written, fileVars, disk, raced>>

Replace ==
  /\ pc = "replace"
  /\ \/ /\ target' = [target EXCEPT ![Root][File] = temporary]
        /\ written' = [written EXCEPT ![row] = @ \cup {File}]
        /\ temporary' = Absent /\ disk' = disk \ {<<Root, File>>}
        /\ settled' = IF temporary = source[File] THEN settled \cup {<<Root, File>>} ELSE settled
        /\ GoOn("cleanup") /\ UNCHANGED <<troubled, edited, runs, troubles>>
     \/ GiveUp /\ Fails /\ UNCHANGED <<target, written, temporary, disk>>
  /\ FileStep /\ UNCHANGED <<content, raced>>

\* The name of a temporary is removed on every path, also when os.replace has moved the
\* file away: a removal that fails is an error of the file, and names the temporary
\* whether or not it is on the disk.
RemovesVerified == temporary = content
Removes == temporary # Absent
Named == temporary # Absent \/ File \in written[row]
Cleanup ==
  /\ pc = "cleanup"
  /\ \/ ~Removes /\ Works /\ UNCHANGED <<disk, leftovers, errors>>
     \/ Removes /\ Works /\ disk' = disk \ {<<Root, File>>} /\ UNCHANGED <<leftovers, errors>>
     \/ Named /\ Fails /\ leftovers' = leftovers \cup {<<Root, File>>} /\ RowError(File) /\ UNCHANGED disk
  /\ temporary' = Absent /\ content' = Absent /\ raced' = FALSE
  /\ todo' = todo \ {File} /\ pc' = "apply"
  /\ UNCHANGED <<worldVars, planVars, row, written, snapshot, complete, result>>
-----------------------------------------------------------------------------
(* The report. *)

DiagnoseResult ==
  /\ pc = "diagnose"
  /\ Diagnose
  /\ IF row < Len(rows) THEN row' = row + 1 /\ UNCHANGED pc ELSE pc' = "report" /\ UNCHANGED row
  /\ UNCHANGED <<worldVars, planVars, todo, errors, written, fileVars, leftovers, snapshot, result, disk, raced>>

SomeRow(sets) == \E i \in Rows : sets[i] # {}
Status == IF ~SomeRow(errors) THEN "completed" ELSE IF SomeRow(written) THEN "partial" ELSE "failed"

Report ==
  /\ pc = "report" /\ pc' = "idle"
  /\ result' =
       [status |-> IF mode = "install" THEN Status ELSE "plan",
        exit |-> IF mode = "install" THEN IF Status = "completed" THEN 0 ELSE 1
                 ELSE IF SomeRow(errors) THEN 2
                 ELSE IF mode = "check" /\ SomeRow(needs) THEN 1 ELSE 0]
  /\ UNCHANGED <<worldVars, mode, scope, rows, needs, errors, written, leftovers, complete, ghostVars>>
  /\ Forget

Plan == Start \/ HashSource \/ SnapshotForPlan \/ CompareTarget \/ DiagnosePlan
Apply == NextRow \/ Read \/ Stage \/ Verify \/ Check \/ Replace \/ Cleanup
-----------------------------------------------------------------------------
(* People, other installers, and the end of the process. *)

Edits ==
  /\ troubles < MaxTroubles /\ troubles' = troubles + 1
  /\ edited' = TRUE /\ troubled' = TRUE
  /\ UNCHANGED <<pc, planVars, row, todo, errors, written, fileVars, leftovers, snapshot, complete,
                 result, disk, runs>>
EditSource ==
  /\ \E f \in Files, bytes \in Contents :
       /\ source[f] # bytes /\ source' = [source EXCEPT ![f] = bytes]
       /\ settled' = settled \ (Targets \X {f})
  /\ Edits /\ UNCHANGED <<target, raced>>
EditTarget ==
  /\ \E t \in Targets, f \in Files, bytes \in Bytes :
       /\ target[t][f] # bytes /\ target' = [target EXCEPT ![t][f] = bytes]
       /\ settled' = settled \ {<<t, f>>}
       /\ raced' = (raced \/ (pc = "replace" /\ t = Root /\ f = File))
  /\ Edits /\ UNCHANGED source

\* The process is killed: no report, all that it knew is lost, and its temporary stays.
Die ==
  /\ pc # "idle" /\ Fails
  /\ pc' = "idle" /\ ForgetReport /\ Forget
  /\ disk' = {} /\ raced' = FALSE
  /\ UNCHANGED <<worldVars, result>>

Next == Plan \/ Apply \/ DiagnoseResult \/ Report \/ EditSource \/ EditTarget \/ Die
Spec == Init /\ [][Next]_vars
-----------------------------------------------------------------------------
(* Properties. *)

Replaces == pc = "replace" /\ written' # written
Reported == pc = "idle" /\ result.status \notin {"none", "usage"}

TypeOK ==
  /\ source \in [Files -> Contents] /\ target \in [Targets -> [Files -> Bytes]]
  /\ pc \in {"idle", "hash", "compare", "apply", "stage", "verify", "check", "replace", "cleanup",
             "diagnose", "report"}
  /\ mode \in {"check", "plan", "install"} /\ scope \subseteq Files
  /\ rows \in Seq(Targets) /\ row \in 1..NTargets /\ todo \subseteq scope
  /\ expected \in [Files -> Bytes] /\ before \in [Rows -> [Files -> Bytes]]
  /\ needs \in [Rows -> SUBSET scope] /\ errors \in [Rows -> SUBSET scope]
  /\ written \in [Rows -> SUBSET scope]
  /\ \A i \in Rows : written[i] \subseteq needs[i] /\ errors[i] \subseteq needs[i]
  /\ content \in Bytes /\ temporary \in Bytes /\ snapshot \in [Files -> Bytes] \cup {Unread}
  /\ complete \in [Rows -> BOOLEAN]
  /\ leftovers \subseteq Targets \X scope /\ disk \subseteq Targets \X scope
  /\ settled \subseteq Targets \X Files

\* A replaced file has the bytes that the plan hashed, whatever the package became
\* meanwhile: never those of two package states in one plan.
WritesPlannedBytes ==
  [][Replaces =>
       \A t \in Targets, f \in Files :
         target'[t][f] # target[t][f] => f = File /\ t = Root /\ target'[t][f] = expected[f]]_vars

\* "Installer behavior: user state survives": what a replacement overwrites is what the
\* plan saw, and no configuration, unless it was edited in the instant after its check.
UserStateSurvives ==
  [][Replaces /\ ~raced =>
       /\ target[Root][File] = before[row][File]
       /\ File \in Config => target[Root][File] = Absent]_vars

\* "Retries converge": no run rewrites a file that an earlier run installed, and that
\* nobody changed in the package or in the target since.
RetriesConverge ==
  [][Replaces /\ ~raced => <<Root, File>> \notin settled]_vars

\* A report is true.  An installation says "failed" only if it replaced nothing, and
\* with nobody else at work and no failure it completes, whatever roots its
\* destinations share.  Of a run that nobody disturbed: after exit code 0 of --install
\* or --check every selected file is the package's, or a configuration that exists;
\* and a row with runtime_byte_complete has the bytes of the whole package, beyond
\* the selected scope.
ReportsTrue ==
  Reported =>
    /\ mode = "install" /\ result.status = "failed" => \A i \in Rows : written[i] = {}
    /\ mode = "install" /\ result.status # "completed" => troubled
    /\ mode \in {"install", "check"} /\ result.exit = 0 /\ ~edited =>
         \A i \in Rows, f \in scope :
           target[rows[i]][f] = source[f] \/ (f \in Config /\ target[rows[i]][f] # Absent)
    /\ ~edited => \A i \in Rows :
         complete[i] => \A f \in Files \ Config : target[rows[i]][f] = source[f]

\* A run that reports names every temporary that it leaves on the disk; and what it names
\* besides is the temporary of a file that it lists as written, which became that file.
WrittenFiles == UNION {{rows[i]} \X written[i] : i \in Rows}
TemporariesNamed == Reported => disk = leftovers \ WrittenFiles
=============================================================================
