-------------------------- MODULE Installer_proofs --------------------------
(***************************************************************************)
(* Theorems of Installer, for every package, choice of roots, set of       *)
(* contents, number of runs and of troubles.  The invariant follows the    *)
(* file that is being installed: what the plan recorded of it, and what    *)
(* its temporary and its target hold at each operation.                    *)
(***************************************************************************)
EXTENDS Installer, SequenceTheorems, RecursionTheorems

Staged == {"stage", "verify", "check", "replace", "cleanup"}
Applying == Staged \cup {"apply"}

\* The row that is worked on is one of the plan; the installation takes no file that the
\* plan does not need, and nothing is written before the plan is made.
PhaseInv ==
  /\ Len(rows) <= NTargets
  /\ pc # "idle" => row \in Rows
  /\ pc \in {"hash", "compare"} => disk = {} /\ leftovers = {} /\ \A i \in Rows : written[i] = {}
  /\ pc \in Applying => todo \subseteq needs[row]
  /\ pc \in Staged => todo # {}

\* What the plan records of the files that it needs: of those that were compared without
\* an error, that they differ, and that no configuration is among them unless it is absent.
NeedsInv ==
  /\ pc = "hash" => \A i \in Rows : needs[i] = {} /\ errors[i] = {}
  /\ pc = "compare" => \A i \in Rows : \A f \in needs[i] : i < row \/ (i = row /\ f \notin todo)
  /\ pc # "idle" => \A i \in Rows : \A f \in needs[i] \ errors[i] :
                      before[i][f] # expected[f] /\ (f \in Config => before[i][f] = Absent)

\* What the operations on the present file know of it.
FileInv ==
  /\ pc \in Staged \ {"cleanup"} => content = expected[File] /\ errors[row] = {}
  /\ pc \in {"verify", "check", "replace"} => temporary = expected[File]
  /\ pc = "replace" /\ ~raced => target[Root][File] = before[row][File]

\* What an earlier run installed is there, and the plan would not need it.
SettledInv ==
  /\ \A t \in Targets, f \in Files : <<t, f>> \in settled => target[t][f] = source[f]
  /\ pc \in {"check", "replace"} /\ <<Root, File>> \in settled => source[File] = expected[File]

\* The roots of the plan differ.
Distinct == \A i, j \in Rows : rows[i] = rows[j] => i = j

\* The temporaries on the disk are those that are named and of no written file, and that of
\* the present file; none was named for a file that is still to come, and none of those is
\* written, but for the present file when its temporary was moved.
Past(i, f) == i < row \/ (i = row /\ f \notin todo)
Moved(i, f) == pc = "cleanup" /\ temporary = Absent /\ i = row /\ f = File
TemporaryInv ==
  /\ disk = (leftovers \ WrittenFiles) \cup (IF temporary = Absent THEN {} ELSE {<<Root, File>>})
  /\ temporary # Absent => pc \in Staged \ {"stage"}
  /\ pc \in Applying => \A i \in Rows, f \in Files :
       /\ <<rows[i], f>> \in leftovers => Past(i, f)
       /\ f \in written[i] => Past(i, f) \/ Moved(i, f)

\* The course of an installation: the files of a row without an error are written, but
\* for those that are left.
CourseInv ==
  /\ pc # "idle" => result = NoResult
  /\ pc \in Applying \cup {"diagnose"} => mode = "install"
  /\ pc \in Applying => \A i \in Rows :
       errors[i] = {} => /\ i < row => needs[i] \subseteq written[i]
                         /\ i = row => needs[i] \subseteq written[i] \cup todo
  /\ pc = "cleanup" /\ errors[row] = {} => File \in written[row]
  /\ pc = "diagnose" \/ (pc = "report" /\ mode = "install") =>
       \A i \in Rows : errors[i] = {} => needs[i] \subseteq written[i]

\* The file has the planned bytes, or is a configuration that exists.
Ready(i, f) == target[rows[i]][f] = expected[f] \/ (f \in Config /\ target[rows[i]][f] # Absent)
Matches(i) == \A f \in Files \ Config : target[rows[i]][f] = source[f]

\* While nobody edits anything, what the run knows is so.
QuietInv ==
  ~edited =>
    /\ pc # "idle" => \A f \in scope : (pc = "hash" => f \notin todo) => expected[f] = source[f]
    /\ pc \notin {"idle", "hash"} =>
         \A i \in Rows : \A f \in scope \ needs[i] :
           (pc = "compare" => i < row \/ (i = row /\ f \notin todo)) => Ready(i, f)
    /\ pc # "idle" => \A i \in Rows : \A f \in written[i] : target[rows[i]][f] = expected[f]
    /\ pc \in {"compare", "diagnose"} =>
         /\ snapshot = Unread \/ \A f \in Files \ Config : snapshot[f] = source[f]
         /\ \A i \in Rows : i < row /\ complete[i] => Matches(i)
    /\ pc = "report" => \A i \in Rows : complete[i] => Matches(i)

\* While nothing fails either, there is no error, and the files that are left to
\* install are as the plan saw them.
CalmInv ==
  /\ edited => troubled
  /\ ~troubled =>
       /\ \A i \in Rows : errors[i] = {}
       /\ pc = "compare" => \A i \in Rows : \A f \in needs[i] : target[rows[i]][f] = before[i][f]
       /\ pc \in Applying => \A i \in Rows : \A f \in needs[i] :
            i > row \/ (i = row /\ f \in todo /\ (pc = "cleanup" => f # File)) =>
              target[rows[i]][f] = before[i][f]
       /\ pc = "cleanup" => temporary = Absent

Inv == TypeOK /\ PhaseInv /\ NeedsInv /\ FileInv /\ SettledInv /\ Distinct /\ TemporaryInv

-----------------------------------------------------------------------------
\* The file that is taken is one of those that are left.
LEMMA FileLeft ==
  ASSUME TypeOK, todo # {}
  PROVE  File \in todo /\ File \in scope /\ File \in Files
<1>1. todo \subseteq Files /\ todo \subseteq Nat
  BY InstallerAssumption DEF TypeOK, Files
<1>2. \E f \in todo : \A g \in todo : f <= g
  BY <1>1, LeastNatural
<1>3. File \in todo
  BY <1>2 DEF File
<1> QED
  BY <1>1, <1>3 DEF TypeOK

\* A function with one more element at a point, or another value at two.
LEMMA OneMore ==
  ASSUME NEW D, NEW S, NEW F \in [D -> SUBSET S], NEW d \in D, NEW x \in S,
         NEW G, G = [F EXCEPT ![d] = @ \cup {x}]
  PROVE  /\ G \in [D -> SUBSET S]
         /\ \A i \in D : F[i] \subseteq G[i] /\ (i # d => G[i] = F[i])
         /\ G[d] = F[d] \cup {x}
  OBVIOUS

LEMMA OtherValue ==
  ASSUME NEW D, NEW E, NEW S, NEW F \in [D -> [E -> S]], NEW d \in D, NEW e \in E, NEW x \in S,
         NEW G, G = [F EXCEPT ![d][e] = x]
  PROVE  /\ G \in [D -> [E -> S]]
         /\ \A i \in D, j \in E : G[i][j] = IF i = d /\ j = e THEN x ELSE F[i][j]
  OBVIOUS

\* The rows of a plan are roots, at least one and no more than there are.
LEMMA RowsTyped ==
  ASSUME NEW choice \in Destinations, NEW order \in RowsOf(choice)
  PROVE  order \in Seq(Targets) /\ Len(order) \in 1..NTargets
<1>1. PICK n \in 1..NTargets : order \in [1..n -> Targets]
  BY DEF RowsOf
<1>2. n \in Nat /\ NTargets \in Nat
  BY InstallerAssumption
<1>3. order \in Seq(Targets)
  BY <1>1, <1>2, SeqDef
<1>4. Len(order) \in Nat /\ DOMAIN order = 1..Len(order)
  BY <1>3, LenProperties
<1>5. 1..Len(order) = 1..n
  BY <1>1, <1>4
<1>6. n \in 1..Len(order)
  BY <1>2, <1>5
<1>7. Len(order) \in 1..Len(order)
  BY <1>2, <1>4, <1>6
<1>8. Len(order) \in 1..n
  BY <1>5, <1>7
<1> QED
  BY <1>2, <1>3, <1>8

\* The row that is worked on has a root.
LEMMA RootTyped ==
  ASSUME TypeOK, row \in Rows
  PROVE  Root \in Targets /\ row \in Nat
  BY LenProperties DEF TypeOK, Rows, Root

\* The initial states.
LEMMA InitTypes == Init => TypeOK /\ PhaseInv
<1> SUFFICES ASSUME Init PROVE TypeOK /\ PhaseInv
  OBVIOUS
<1>1. rows = <<>> /\ Len(rows) = 0 /\ Rows = {} /\ rows \in Seq(Targets)
  BY DEF Init, Rows
<1>2. NFiles \in Nat /\ NTargets \in Nat \ {0} /\ target \in [Targets -> [Files -> Bytes]]
  BY InstallerAssumption DEF Init
<1>3. NoFiles \in [Files -> Bytes]
  BY DEF NoFiles, Bytes
<1>4. TypeOK
  BY <1>1, <1>2, <1>3 DEF Init, TypeOK, Bytes
<1>5. PhaseInv
  BY <1>1, <1>2 DEF Init, PhaseInv, Applying, Staged
<1> QED
  BY <1>4, <1>5

-----------------------------------------------------------------------------
\* A run that ends without a report leaves nothing behind in memory.
LEMMA EndTypes ==
  ASSUME TypeOK, pc' = "idle", ForgetReport, Forget, UNCHANGED <<worldVars, settled>>,
         disk' \subseteq {}
  PROVE  TypeOK' /\ PhaseInv'
<1>1. /\ rows' = <<>> /\ Len(rows') = 0 /\ Rows' = {} /\ rows' \in Seq(Targets)
      /\ NTargets \in Nat /\ 1 \in 1..NTargets
  BY InstallerAssumption DEF ForgetReport, Rows
<1>2. NoFiles \in [Files -> Bytes]
  BY DEF NoFiles, Bytes
<1>3. TypeOK'
  BY <1>1, <1>2 DEF ForgetReport, Forget, TypeOK, Bytes, worldVars
<1>4. PhaseInv'
  BY <1>1 DEF PhaseInv, Applying, Staged
<1> QED
  BY <1>3, <1>4

\* A step keeps the types and the phases: first the source.
LEMMA PlanTypes ==
  ASSUME TypeOK, PhaseInv, Start \/ HashSource \/ SnapshotForPlan
  PROVE  TypeOK' /\ PhaseInv'
<1>1. CASE Start
  <2>1. rows' \in Seq(Targets) /\ Len(rows') \in 1..NTargets
    BY <1>1, RowsTyped DEF Start
  <2>2. NoFiles \in [Files -> Bytes]
    BY DEF NoFiles, Bytes
  <2>3. 1 \in Rows' /\ 1 \in 1..NTargets
    BY <2>1, InstallerAssumption DEF Rows
  <2>4. before' \in [Rows' -> [Files -> Bytes]]
    BY <1>1, <2>2 DEF Start, Rows
  <2>5. needs' = [i \in Rows' |-> {}] /\ errors' = [i \in Rows' |-> {}] /\ written' = [i \in Rows' |-> {}]
    BY <1>1 DEF Start, Rows
  <2>6. /\ needs' \in [Rows' -> SUBSET scope'] /\ errors' \in [Rows' -> SUBSET scope']
        /\ written' \in [Rows' -> SUBSET scope']
        /\ \A i \in Rows' : written'[i] \subseteq needs'[i] /\ errors'[i] \subseteq needs'[i]
    BY <2>5
  <2>7. complete' \in [Rows' -> BOOLEAN]
    BY <1>1 DEF Start, Rows
  <2>8. TypeOK'
    BY <1>1, <2>1, <2>2, <2>3, <2>4, <2>6, <2>7 DEF Start, TypeOK, worldVars, fileVars
  <2>9. PhaseInv'
    BY <1>1, <2>1, <2>3, <2>5 DEF Start, PhaseInv, Applying, Staged
  <2> QED
    BY <2>8, <2>9
<1>2. CASE HashSource
  <2>1. File \in todo /\ File \in Files
    BY <1>2, FileLeft DEF HashSource
  <2>2. source[File] \in Bytes
    BY <2>1 DEF TypeOK, Bytes
  <2>3. CASE UNCHANGED <<pc, result, rows>>
    <3>1. Rows' = Rows
      BY <2>3 DEF Rows
    <3>2. pc = "hash"
      BY <1>2 DEF HashSource
    <3>3. /\ expected' = [expected EXCEPT ![File] = source[File]] /\ todo' = todo \ {File}
          /\ UNCHANGED <<worldVars, pc, result, mode, scope, rows, row, before, needs, errors, written,
                         fileVars, leftovers, snapshot, complete, settled, disk, raced>>
      BY <1>2, <2>3, <3>2 DEF HashSource, Works, ForgetReport, Forget
    <3> QED
      BY <1>2, <2>1, <2>2, <3>1, <3>3
      DEF HashSource, TypeOK, PhaseInv, Applying, Staged, worldVars, fileVars
  <2>4. CASE pc' = "idle"
    <3>1. /\ pc = "hash" /\ ForgetReport /\ Forget
          /\ UNCHANGED <<worldVars, disk, settled>>
      BY <1>2, <2>4 DEF HashSource, Fails
    <3> QED
      BY <2>4, <3>1, EndTypes DEF PhaseInv
  <2> QED
    BY <1>2, <2>3, <2>4 DEF HashSource
<1>3. CASE SnapshotForPlan
  <2>1. Rows' = Rows
    BY <1>3 DEF SnapshotForPlan, planVars, Rows
  <2>2. snapshot' \in [Files -> Bytes] \cup {Unread}
    BY <1>3 DEF SnapshotForPlan, Snapshot, TypeOK, Bytes
  <2>3. 1 \in Rows /\ 1 \in 1..NTargets
    BY <1>3, InstallerAssumption, LenProperties DEF SnapshotForPlan, TypeOK, PhaseInv, Rows
  <2>4. UNCHANGED settled /\ pc' = "compare" /\ row' = 1 /\ todo' = scope
    BY <1>3 DEF SnapshotForPlan, Snapshot, Works, Fails
  <2>5. TypeOK'
    BY <1>3, <2>1, <2>2, <2>3, <2>4 DEF SnapshotForPlan, TypeOK, worldVars, planVars, fileVars
  <2>6. PhaseInv'
    BY <1>3, <2>1, <2>3, <2>4 DEF SnapshotForPlan, PhaseInv, planVars, Applying, Staged
  <2> QED
    BY <2>5, <2>6
<1> QED
  BY <1>1, <1>2, <1>3

\* The steps that read the targets of a row.
LEMMA RowTypes ==
  ASSUME TypeOK, PhaseInv, CompareTarget \/ DiagnosePlan \/ NextRow \/ DiagnoseResult
  PROVE  TypeOK' /\ PhaseInv'
<1>1. row \in Rows /\ Root \in Targets /\ rows \in Seq(Targets) /\ Len(rows) \in Nat /\ Rows = 1..Len(rows)
  BY RootTyped, LenProperties
  DEF CompareTarget, DiagnosePlan, NextRow, DiagnoseResult, PhaseInv, TypeOK, Rows
<1>2. /\ 1 \in Rows /\ 1 \in 1..NTargets /\ row \in Nat /\ Rows \subseteq 1..NTargets
      /\ row < Len(rows) => row + 1 \in Rows
  BY <1>1, InstallerAssumption DEF PhaseInv, Rows
<1>3. CASE CompareTarget
  <2>1. File \in todo /\ File \in scope /\ File \in Files
    BY <1>3, FileLeft DEF CompareTarget
  <2>2. Rows' = Rows /\ UNCHANGED <<target, source, pc, settled>>
    BY <1>3 DEF CompareTarget, Rows, Works, Fails, worldVars
  <2>3. before' \in [Rows -> [Files -> Bytes]]
    <3>1. target[Root][File] \in Bytes /\ before \in [Rows -> [Files -> Bytes]]
      BY <1>1, <2>1 DEF TypeOK
    <3>2. before' = before \/ before' = [before EXCEPT ![row][File] = target[Root][File]]
      BY <1>3 DEF CompareTarget
    <3>3. CASE before' = before
      BY <3>1, <3>3
    <3>4. CASE before' = [before EXCEPT ![row][File] = target[Root][File]]
      BY <1>1, <2>1, <3>1, <3>4, OtherValue, Zenon
    <3> QED
      BY <3>2, <3>3, <3>4
  <2>4. /\ needs' \in [Rows -> SUBSET scope] /\ errors' \in [Rows -> SUBSET scope]
        /\ \A i \in Rows : needs[i] \subseteq needs'[i] /\ errors'[i] \subseteq needs'[i]
    <3>1. /\ needs \in [Rows -> SUBSET scope] /\ errors \in [Rows -> SUBSET scope]
          /\ \A i \in Rows : errors[i] \subseteq needs[i]
      BY DEF TypeOK
    <3>2. CASE UNCHANGED errors
      <4>1. needs' = needs \/ needs' = [needs EXCEPT ![row] = @ \cup {File}]
        BY <1>1, <1>3, <3>1, <3>2 DEF CompareTarget
      <4> QED
        BY <1>1, <2>1, <3>1, <3>2, <4>1, OneMore
    <3>3. CASE RowError(File) /\ needs' = [needs EXCEPT ![row] = @ \cup {File}]
      <4>1. errors' = [errors EXCEPT ![row] = @ \cup {File}]
        BY <3>3 DEF RowError
      <4>2. /\ needs' \in [Rows -> SUBSET scope] /\ errors' \in [Rows -> SUBSET scope]
            /\ \A i \in Rows : needs[i] \subseteq needs'[i]
        BY <1>1, <2>1, <3>1, <3>3, <4>1, OneMore
      <4>3. \A i \in Rows : errors'[i] \subseteq needs'[i]
        BY <1>1, <2>1, <3>1, <3>3, <4>1
      <4> QED
        BY <4>2, <4>3
    <3> QED
      BY <1>3, <3>2, <3>3 DEF CompareTarget
  <2> QED
    BY <1>3, <2>1, <2>2, <2>3, <2>4
    DEF CompareTarget, TypeOK, PhaseInv, Applying, Staged, worldVars, fileVars
<1>4. CASE DiagnosePlan
  <2>1. /\ Rows' = Rows /\ UNCHANGED settled /\ complete' \in [Rows -> BOOLEAN]
        /\ row' \in Rows /\ todo' \in {scope, needs[1]} /\ pc' \in {"compare", "apply", "report"}
        /\ pc' = "apply" => row' = 1 /\ todo' = needs[1]
    BY <1>1, <1>2, <1>4 DEF DiagnosePlan, Diagnose, SameRuntime, planVars, Rows, Works, Fails, TypeOK
  <2>2. needs[1] \subseteq scope
    BY <1>2 DEF TypeOK
  <2> QED
    BY <1>1, <1>2, <1>4, <2>1, <2>2
    DEF DiagnosePlan, TypeOK, PhaseInv, Applying, Staged, worldVars, fileVars, planVars
<1>5. CASE NextRow
  <2>1. /\ Rows' = Rows /\ UNCHANGED settled
        /\ row' \in Rows /\ todo' \subseteq scope /\ pc' \in {"apply", "diagnose"}
        /\ pc' = "apply" => todo' = needs[row']
        /\ snapshot' \in [Files -> Bytes] \cup {Unread}
    BY <1>1, <1>2, <1>5 DEF NextRow, Snapshot, planVars, Rows, Works, Fails, TypeOK, Bytes
  <2> QED
    BY <1>1, <1>2, <1>5, <2>1
    DEF NextRow, TypeOK, PhaseInv, Applying, Staged, worldVars, fileVars, planVars
<1>6. CASE DiagnoseResult
  <2>1. /\ Rows' = Rows /\ UNCHANGED settled /\ complete' \in [Rows -> BOOLEAN]
        /\ row' \in Rows /\ pc' \in {"diagnose", "report"}
    BY <1>1, <1>2, <1>6 DEF DiagnoseResult, Diagnose, SameRuntime, planVars, Rows, Works, Fails, TypeOK
  <2> QED
    BY <1>1, <1>2, <1>6, <2>1
    DEF DiagnoseResult, TypeOK, PhaseInv, Applying, Staged, worldVars, fileVars, planVars
<1> QED
  BY <1>3, <1>4, <1>5, <1>6

\* The operations on one file.
LEMMA FileTypes ==
  ASSUME TypeOK, PhaseInv, Read \/ Stage \/ Verify \/ Check \/ Replace \/ Cleanup
  PROVE  TypeOK' /\ PhaseInv'
<1>1. pc \in Applying /\ todo # {}
  BY DEF Read, Stage, Verify, Check, Replace, Cleanup, Applying, Staged, PhaseInv
<1>2. /\ row \in Rows /\ Root \in Targets /\ Rows' = Rows /\ UNCHANGED <<rows, row, scope, needs>>
      /\ File \in todo /\ File \in scope /\ File \in Files /\ File \in needs[row]
  <2>1. row \in Rows /\ UNCHANGED <<rows, row, scope, needs>>
    BY <1>1 DEF Read, Stage, Verify, Check, Replace, Cleanup, FileStep, planVars, PhaseInv, Applying, Staged
  <2>2. Rows' = Rows
    BY <2>1 DEF Rows
  <2> QED
    BY <1>1, <2>1, <2>2, FileLeft, RootTyped DEF PhaseInv
<1>3. /\ errors' \in [Rows -> SUBSET scope]
      /\ \A i \in Rows : errors'[i] \subseteq needs[i]
  <2>1. UNCHANGED errors \/ RowError(File)
    BY DEF Read, Stage, Verify, Check, Replace, Cleanup, GoOn, GiveUp
  <2>2. /\ errors \in [Rows -> SUBSET scope]
        /\ \A i \in Rows : errors[i] \subseteq needs[i]
    BY DEF TypeOK
  <2> QED
    BY <1>2, <2>1, <2>2 DEF RowError
<1>4. /\ pc' \in Applying
      /\ pc' \in Staged => todo' # {}
      /\ todo' \subseteq todo
  BY <1>1 DEF Read, Stage, Verify, Check, Replace, Cleanup, FileStep, GoOn, GiveUp, Applying, Staged
<1>5. UNCHANGED <<source, mode, expected, before, snapshot, complete>>
  BY DEF Read, Stage, Verify, Check, Replace, Cleanup, FileStep, planVars, worldVars
<1>6. PhaseInv'
  <2>1. Len(rows) <= NTargets /\ todo \subseteq needs[row]
    BY <1>1 DEF PhaseInv
  <2>2. pc' \notin {"hash", "compare"}
    BY <1>4 DEF Applying, Staged
  <2> QED
    BY <1>2, <1>4, <2>1, <2>2 DEF PhaseInv
<1>7. pc' \in {"apply", "stage", "verify", "check", "replace", "cleanup"} /\ todo' \subseteq scope
  <2>1. todo \subseteq scope
    BY DEF TypeOK
  <2> QED
    BY <1>4, <2>1 DEF Applying, Staged
<1>8. CASE Read \/ Verify \/ Check
  <2>1. content' \in Bytes /\ UNCHANGED <<target, written, temporary, disk, leftovers, settled>>
    BY <1>2, <1>8 DEF Read, Verify, Check, FileStep, fileVars, Works, Fails, TypeOK, Bytes
  <2> QED
    BY <1>2, <1>3, <1>5, <1>6, <1>7, <2>1 DEF TypeOK
<1>9. CASE Stage
  <2>1. /\ temporary' \in Bytes /\ UNCHANGED <<target, written, content, leftovers, settled>>
        /\ disk \subseteq disk' /\ disk' \subseteq Targets \X scope
    BY <1>2, <1>9 DEF Stage, FileStep, Works, Fails, TypeOK
  <2> QED
    BY <1>2, <1>3, <1>5, <1>6, <1>7, <2>1 DEF TypeOK
<1>10. CASE Replace
  <2>1. target' \in [Targets -> [Files -> Bytes]] /\ temporary' \in Bytes
    <3>1. /\ target \in [Targets -> [Files -> Bytes]] /\ temporary \in Bytes /\ Absent \in Bytes
      BY DEF TypeOK, Bytes
    <3>2. /\ target' = target \/ target' = [target EXCEPT ![Root][File] = temporary]
          /\ temporary' \in {temporary, Absent}
      BY <1>10 DEF Replace
    <3> QED
      BY <1>2, <3>1, <3>2, OtherValue
  <2>2. /\ written' \in [Rows -> SUBSET scope] /\ \A i \in Rows : written'[i] \subseteq needs[i]
    BY <1>2, <1>10 DEF Replace, TypeOK
  <2>3. settled' \subseteq Targets \X Files /\ UNCHANGED <<content, leftovers>>
    BY <1>2, <1>10 DEF Replace, FileStep, Fails, TypeOK
  <2>4. disk' \subseteq Targets \X scope
    BY <1>10 DEF Replace, TypeOK
  <2> QED
    BY <1>2, <1>3, <1>5, <1>6, <1>7, <2>1, <2>2, <2>3, <2>4 DEF TypeOK
<1>11. CASE Cleanup
  <2>1. /\ UNCHANGED <<target, written, settled>> /\ content' \in Bytes /\ temporary' \in Bytes
        /\ leftovers' \subseteq Targets \X scope /\ disk' \subseteq Targets \X scope
    BY <1>2, <1>11 DEF Cleanup, Works, Fails, worldVars, TypeOK, Bytes
  <2> QED
    BY <1>2, <1>3, <1>5, <1>6, <1>7, <2>1 DEF TypeOK
<1> QED
  BY <1>8, <1>9, <1>10, <1>11

\* The report, and what others do.
LEMMA OtherTypes ==
  ASSUME TypeOK, PhaseInv, Report \/ EditSource \/ EditTarget \/ Die
  PROVE  TypeOK' /\ PhaseInv'
<1>1. CASE Report
  <2>1. Rows' = Rows /\ UNCHANGED rows /\ pc' = "idle" /\ 1 \in 1..NTargets
    BY <1>1, InstallerAssumption DEF Report, Rows
  <2>2. NoFiles \in [Files -> Bytes]
    BY DEF NoFiles, Bytes
  <2>3. before' \in [Rows -> [Files -> Bytes]]
    BY <1>1, <2>1, <2>2 DEF Report, Forget, Rows
  <2>4. TypeOK'
    BY <1>1, <2>1, <2>2, <2>3 DEF Report, Forget, TypeOK, Bytes, worldVars, ghostVars
  <2>5. PhaseInv'
    BY <2>1 DEF PhaseInv, Applying, Staged
  <2> QED
    BY <2>4, <2>5
<1>2. CASE EditSource \/ EditTarget
  <2>1. /\ UNCHANGED <<pc, planVars, row, todo, errors, written, fileVars, leftovers, snapshot, complete, disk>>
        /\ Rows' = Rows
    BY <1>2 DEF EditSource, EditTarget, Edits, planVars, Rows
  <2>2. source' \in [Files -> Contents] /\ settled' \subseteq settled
    <3>1. CASE EditSource
      BY <3>1 DEF EditSource, TypeOK
    <3>2. CASE EditTarget
      BY <3>2 DEF EditTarget, TypeOK
    <3> QED
      BY <1>2, <3>1, <3>2
  <2>3. target' \in [Targets -> [Files -> Bytes]]
    <3>1. CASE EditSource
      BY <3>1 DEF EditSource, TypeOK
    <3>2. CASE EditTarget
      <4>1. PICK t \in Targets, f \in Files, bytes \in Bytes : target' = [target EXCEPT ![t][f] = bytes]
        BY <3>2 DEF EditTarget
      <4> QED
        BY <4>1, OtherValue DEF TypeOK
    <3> QED
      BY <1>2, <3>1, <3>2
  <2>4. TypeOK'
    BY <2>1, <2>2, <2>3 DEF TypeOK, planVars, fileVars
  <2>5. PhaseInv'
    BY <2>1 DEF PhaseInv, planVars
  <2> QED
    BY <2>4, <2>5
<1>3. CASE Die
  BY <1>3, EndTypes DEF Die, Fails
<1> QED
  BY <1>1, <1>2, <1>3

LEMMA TypesStep ==
  ASSUME TypeOK, PhaseInv, [Next]_vars
  PROVE  TypeOK' /\ PhaseInv'
<1>1. CASE UNCHANGED vars
  BY <1>1 DEF vars, TypeOK, PhaseInv, Rows
<1> QED
  BY <1>1, PlanTypes, RowTypes, FileTypes, OtherTypes DEF Next, Plan, Apply

\* Type correctness.
THEOREM TypeCorrect == Spec => []TypeOK
<1>1. TypeOK /\ PhaseInv /\ [Next]_vars => TypeOK' /\ PhaseInv'
  BY TypesStep
<1> QED
  BY <1>1, InitTypes, PTL DEF Spec

-----------------------------------------------------------------------------
\* A file operation belongs to the row and the file at hand.
LEMMA AtHand ==
  ASSUME TypeOK, PhaseInv, pc \in Applying, todo # {}
  PROVE  /\ row \in Rows /\ Root \in Targets
         /\ File \in todo /\ File \in Files /\ File \in needs[row]
<1>1. row \in Rows
  BY DEF PhaseInv, Applying, Staged
<1> QED
  BY <1>1, FileLeft, RootTyped DEF PhaseInv

\* The plan's records.
LEMMA NeedsStep ==
  ASSUME TypeOK, PhaseInv, NeedsInv, [Next]_vars
  PROVE  NeedsInv'
<1>1. CASE UNCHANGED vars
  BY <1>1 DEF vars, NeedsInv, Rows
<1>2. CASE Start
  <2>1. pc' = "hash" /\ needs' = [i \in Rows' |-> {}] /\ errors' = [i \in Rows' |-> {}]
    BY <1>2 DEF Start, Rows
  <2> QED
    BY <2>1 DEF NeedsInv
<1>3. CASE HashSource
  <2>1. CASE UNCHANGED <<pc, result, rows>>
    <3>1. Rows' = Rows /\ pc = "hash" /\ pc' = "hash" /\ UNCHANGED <<needs, errors>>
      BY <1>3, <2>1 DEF HashSource, Rows, Forget
    <3> QED
      BY <3>1 DEF NeedsInv
  <2>2. CASE pc' = "idle"
    BY <2>2 DEF NeedsInv
  <2> QED
    BY <1>3, <2>1, <2>2 DEF HashSource
<1>4. CASE SnapshotForPlan
  <2>1. Rows' = Rows /\ pc = "hash" /\ pc' = "compare" /\ UNCHANGED <<needs, errors>>
    BY <1>4 DEF SnapshotForPlan, Snapshot, planVars, Rows
  <2> QED
    BY <2>1 DEF NeedsInv
<1>5. CASE CompareTarget
  <2>1. /\ File \in todo /\ File \in Files /\ row \in Rows /\ todo' = todo \ {File}
        /\ Rows' = Rows /\ pc = "compare" /\ UNCHANGED <<pc, rows, row, expected>>
    BY <1>5, FileLeft DEF CompareTarget, PhaseInv, Rows
  <2>2. /\ before \in [Rows -> [Files -> Bytes]] /\ needs \in [Rows -> SUBSET scope]
        /\ errors \in [Rows -> SUBSET scope] /\ scope \subseteq Files
    BY DEF TypeOK
  <2>3. /\ \A i \in Rows : \A f \in needs'[i] : f \in needs[i] \/ (i = row /\ f = File)
        /\ \A i \in Rows : errors[i] \subseteq errors'[i]
    BY <1>5, <2>1, <2>2 DEF CompareTarget, RowError
  <2>4. \A i \in Rows, f \in Files : ~(i = row /\ f = File) => before'[i][f] = before[i][f]
    BY <1>5, <2>1, <2>2 DEF CompareTarget
  <2>5. File \in needs'[row] \ errors'[row] =>
          before'[row][File] # expected[File] /\ (File \in Config => before'[row][File] = Absent)
    <3>1. File \notin needs[row]
      BY <2>1 DEF NeedsInv, Rows
    <3> QED
      BY <1>5, <2>1, <2>2, <3>1 DEF CompareTarget, RowError, NeedsUpdate, Preserved
  <2>6. \A i \in Rows' : \A f \in needs'[i] : i < row' \/ (i = row' /\ f \notin todo')
    BY <2>1, <2>3 DEF NeedsInv
  <2>7. \A i \in Rows' : \A f \in needs'[i] \ errors'[i] :
          before'[i][f] # expected'[f] /\ (f \in Config => before'[i][f] = Absent)
    <3> SUFFICES ASSUME NEW i \in Rows, NEW f \in needs'[i] \ errors'[i]
                 PROVE  before'[i][f] # expected[f] /\ (f \in Config => before'[i][f] = Absent)
      BY <2>1
    <3>1. CASE i = row /\ f = File
      BY <2>5, <3>1
    <3>2. CASE ~(i = row /\ f = File)
      <4>1. f \in needs[i] \ errors[i] /\ f \in Files
        BY <2>2, <2>3, <3>2
      <4>2. before'[i][f] = before[i][f]
        BY <2>4, <3>2, <4>1
      <4> QED
        BY <2>1, <4>1, <4>2 DEF NeedsInv
    <3> QED
      BY <3>1, <3>2
  <2> QED
    BY <2>1, <2>6, <2>7 DEF NeedsInv
<1>6. CASE DiagnosePlan
  <2>1. /\ Rows' = Rows /\ pc = "compare" /\ pc' \in {"compare", "apply", "report"} /\ todo = {}
        /\ pc' = "compare" => row' = row + 1
        /\ UNCHANGED <<needs, errors, before, expected>>
    BY <1>6 DEF DiagnosePlan, planVars, Rows
  <2>2. row \in Nat /\ \A i \in Rows : i \in Nat
    BY InstallerAssumption, LenProperties DEF TypeOK, Rows
  <2> QED
    BY <2>1, <2>2 DEF NeedsInv
<1>7. CASE Apply \/ DiagnoseResult
  <2>1. /\ Rows' = Rows /\ pc \notin {"idle", "hash", "compare"} /\ pc' \notin {"hash", "compare"}
        /\ UNCHANGED <<needs, before, expected>>
    BY <1>7 DEF Apply, NextRow, Snapshot, Read, Stage, Verify, Check, Replace, Cleanup, DiagnoseResult,
            FileStep, GoOn, GiveUp, planVars, Rows
  <2>2. \A i \in Rows : errors[i] \subseteq errors'[i]
    <3>1. errors \in [Rows -> SUBSET scope]
      BY DEF TypeOK
    <3>2. errors' = errors \/ RowError(File)
      BY <1>7 DEF Apply, NextRow, Read, Stage, Verify, Check, Replace, Cleanup, DiagnoseResult,
              FileStep, GoOn, GiveUp, planVars
    <3> QED
      BY <3>1, <3>2 DEF RowError
  <2> QED
    BY <2>1, <2>2 DEF NeedsInv
<1>8. CASE Report \/ Die
  BY <1>8 DEF Report, Die, NeedsInv
<1>9. CASE EditSource \/ EditTarget
  <2>1. Rows' = Rows /\ UNCHANGED <<pc, needs, errors, before, expected, row, todo>>
    BY <1>9 DEF EditSource, EditTarget, Edits, planVars, Rows
  <2> QED
    BY <2>1 DEF NeedsInv
<1> QED
  BY <1>1, <1>2, <1>3, <1>4, <1>5, <1>6, <1>7, <1>8, <1>9 DEF Next, Plan

\* The file at hand.
LEMMA FileInvStep ==
  ASSUME TypeOK, PhaseInv, FileInv, [Next]_vars
  PROVE  FileInv'
<1>1. CASE UNCHANGED vars
  BY <1>1 DEF vars, FileInv, File, Root
<1>2. CASE Plan \/ NextRow \/ DiagnoseResult \/ Report \/ Die \/ Cleanup
  <2>1. pc' \notin Staged
    BY <1>2 DEF Plan, Start, HashSource, SnapshotForPlan, CompareTarget, DiagnosePlan, NextRow,
            DiagnoseResult, Report, Die, Cleanup, Snapshot, Staged
  <2> QED
    BY <2>1 DEF FileInv, Staged
<1>3. CASE Read \/ Stage \/ Verify \/ Check \/ Replace
  <2>1. /\ File' = File /\ Root' = Root /\ pc' \in Staged
        /\ UNCHANGED <<row, expected, before>>
    BY <1>3 DEF Read, Stage, Verify, Check, Replace, FileStep, GoOn, GiveUp, planVars, File, Root, Staged
  <2>2. CASE pc' = "cleanup"
    BY <2>2 DEF FileInv
  <2>3. CASE pc' # "cleanup"
    <3>1. UNCHANGED errors /\ errors[row] = {} /\ pc' \in Staged \ {"cleanup"}
      BY <1>3, <2>1, <2>3 DEF Read, Stage, Verify, Check, Replace, GoOn, GiveUp, FileInv, Staged
    <3>2. CASE Read
      BY <2>1, <2>3, <3>1, <3>2 DEF Read, GoOn, GiveUp, Planned, FileInv
    <3>3. CASE Stage
      BY <2>1, <2>3, <3>1, <3>3 DEF Stage, GoOn, GiveUp, FileInv, Staged
    <3>4. CASE Verify
      BY <2>1, <2>3, <3>1, <3>4 DEF Verify, GoOn, GiveUp, Planned, fileVars, FileInv, Staged
    <3>5. CASE Check
      <4>1. pc = "check" /\ pc' = "replace" /\ Unchanged(File) /\ UNCHANGED <<target, fileVars>>
        BY <2>3, <3>5 DEF Check, GiveUp, GoOn
      <4> QED
        BY <2>1, <3>1, <4>1 DEF Unchanged, fileVars, FileInv, Staged
    <3>6. CASE Replace
      BY <2>3, <3>6 DEF Replace, GoOn, GiveUp
    <3> QED
      BY <1>3, <3>2, <3>3, <3>4, <3>5, <3>6
  <2> QED
    BY <2>2, <2>3
<1>4. CASE EditSource
  <2>1. /\ File' = File /\ Root' = Root
        /\ UNCHANGED <<pc, row, expected, before, content, temporary, errors, raced, target>>
    BY <1>4 DEF EditSource, Edits, planVars, fileVars, File, Root
  <2> QED
    BY <2>1 DEF FileInv
<1>5. CASE EditTarget
  <2>1. /\ File' = File /\ Root' = Root
        /\ UNCHANGED <<pc, row, expected, before, content, temporary, errors>>
    BY <1>5 DEF EditTarget, Edits, planVars, fileVars, File, Root
  <2>2. PICK t \in Targets, f \in Files, bytes \in Bytes :
          /\ target' = [target EXCEPT ![t][f] = bytes]
          /\ raced' = (raced \/ (pc = "replace" /\ t = Root /\ f = File))
    BY <1>5 DEF EditTarget
  <2>3. pc' = "replace" /\ ~raced' => target'[Root][File] = before[row][File]
    <3> SUFFICES ASSUME pc' = "replace", ~raced' PROVE target'[Root][File] = before[row][File]
      OBVIOUS
    <3>1. pc = "replace" /\ ~raced /\ ~(t = Root /\ f = File)
      BY <2>1, <2>2
    <3>2. Root \in Targets /\ File \in Files
      BY <3>1, AtHand DEF PhaseInv, Applying, Staged
    <3>3. target'[Root][File] = target[Root][File]
      BY <2>2, <3>1, <3>2, OtherValue DEF TypeOK
    <3> QED
      BY <3>1, <3>3 DEF FileInv
  <2> QED
    BY <2>1, <2>3 DEF FileInv
<1> QED
  BY <1>1, <1>2, <1>3, <1>4, <1>5 DEF Next, Apply

\* What stays installed.
LEMMA SettledStep ==
  ASSUME TypeOK, PhaseInv, FileInv, SettledInv, [Next]_vars
  PROVE  SettledInv'
<1>1. CASE UNCHANGED vars
  BY <1>1 DEF vars, SettledInv, File, Root
<1>2. CASE Plan \/ NextRow \/ DiagnoseResult \/ Report \/ Die \/ Cleanup \/ Read \/ Stage
  <2>1. UNCHANGED <<source, target, settled>> /\ pc' \notin {"check", "replace"}
    BY <1>2 DEF Plan, Start, HashSource, SnapshotForPlan, CompareTarget, DiagnosePlan, NextRow,
            DiagnoseResult, Diagnose, Report, Die, Cleanup, Snapshot, Read, Stage, FileStep, GoOn, GiveUp,
            Works, Fails, worldVars, ghostVars
  <2> QED
    BY <2>1 DEF SettledInv
<1>3. CASE Verify \/ Check
  <2>1. /\ File' = File /\ Root' = Root
        /\ UNCHANGED <<source, target, settled, expected>>
        /\ pc' \in {"check", "replace", "cleanup"}
        /\ pc' = "check" => source[File] = expected[File]
        /\ pc' = "replace" => pc = "check"
    BY <1>3 DEF Verify, Check, FileStep, GoOn, GiveUp, Planned, Works, Fails, planVars, File, Root
  <2> QED
    BY <2>1 DEF SettledInv
<1>4. CASE Replace
  <2>1. pc = "replace" /\ pc' = "cleanup" /\ UNCHANGED source
    BY <1>4 DEF Replace, GoOn, GiveUp, FileStep
  <2>2. CASE UNCHANGED <<target, settled>>
    BY <2>1, <2>2 DEF SettledInv
  <2>3. CASE /\ target' = [target EXCEPT ![Root][File] = temporary]
             /\ settled' = IF temporary = source[File] THEN settled \cup {<<Root, File>>} ELSE settled
    <3>1. Root \in Targets /\ File \in Files
      BY <2>1, AtHand DEF PhaseInv, Applying, Staged
    <3>2. temporary = expected[File] /\ temporary \in Bytes
      BY <2>1 DEF FileInv, TypeOK
    <3>3. <<Root, File>> \in settled' => temporary = source[File]
      BY <2>1, <2>3, <3>2 DEF SettledInv
    <3>4. \A t \in Targets, f \in Files :
            target'[t][f] = IF t = Root /\ f = File THEN temporary ELSE target[t][f]
      BY <2>3, <3>1, <3>2, OtherValue DEF TypeOK
    <3>5. ASSUME NEW t \in Targets, NEW f \in Files, <<t, f>> \in settled'
          PROVE  target'[t][f] = source[f]
      <4>1. CASE t = Root /\ f = File
        BY <3>3, <3>4, <3>5, <4>1
      <4>2. CASE ~(t = Root /\ f = File)
        <5>1. <<t, f>> \in settled
          BY <2>3, <3>5, <4>2
        <5> QED
          BY <3>4, <4>2, <5>1 DEF SettledInv
      <4> QED
        BY <4>1, <4>2
    <3> QED
      BY <2>1, <3>5 DEF SettledInv
  <2> QED
    BY <1>4, <2>2, <2>3 DEF Replace, Fails
<1>5. CASE EditSource
  <2>1. /\ File' = File /\ Root' = Root /\ UNCHANGED <<pc, expected, target>>
    BY <1>5 DEF EditSource, Edits, planVars, File, Root
  <2>2. PICK g \in Files, bytes \in Contents :
          /\ source' = [source EXCEPT ![g] = bytes] /\ settled' = settled \ (Targets \X {g})
    BY <1>5 DEF EditSource
  <2>3. ASSUME NEW t \in Targets, NEW f \in Files, <<t, f>> \in settled'
        PROVE  <<t, f>> \in settled /\ source'[f] = source[f]
    BY <2>2, <2>3 DEF TypeOK
  <2>4. pc \in {"check", "replace"} => Root \in Targets /\ File \in Files
    BY AtHand DEF PhaseInv, Applying, Staged
  <2> QED
    BY <2>1, <2>3, <2>4 DEF SettledInv
<1>6. CASE EditTarget
  <2>1. /\ File' = File /\ Root' = Root /\ UNCHANGED <<pc, expected, source>>
    BY <1>6 DEF EditTarget, Edits, planVars, File, Root
  <2>2. PICK u \in Targets, g \in Files, bytes \in Bytes :
          target' = [target EXCEPT ![u][g] = bytes] /\ settled' = settled \ {<<u, g>>}
    BY <1>6 DEF EditTarget
  <2>3. ASSUME NEW t \in Targets, NEW f \in Files, <<t, f>> \in settled'
        PROVE  <<t, f>> \in settled /\ target'[t][f] = target[t][f]
    <3>1. <<t, f>> \in settled /\ ~(t = u /\ f = g)
      BY <2>2, <2>3
    <3> QED
      BY <2>2, <3>1, OtherValue DEF TypeOK
  <2>4. settled' \subseteq settled
    BY <2>2
  <2> QED
    BY <2>1, <2>3, <2>4 DEF SettledInv
<1> QED
  BY <1>1, <1>2, <1>3, <1>4, <1>5, <1>6 DEF Next, Apply

-----------------------------------------------------------------------------
\* The rows of a plan are different roots: a root is first named once.
LEMMA RowsDiffer ==
  ASSUME NEW choice \in Destinations, NEW order \in RowsOf(choice),
         NEW i \in 1..Len(order), NEW j \in 1..Len(order), order[i] = order[j]
  PROVE  i = j
<1>1. /\ order \in Seq(Targets) /\ Len(order) \in Nat /\ DOMAIN order = 1..Len(order)
      /\ choice \in Seq(Targets) /\ Len(choice) \in Nat /\ DOMAIN choice = 1..Len(choice)
      /\ i \in Nat /\ j \in Nat
  BY RowsTyped, LenProperties, InstallerAssumption
<1>2. order[i] \in {choice[k] : k \in DOMAIN choice}
  BY <1>1 DEF RowsOf, Range
<1>3. FirstNamed(choice, order[i]) \in Nat
  <2> DEFINE Naming == {k \in DOMAIN choice : choice[k] = order[i]}
  <2>1. Naming # {} /\ Naming \subseteq Nat
    BY <1>1, <1>2
  <2>2. PICK k \in Naming : \A l \in Naming : k <= l
    BY <2>1, LeastNatural
  <2>3. k \in DOMAIN choice /\ choice[k] = order[i] /\ \A l \in 1..k - 1 : choice[l] # order[i]
    <3>1. k \in Nat /\ k \in 1..Len(choice) /\ choice[k] = order[i]
      BY <1>1, <2>1
    <3>2. ASSUME NEW l \in 1..k - 1 PROVE choice[l] # order[i]
      <4>1. l \in DOMAIN choice /\ ~(k <= l)
        BY <1>1, <3>1
      <4> QED
        BY <2>2, <4>1
    <3> QED
      BY <1>1, <3>1, <3>2
  <2>4. FirstNamed(choice, order[i]) \in DOMAIN choice
    BY <2>3 DEF FirstNamed
  <2> QED
    BY <1>1, <2>4
<1>4. \A k, l \in DOMAIN order : k < l => FirstNamed(choice, order[k]) < FirstNamed(choice, order[l])
  BY DEF RowsOf
<1>5. ~(FirstNamed(choice, order[i]) < FirstNamed(choice, order[i]))
  BY <1>3
<1>6. ~(i < j) /\ ~(j < i)
  BY <1>1, <1>4, <1>5
<1> QED
  BY <1>1, <1>6

LEMMA DistinctStep ==
  ASSUME Distinct, [Next]_vars
  PROVE  Distinct'
<1>1. CASE Start
  <2>1. PICK choice \in Destinations : rows' \in RowsOf(choice)
    BY <1>1 DEF Start
  <2> QED
    BY <2>1, RowsDiffer DEF Distinct, Rows
<1>2. CASE rows' = <<>>
  BY <1>2 DEF Distinct, Rows
<1>3. CASE UNCHANGED rows
  BY <1>3 DEF Distinct, Rows
<1>4. Start \/ rows' = <<>> \/ UNCHANGED rows
  BY DEF Next, Plan, Apply, HashSource, SnapshotForPlan, CompareTarget, DiagnosePlan, NextRow,
         DiagnoseResult, Report, Die, Cleanup, Read, Stage, Verify, Check, Replace, FileStep,
         EditSource, EditTarget, Edits, ForgetReport, planVars, vars
<1> QED
  BY <1>1, <1>2, <1>3, <1>4

\* With one row for each root, a written file is of one row.
LEMMA WrittenFile ==
  ASSUME Distinct, NEW i \in Rows, NEW f
  PROVE  <<rows[i], f>> \in WrittenFiles <=> f \in written[i]
  BY DEF WrittenFiles, Distinct

\* The temporaries, at every step.
LEMMA TemporaryStep ==
  ASSUME TypeOK, PhaseInv, Distinct, TemporaryInv, [Next]_vars
  PROVE  TemporaryInv'
<1>1. CASE UNCHANGED vars
  BY <1>1 DEF vars, TemporaryInv, Past, Moved, WrittenFiles, File, Root, Rows
<1>2. CASE /\ temporary' = Absent
           /\ pc' \notin Applying \/ \A i \in Rows' : written'[i] = {}
           /\ \/ UNCHANGED <<disk, leftovers, temporary, rows, written>> /\ pc' \notin Applying
              \/ disk' = {} /\ leftovers' = {}
  BY <1>2 DEF TemporaryInv, WrittenFiles, Rows
<1>3. CASE Start
  <2>1. temporary = Absent
    BY <1>3 DEF Start, TemporaryInv, Staged
  <2> QED
    BY <1>2, <1>3, <2>1 DEF Start, fileVars, Applying, Staged
<1>4. CASE HashSource
  <2>1. disk = {} /\ leftovers = {} /\ temporary = Absent /\ pc = "hash"
    BY <1>4 DEF HashSource, PhaseInv, TemporaryInv, Staged
  <2> QED
    BY <1>2, <1>4, <2>1 DEF HashSource, ForgetReport, Forget, fileVars, Applying, Staged
<1>5. CASE SnapshotForPlan \/ CompareTarget \/ DiagnosePlan
  <2>1. disk = {} /\ leftovers = {} /\ temporary = Absent /\ \A i \in Rows : written[i] = {}
    BY <1>5 DEF SnapshotForPlan, CompareTarget, DiagnosePlan, PhaseInv, TemporaryInv, Staged
  <2>2. UNCHANGED <<disk, leftovers, temporary, rows, written>>
    BY <1>5 DEF SnapshotForPlan, CompareTarget, DiagnosePlan, fileVars, planVars
  <2> QED
    BY <1>2, <2>1, <2>2 DEF Rows
<1>6. CASE DiagnoseResult \/ Report
  <2>1. temporary = Absent /\ pc' \notin Applying
    BY <1>6 DEF DiagnoseResult, Report, TemporaryInv, Staged, Applying
  <2>2. temporary' = Absent /\ UNCHANGED <<disk, leftovers, rows, written>>
    BY <1>6, <2>1 DEF DiagnoseResult, Report, Forget, ghostVars, fileVars, planVars
  <2> QED
    BY <1>2, <2>1, <2>2
<1>7. CASE Die
  BY <1>2, <1>7 DEF Die, ForgetReport, Forget, Applying, Staged
<1>8. CASE NextRow
  <2>1. /\ Rows' = Rows /\ UNCHANGED <<disk, leftovers, temporary, rows, written>> /\ pc = "apply"
        /\ (pc' = "apply" /\ row' = row + 1) \/ pc' = "diagnose"
    BY <1>8 DEF NextRow, Snapshot, planVars, fileVars, Rows
  <2>2. temporary = Absent /\ row \in Nat /\ \A i \in Rows : i \in Nat
    BY <2>1, InstallerAssumption, LenProperties DEF TemporaryInv, Staged, TypeOK, Rows
  <2>3. \A i \in Rows, f \in Files : <<rows[i], f>> \in leftovers \/ f \in written[i] => i <= row
    BY <2>1, <2>2 DEF TemporaryInv, Past, Moved, Applying
  <2>4. WrittenFiles' = WrittenFiles
    BY <2>1 DEF WrittenFiles
  <2>5. CASE pc' = "apply" /\ row' = row + 1
    <3>1. \A i \in Rows, f \in Files : <<rows[i], f>> \in leftovers \/ f \in written[i] => i < row'
      BY <2>2, <2>3, <2>5
    <3> QED
      BY <2>1, <2>2, <2>4, <3>1 DEF TemporaryInv, Past
  <2>6. CASE pc' = "diagnose"
    BY <2>1, <2>2, <2>4, <2>6 DEF TemporaryInv, Applying, Staged
  <2> QED
    BY <2>1, <2>5, <2>6
<1>9. CASE Read \/ Stage \/ Verify \/ Check \/ Replace \/ Cleanup
  <2>1. /\ pc \in Applying /\ pc' \in Applying /\ todo # {} /\ todo' \subseteq todo
        /\ Rows' = Rows /\ UNCHANGED <<rows, row>> /\ Root' = Root
    BY <1>9 DEF Read, Stage, Verify, Check, Replace, Cleanup, Applying, Staged, PhaseInv, FileStep,
            GoOn, GiveUp, planVars, Rows, Root
  <2>2. row \in Rows /\ File \in todo /\ File \in Files /\ Root = rows[row]
    BY <2>1, AtHand DEF Root
  <2>3. ~(row < row)
    <3>1. row \in Nat
      BY InstallerAssumption DEF TypeOK
    <3> QED
      BY <3>1
  <2>4. ~Past(row, File) /\ <<Root, File>> \notin leftovers
    BY <2>1, <2>2, <2>3 DEF TemporaryInv, Past
  <2>5. File \in written[row] => pc = "cleanup" /\ temporary = Absent
    BY <2>1, <2>2, <2>4 DEF TemporaryInv, Moved
  <2>6. CASE Read \/ Stage \/ Verify \/ Check
    <3>1. /\ UNCHANGED <<leftovers, todo, written>> /\ File' = File /\ WrittenFiles' = WrittenFiles
      BY <2>1, <2>6 DEF Read, Stage, Verify, Check, FileStep, fileVars, File, WrittenFiles
    <3>2. pc # "cleanup"
      BY <2>6 DEF Read, Stage, Verify, Check
    <3>3. \A i \in Rows, f \in Files :
            (<<rows[i], f>> \in leftovers' => Past(i, f)') /\ (f \in written'[i] => Past(i, f)')
      BY <2>1, <3>1, <3>2 DEF TemporaryInv, Past, Moved
    <3>4. temporary' # Absent => pc' \in Staged \ {"stage"}
      BY <2>6 DEF TemporaryInv, Read, Stage, Verify, Check, GoOn, GiveUp, Staged, fileVars
    <3>5. disk' = (leftovers \ WrittenFiles) \cup (IF temporary' = Absent THEN {} ELSE {<<Root, File>>})
      <4>1. CASE Stage
        BY <4>1 DEF Stage, TemporaryInv
      <4>2. CASE Read \/ Verify \/ Check
        BY <4>2 DEF Read, Verify, Check, fileVars, TemporaryInv
      <4> QED
        BY <2>6, <4>1, <4>2
    <3> QED
      BY <2>1, <3>1, <3>3, <3>4, <3>5 DEF TemporaryInv
  <2>7. CASE Replace
    <3>1. /\ UNCHANGED <<leftovers, todo>> /\ File' = File /\ pc' = "cleanup" /\ pc = "replace"
      BY <2>7 DEF Replace, FileStep, GoOn, GiveUp, File
    <3>2. CASE UNCHANGED <<disk, temporary, written>>
      <4>1. WrittenFiles' = WrittenFiles
        BY <2>1, <3>2 DEF WrittenFiles
      <4>2. \A i \in Rows, f \in Files :
              (<<rows[i], f>> \in leftovers' => Past(i, f)') /\ (f \in written'[i] => Past(i, f)')
        BY <2>1, <3>1, <3>2 DEF TemporaryInv, Past, Moved
      <4> QED
        BY <2>1, <3>1, <3>2, <4>1, <4>2 DEF TemporaryInv, Staged
    <3>3. CASE /\ temporary' = Absent /\ disk' = disk \ {<<Root, File>>}
               /\ written' = [written EXCEPT ![row] = @ \cup {File}]
      <4>1. \A i \in Rows : written'[i] = IF i = row THEN written[row] \cup {File} ELSE written[i]
        BY <3>3 DEF TypeOK
      <4>2. WrittenFiles' = WrittenFiles \cup {<<Root, File>>}
        BY <2>1, <2>2, <4>1 DEF WrittenFiles
      <4>3. \A i \in Rows, f \in Files :
              /\ <<rows[i], f>> \in leftovers' => Past(i, f)'
              /\ f \in written'[i] => Past(i, f)' \/ Moved(i, f)'
        BY <2>1, <3>1, <3>3, <4>1 DEF TemporaryInv, Past, Moved
      <4>4. disk' = leftovers' \ WrittenFiles'
        BY <2>4, <3>1, <3>3, <4>2 DEF TemporaryInv
      <4> QED
        BY <2>1, <3>3, <4>3, <4>4 DEF TemporaryInv
    <3> QED
      BY <2>7, <3>2, <3>3 DEF Replace
  <2>8. CASE Cleanup
    <3>1. /\ temporary' = Absent /\ todo' = todo \ {File} /\ UNCHANGED written
          /\ \/ temporary = Absent /\ UNCHANGED <<disk, leftovers>>
             \/ temporary # Absent /\ disk' = disk \ {<<Root, File>>} /\ UNCHANGED leftovers
             \/ /\ temporary # Absent \/ File \in written[row]
                /\ leftovers' = leftovers \cup {<<Root, File>>} /\ UNCHANGED disk
      BY <2>8 DEF Cleanup, Removes, Named
    <3>2. WrittenFiles' = WrittenFiles /\ (<<Root, File>> \in WrittenFiles <=> File \in written[row])
      BY <2>1, <2>2, <3>1, WrittenFile DEF WrittenFiles
    <3>3. disk' = leftovers' \ WrittenFiles'
      BY <2>4, <2>5, <3>1, <3>2 DEF TemporaryInv
    <3>4. ASSUME NEW i \in Rows, NEW f \in Files,
                 <<rows[i], f>> \in leftovers' \/ f \in written'[i]
          PROVE  Past(i, f)'
      <4>1. CASE <<rows[i], f>> \in leftovers \/ f \in written[i]
        BY <2>1, <2>2, <3>1, <4>1 DEF TemporaryInv, Past, Moved
      <4>2. CASE <<rows[i], f>> = <<Root, File>>
        BY <2>1, <2>2, <3>1, <4>2 DEF Distinct, Past
      <4> QED
        BY <3>1, <3>4, <4>1, <4>2
    <3> QED
      BY <2>1, <3>1, <3>3, <3>4 DEF TemporaryInv
  <2> QED
    BY <1>9, <2>6, <2>7, <2>8
<1>10. CASE EditSource \/ EditTarget
  <2>1. /\ UNCHANGED <<pc, rows, row, todo, leftovers, disk, temporary, written>>
        /\ File' = File /\ Root' = Root /\ Rows' = Rows
    BY <1>10 DEF EditSource, EditTarget, Edits, planVars, fileVars, File, Root, Rows
  <2> QED
    BY <2>1 DEF TemporaryInv, Past, Moved, WrittenFiles
<1> QED
  BY <1>1, <1>3, <1>4, <1>5, <1>6, <1>7, <1>8, <1>9, <1>10 DEF Next, Plan, Apply

LEMMA InitInv == Init => Inv
<1> SUFFICES ASSUME Init PROVE Inv
  OBVIOUS
<1>1. Rows = {}
  BY DEF Init, Rows
<1>2. NeedsInv /\ FileInv /\ SettledInv /\ Distinct /\ TemporaryInv
  BY <1>1 DEF Init, NeedsInv, FileInv, SettledInv, Distinct, TemporaryInv, Applying, Staged
<1> QED
  BY <1>2, InitTypes DEF Inv

LEMMA InvStep == Inv /\ [Next]_vars => Inv'
<1> SUFFICES ASSUME Inv, [Next]_vars PROVE Inv'
  OBVIOUS
<1>1. TypeOK /\ PhaseInv /\ NeedsInv /\ FileInv /\ SettledInv /\ Distinct /\ TemporaryInv
  BY DEF Inv
<1>2. TypeOK' /\ PhaseInv' /\ NeedsInv' /\ FileInv'
  BY <1>1, TypesStep, NeedsStep, FileInvStep
<1>3. SettledInv' /\ Distinct' /\ TemporaryInv'
  BY <1>1, SettledStep, DistinctStep, TemporaryStep
<1> QED
  BY <1>2, <1>3 DEF Inv

\* What the plan and the last check know of the file that is about to be replaced.
LEMMA AboutToReplace ==
  ASSUME Inv, pc = "replace"
  PROVE  /\ Root \in Targets /\ File \in Files
         /\ temporary = expected[File]
         /\ before[row][File] # expected[File]
         /\ File \in Config => before[row][File] = Absent
         /\ ~raced => target[Root][File] = before[row][File]
         /\ <<Root, File>> \in settled => target[Root][File] = expected[File]
<1>1. row \in Rows /\ Root \in Targets /\ File \in Files /\ File \in needs[row]
  BY AtHand DEF Inv, PhaseInv, Applying, Staged
<1>2. errors[row] = {} /\ temporary = expected[File] /\ (~raced => target[Root][File] = before[row][File])
  BY DEF Inv, FileInv, Staged
<1>3. before[row][File] # expected[File] /\ (File \in Config => before[row][File] = Absent)
  BY <1>1, <1>2 DEF Inv, NeedsInv
<1>4. <<Root, File>> \in settled => target[Root][File] = expected[File]
  BY <1>1 DEF Inv, SettledInv
<1> QED
  BY <1>1, <1>2, <1>3, <1>4

\* A step that replaces a file writes it from the temporary, or is the end of the process.
LEMMA ReplaceStep ==
  ASSUME Inv, Replaces, [Next]_vars
  PROVE  \/ UNCHANGED target
         \/ target' = [target EXCEPT ![Root][File] = temporary]
<1>1. pc = "replace" /\ written' # written
  BY DEF Replaces
<1> QED
  BY <1>1 DEF Next, Plan, Apply, Start, HashSource, SnapshotForPlan, CompareTarget, DiagnosePlan, NextRow,
         DiagnoseResult, Report, Die, Cleanup, Read, Stage, Verify, Check, Replace, FileStep,
         EditSource, EditTarget, Edits, worldVars, vars

\* A replaced file has the bytes that the plan hashed.
THEOREM WritesPlannedBytesAlways == Spec => WritesPlannedBytes
<1> DEFINE Kept == Replaces =>
                     \A t \in Targets, f \in Files :
                       target'[t][f] # target[t][f] => f = File /\ t = Root /\ target'[t][f] = expected[f]
<1>1. Inv /\ [Next]_vars => Kept
  <2> SUFFICES ASSUME Inv, [Next]_vars, Replaces, NEW t \in Targets, NEW f \in Files,
                      target'[t][f] # target[t][f]
               PROVE  f = File /\ t = Root /\ target'[t][f] = expected[f]
    OBVIOUS
  <2>1. pc = "replace"
    BY DEF Replaces
  <2>2. target' = [target EXCEPT ![Root][File] = temporary]
    BY ReplaceStep
  <2>3. temporary \in Bytes /\ target \in [Targets -> [Files -> Bytes]]
    BY DEF Inv, TypeOK
  <2> QED
    BY <2>1, <2>2, <2>3, AboutToReplace, OtherValue
<1>2. Inv /\ [Next]_vars => [Kept]_vars
  BY <1>1
<1> QED
  BY <1>2, InitInv, InvStep, PTL DEF Spec, WritesPlannedBytes

\* What a replacement overwrites is what the plan saw, and no configuration.
THEOREM UserStateSurvivesAlways == Spec => UserStateSurvives
<1> DEFINE Kept == Replaces /\ ~raced =>
                     /\ target[Root][File] = before[row][File]
                     /\ File \in Config => target[Root][File] = Absent
<1>1. Inv => Kept
  <2> SUFFICES ASSUME Inv, Replaces, ~raced
               PROVE  /\ target[Root][File] = before[row][File]
                      /\ File \in Config => target[Root][File] = Absent
    OBVIOUS
  <2>1. pc = "replace"
    BY DEF Replaces
  <2> QED
    BY <2>1, AboutToReplace
<1>2. Inv /\ [Next]_vars => [Kept]_vars
  BY <1>1
<1> QED
  BY <1>2, InitInv, InvStep, PTL DEF Spec, UserStateSurvives

\* No run rewrites a file that an earlier run installed.
THEOREM RetriesConvergeAlways == Spec => RetriesConverge
<1> DEFINE Kept == Replaces /\ ~raced => <<Root, File>> \notin settled
<1>1. Inv => Kept
  <2> SUFFICES ASSUME Inv, Replaces, ~raced, <<Root, File>> \in settled PROVE FALSE
    OBVIOUS
  <2>1. pc = "replace"
    BY DEF Replaces
  <2> QED
    BY <2>1, AboutToReplace
<1>2. Inv /\ [Next]_vars => [Kept]_vars
  BY <1>1
<1> QED
  BY <1>2, InitInv, InvStep, PTL DEF Spec, RetriesConverge

\* A run that reports names every temporary that it leaves, and besides only those that
\* became a file which it lists as written.
THEOREM TemporariesNamedAlways == Spec => []TemporariesNamed
<1>1. Inv => TemporariesNamed
  BY DEF Inv, TemporaryInv, TemporariesNamed, Reported, Staged
<1> QED
  BY <1>1, InitInv, InvStep, PTL DEF Spec

-----------------------------------------------------------------------------
\* Rows are numbers, and a row that is not the last has a next.
LEMMA RowNumbers ==
  ASSUME TypeOK, PhaseInv, pc # "idle"
  PROVE  /\ row \in Rows /\ row \in Nat /\ Len(rows) \in Nat /\ Rows = 1..Len(rows)
         /\ \A i \in Rows : i \in Nat /\ i >= 1 /\ i <= Len(rows) /\ rows[i] \in Targets
<1>1. rows \in Seq(Targets) /\ Rows = 1..Len(rows) /\ row \in Rows
  BY DEF TypeOK, PhaseInv, Rows
<1>2. Len(rows) \in Nat /\ rows \in [1..Len(rows) -> Targets]
  BY <1>1, LenProperties
<1> QED
  BY <1>1, <1>2

\* The course of the installation.
LEMMA CourseStep ==
  ASSUME TypeOK, PhaseInv, CourseInv, [Next]_vars
  PROVE  CourseInv'
<1>1. CASE UNCHANGED vars
  BY <1>1 DEF vars, CourseInv, File, Rows
<1>2. CASE pc' = "idle"
  BY <1>2 DEF CourseInv, Applying, Staged
<1>3. CASE Start
  <2>1. pc' = "hash" /\ result' = NoResult
    BY <1>3 DEF Start
  <2> QED
    BY <2>1 DEF CourseInv, Applying, Staged
<1>4. CASE HashSource \/ SnapshotForPlan \/ CompareTarget
  <2>1. CASE pc' \in {"hash", "compare"}
    <3>1. UNCHANGED result /\ pc # "idle"
      BY <1>4, <2>1 DEF HashSource, SnapshotForPlan, CompareTarget
    <3> QED
      BY <2>1, <3>1 DEF CourseInv, Applying, Staged
  <2> QED
    BY <1>2, <1>4, <2>1 DEF HashSource, SnapshotForPlan, CompareTarget, Snapshot
<1>5. CASE DiagnosePlan
  <2>1. /\ UNCHANGED <<mode, result, rows, needs, written, errors>> /\ Rows' = Rows /\ pc = "compare"
        /\ \/ pc' = "compare"
           \/ pc' = "apply" /\ mode = "install" /\ row' = 1 /\ todo' = needs[1]
           \/ pc' = "report" /\ mode # "install"
    BY <1>5 DEF DiagnosePlan, planVars, Rows
  <2>2. \A i \in Rows : ~(i < 1)
    BY <1>5, RowNumbers DEF DiagnosePlan
  <2> QED
    BY <2>1, <2>2 DEF CourseInv, Applying, Staged
<1>6. CASE NextRow
  <2>1. /\ UNCHANGED <<mode, result, rows, needs, written, errors>> /\ Rows' = Rows /\ pc = "apply"
        /\ todo = {} \/ errors[row] # {}
        /\ \/ pc' = "apply" /\ row' = row + 1 /\ todo' = needs[row']
           \/ pc' = "diagnose" /\ ~(row < Len(rows))
    BY <1>6 DEF NextRow, Snapshot, planVars, Rows
  <2>2. ASSUME NEW i \in Rows, errors[i] = {}, i <= row PROVE needs[i] \subseteq written[i]
    <3>1. i < row \/ i = row
      BY <2>1, <2>2, RowNumbers
    <3> QED
      BY <2>1, <2>2, <3>1 DEF CourseInv, Applying
  <2>3. CASE pc' = "apply"
    <3>1. \A i \in Rows : i < row' => i <= row
      BY <2>1, <2>3, RowNumbers
    <3> QED
      BY <2>1, <2>2, <2>3, <3>1 DEF CourseInv, Applying, Staged
  <2>4. CASE pc' = "diagnose"
    <3>1. \A i \in Rows : i <= row
      BY <2>1, <2>4, RowNumbers
    <3> QED
      BY <2>1, <2>2, <2>4, <3>1 DEF CourseInv, Applying, Staged
  <2> QED
    BY <2>1, <2>3, <2>4
<1>7. CASE Read \/ Stage \/ Verify \/ Check \/ Replace
  <2>1. /\ pc \in Applying /\ pc' \in Staged /\ todo # {} /\ File' = File
        /\ UNCHANGED <<mode, result, rows, row, needs, todo>> /\ Rows' = Rows
    BY <1>7 DEF Read, Stage, Verify, Check, Replace, Applying, Staged, PhaseInv, FileStep,
            GoOn, GiveUp, planVars, Rows, File
  <2>2. row \in Rows /\ File \in todo
    BY <2>1, AtHand
  <2>3. \A i \in Rows : written[i] \subseteq written'[i]
    <3>1. written' = written \/ written' = [written EXCEPT ![row] = @ \cup {File}]
      BY <1>7 DEF Read, Stage, Verify, Check, Replace
    <3> QED
      BY <2>2, <3>1 DEF TypeOK
  <2>4. \A i \in Rows : errors[i] \subseteq errors'[i]
    <3>1. errors' = errors \/ errors' = [errors EXCEPT ![row] = @ \cup {File}]
      BY <1>7 DEF Read, Stage, Verify, Check, Replace, GoOn, GiveUp, RowError
    <3> QED
      BY <2>2, <3>1 DEF TypeOK
  <2>5. pc' = "cleanup" /\ errors'[row] = {} => File \in written'[row]
    <3> SUFFICES ASSUME pc' = "cleanup", errors'[row] = {} PROVE File \in written'[row]
      OBVIOUS
    <3>1. ~RowError(File)
      BY <2>2 DEF RowError, TypeOK
    <3>2. Replace /\ written' = [written EXCEPT ![row] = @ \cup {File}]
      BY <1>7, <3>1 DEF Read, Stage, Verify, Check, Replace, GoOn, GiveUp
    <3> QED
      BY <2>2, <3>2 DEF TypeOK
  <2>6. pc' \in Applying /\ pc' # "diagnose" /\ pc' # "report" /\ pc # "idle"
    BY <2>1 DEF Applying, Staged
  <2> QED
    BY <2>1, <2>2, <2>3, <2>4, <2>5, <2>6 DEF CourseInv
<1>8. CASE Cleanup
  <2>1. /\ pc = "cleanup" /\ pc' = "apply" /\ todo' = todo \ {File}
        /\ errors' = errors \/ RowError(File)
        /\ UNCHANGED <<mode, result, rows, row, needs, written>> /\ Rows' = Rows
    BY <1>8 DEF Cleanup, planVars, Rows
  <2>2. row \in Rows
    BY <2>1 DEF PhaseInv
  <2>3. \A i \in Rows : errors'[i] = {} => errors[i] = {}
    BY <2>1, <2>2 DEF RowError, TypeOK
  <2> QED
    BY <2>1, <2>2, <2>3 DEF CourseInv, Applying, Staged
<1>9. CASE DiagnoseResult
  <2>1. /\ UNCHANGED <<mode, result, rows, needs, written, errors>> /\ Rows' = Rows /\ pc = "diagnose"
        /\ pc' \in {"diagnose", "report"}
    BY <1>9 DEF DiagnoseResult, planVars, Rows
  <2> QED
    BY <2>1 DEF CourseInv, Applying, Staged
<1>10. CASE Report \/ Die
  BY <1>2, <1>10 DEF Report, Die
<1>11. CASE EditSource \/ EditTarget
  <2>1. /\ UNCHANGED <<pc, mode, result, rows, row, needs, written, errors, todo>> /\ Rows' = Rows
        /\ File' = File
    BY <1>11 DEF EditSource, EditTarget, Edits, planVars, Rows, File
  <2> QED
    BY <2>1 DEF CourseInv
<1> QED
  BY <1>1, <1>3, <1>4, <1>5, <1>6, <1>7, <1>8, <1>9, <1>10, <1>11 DEF Next, Plan, Apply

\* A row that the diagnostics find complete is the package's.
LEMMA DiagnosedMatch ==
  ASSUME TypeOK, PhaseInv, pc # "idle", Diagnose, UNCHANGED <<source, target, rows>>,
         snapshot = Unread \/ \A f \in Files \ Config : snapshot[f] = source[f],
         \A i \in Rows : i < row /\ complete[i] => Matches(i)
  PROVE  \A i \in Rows : i <= row /\ complete'[i] => Matches(i)
<1> SUFFICES ASSUME NEW i \in Rows, i <= row, complete'[i] PROVE Matches(i)
  OBVIOUS
<1>1. i < row \/ i = row
  BY RowNumbers
<1>2. CASE i < row
  <2>1. complete'[i] = complete[i]
    <3>1. i # row /\ complete \in [Rows -> BOOLEAN]
      BY <1>2, RowNumbers DEF TypeOK
    <3>2. \E v : complete' = [complete EXCEPT ![row] = v]
      BY DEF Diagnose
    <3> QED
      BY <3>1, <3>2
  <2> QED
    BY <1>2, <2>1
<1>3. CASE i = row
  <2>1. SameRuntime
    BY <1>3 DEF Diagnose, TypeOK
  <2> QED
    BY <1>3, <2>1 DEF SameRuntime, Matches, Root
<1> QED
  BY <1>1, <1>2, <1>3

\* What a run knows while nobody edits anything.
LEMMA QuietStep ==
  ASSUME TypeOK, PhaseInv, FileInv, Distinct, QuietInv, [Next]_vars
  PROVE  QuietInv'
<1> USE DEF Rows
<1>1. CASE UNCHANGED vars
  BY <1>1 DEF vars, QuietInv, Ready, Matches
<1>2. CASE edited' \/ pc' = "idle"
  BY <1>2 DEF QuietInv
<1>3. CASE Start
  <2>1. pc' = "hash" /\ written' = [i \in Rows' |-> {}] /\ todo' = scope'
    BY <1>3 DEF Start
  <2> QED
    BY <2>1 DEF QuietInv
<1>4. CASE HashSource /\ pc' # "idle"
  <2>1. /\ pc = "hash" /\ pc' = "hash" /\ todo # {}
        /\ expected' = [expected EXCEPT ![File] = source[File]] /\ todo' = todo \ {File}
        /\ UNCHANGED <<edited, source, target, scope, rows, written>>
    BY <1>4 DEF HashSource, Works, worldVars
  <2>2. File \in Files /\ expected \in [Files -> Bytes] /\ scope \subseteq Files
    BY <2>1, FileLeft DEF TypeOK
  <2>3. \A i \in Rows : written'[i] = {}
    BY <2>1 DEF PhaseInv
  <2> QED
    BY <2>1, <2>2, <2>3 DEF QuietInv
<1>5. CASE SnapshotForPlan
  <2>1. /\ pc = "hash" /\ pc' = "compare" /\ row' = 1 /\ todo = {} /\ todo' = scope
        /\ snapshot' = Unread \/ snapshot' = [f \in Files |-> IF f \in Config THEN Absent ELSE source[f]]
        /\ UNCHANGED <<edited, source, target, scope, rows, written, expected, complete>>
    BY <1>5 DEF SnapshotForPlan, Snapshot, planVars, worldVars, Works, Fails
  <2>2. /\ \A i \in Rows : written'[i] = {}
        /\ \A i \in Rows : ~(i < 1)
    BY <2>1, RowNumbers DEF PhaseInv
  <2>3. snapshot' = Unread \/ \A f \in Files \ Config : snapshot'[f] = source[f]
    BY <2>1
  <2> QED
    BY <2>1, <2>2, <2>3 DEF QuietInv
<1>6. CASE CompareTarget
  <2>1. /\ pc = "compare" /\ pc' = "compare" /\ todo # {} /\ todo' = todo \ {File}
        /\ UNCHANGED <<edited, source, target, scope, rows, row, written, expected, complete, snapshot>>
    BY <1>6 DEF CompareTarget, worldVars, Works, Fails
  <2>2. /\ row \in Rows /\ File \in scope /\ scope \subseteq Files
        /\ needs \in [Rows -> SUBSET scope]
    BY <2>1, FileLeft, RowNumbers DEF TypeOK
  <2>3. \A i \in Rows : needs[i] \subseteq needs'[i]
    BY <1>6, <2>2 DEF CompareTarget
  <2>4. File \notin needs'[row] => Ready(row, File)
    BY <1>6, <2>2 DEF CompareTarget, NeedsUpdate, Preserved, Ready, Root
  <2>5. \A i \in Rows, f \in scope : Ready(i, f)' <=> Ready(i, f)
    BY <2>1 DEF Ready
  <2>6. \A i \in Rows : Matches(i)' <=> Matches(i)
    BY <2>1 DEF Matches
  <2>7. ASSUME ~edited, NEW i \in Rows, NEW f \in scope \ needs'[i], i < row \/ (i = row /\ f \notin todo')
        PROVE  Ready(i, f)
    <3>1. CASE i = row /\ f = File
      BY <2>4, <2>7, <3>1
    <3>2. CASE ~(i = row /\ f = File)
      <4>1. f \in scope \ needs[i] /\ (i < row \/ (i = row /\ f \notin todo))
        BY <2>1, <2>3, <2>7, <3>2
      <4> QED
        BY <2>1, <2>7, <4>1 DEF QuietInv
    <3> QED
      BY <3>1, <3>2
  <2> QED
    BY <2>1, <2>5, <2>6, <2>7 DEF QuietInv
<1>7. CASE DiagnosePlan
  <2>1. /\ pc = "compare" /\ pc' \in {"compare", "apply", "report"} /\ todo = {}
        /\ pc' = "compare" => row' = row + 1 /\ todo' = scope
        /\ pc' # "compare" => ~(row < Len(rows))
        /\ UNCHANGED <<edited, source, target, scope, rows, needs, written, expected, snapshot>>
        /\ Diagnose
    BY <1>7 DEF DiagnosePlan, Diagnose, planVars, worldVars, Works, Fails
  <2>2. ~edited => \A i \in Rows : \A f \in scope \ needs[i] : i <= row => Ready(i, f)
    <3>1. \A i \in Rows : i <= row => i < row \/ i = row
      BY <2>1, RowNumbers
    <3> QED
      BY <2>1, <3>1 DEF QuietInv
  <2>3. ~edited => \A i \in Rows : i <= row /\ complete'[i] => Matches(i)
    BY <2>1, DiagnosedMatch DEF QuietInv
  <2>4. \A i \in Rows : (i < row + 1 => i <= row) /\ (~(row < Len(rows)) => i <= row)
    BY <2>1, RowNumbers
  <2>5. \A i \in Rows, f \in scope : Ready(i, f)' <=> Ready(i, f)
    BY <2>1 DEF Ready
  <2>6. \A i \in Rows : Matches(i)' <=> Matches(i)
    BY <2>1 DEF Matches
  <2>7. CASE pc' = "compare"
    <3>1. row' = row + 1 /\ todo' = scope
      BY <2>1, <2>7
    <3> QED
      BY <2>1, <2>2, <2>3, <2>4, <2>5, <2>6, <2>7, <3>1 DEF QuietInv
  <2>8. CASE pc' # "compare"
    BY <2>1, <2>2, <2>3, <2>4, <2>5, <2>6, <2>8 DEF QuietInv
  <2> QED
    BY <2>7, <2>8
<1>8. CASE NextRow
  <2>1. /\ pc = "apply" /\ pc' \in {"apply", "diagnose"}
        /\ pc' = "diagnose" =>
             /\ row' = 1
             /\ snapshot' = Unread \/ snapshot' = [f \in Files |-> IF f \in Config THEN Absent ELSE source[f]]
        /\ UNCHANGED <<edited, source, target, scope, rows, needs, written, expected, complete>>
    BY <1>8 DEF NextRow, Snapshot, planVars, worldVars, Works, Fails
  <2>2. \A i \in Rows : ~(i < 1)
    BY <2>1, RowNumbers
  <2>3. pc' = "diagnose" => snapshot' = Unread \/ \A f \in Files \ Config : snapshot'[f] = source[f]
    BY <2>1
  <2>4. \A i \in Rows, f \in scope : Ready(i, f)' <=> Ready(i, f)
    BY <2>1 DEF Ready
  <2> QED
    BY <2>1, <2>2, <2>3, <2>4 DEF QuietInv
<1>9. CASE Read \/ Stage \/ Verify \/ Check \/ Cleanup
  <2>1. /\ pc \in Applying /\ pc' \in Applying
        /\ UNCHANGED <<edited, source, target, scope, rows, needs, written, expected>>
    BY <1>9 DEF Read, Stage, Verify, Check, Cleanup, FileStep, GoOn, GiveUp, planVars, worldVars,
            Works, Fails, Applying, Staged
  <2>2. \A i \in Rows, f \in scope : Ready(i, f)' <=> Ready(i, f)
    BY <2>1 DEF Ready
  <2> QED
    BY <2>1, <2>2 DEF QuietInv, Applying, Staged
<1>10. CASE Replace
  <2>1. /\ pc = "replace" /\ pc' = "cleanup"
        /\ UNCHANGED <<edited, source, scope, rows, needs, expected>>
    BY <1>10 DEF Replace, FileStep, GoOn, GiveUp, planVars, Fails
  <2>2. CASE UNCHANGED <<target, written>>
    <3>1. \A i \in Rows, f \in scope : Ready(i, f)' <=> Ready(i, f)
      BY <2>1, <2>2 DEF Ready
    <3> QED
      BY <2>1, <2>2, <3>1 DEF QuietInv
  <2>3. CASE /\ target' = [target EXCEPT ![Root][File] = temporary]
             /\ written' = [written EXCEPT ![row] = @ \cup {File}]
    <3>1. /\ row \in Rows /\ Root \in Targets /\ File \in Files /\ File \in needs[row]
          /\ Root = rows[row] /\ scope \subseteq Files /\ temporary \in Bytes
      BY <2>1, AtHand DEF Applying, Staged, PhaseInv, Root, TypeOK
    <3>2. temporary = expected[File]
      BY <2>1 DEF FileInv
    <3>3. \A t \in Targets, f \in Files :
            target'[t][f] = IF t = Root /\ f = File THEN expected[f] ELSE target[t][f]
      BY <2>3, <3>1, <3>2, OtherValue DEF TypeOK
    <3>4. \A i \in Rows : rows[i] \in Targets /\ (rows[i] = Root => i = row)
      BY <2>1, <3>1, RowNumbers DEF Distinct
    <3>5. ASSUME NEW i \in Rows, NEW f \in scope \ needs[i], Ready(i, f) PROVE Ready(i, f)'
      <4>1. target'[rows[i]][f] = target[rows[i]][f]
        BY <3>1, <3>3, <3>4
      <4> QED
        BY <2>1, <3>5, <4>1 DEF Ready
    <3>6. ASSUME ~edited, NEW i \in Rows, NEW f \in written'[i]
          PROVE  target'[rows[i]][f] = expected[f]
      <4>1. written \in [Rows -> SUBSET scope]
        BY DEF TypeOK
      <4>2. f \in Files /\ (f \in written[i] \/ (i = row /\ f = File))
        BY <2>3, <3>1, <3>6, <4>1
      <4>3. f \in written[i] => target[rows[i]][f] = expected[f]
        BY <2>1, <3>6 DEF QuietInv
      <4> QED
        BY <3>1, <3>3, <3>4, <4>2, <4>3
    <3> QED
      BY <2>1, <3>5, <3>6 DEF QuietInv
  <2> QED
    BY <1>10, <2>2, <2>3 DEF Replace
<1>11. CASE DiagnoseResult
  <2>1. /\ pc = "diagnose" /\ pc' \in {"diagnose", "report"}
        /\ pc' = "diagnose" => row' = row + 1
        /\ pc' = "report" => ~(row < Len(rows))
        /\ UNCHANGED <<edited, source, target, scope, rows, needs, written, expected, snapshot>>
        /\ Diagnose
    BY <1>11 DEF DiagnoseResult, Diagnose, planVars, worldVars, Works, Fails
  <2>2. ~edited => \A i \in Rows : i <= row /\ complete'[i] => Matches(i)
    BY <2>1, DiagnosedMatch DEF QuietInv
  <2>3. \A i \in Rows : (i < row + 1 => i <= row) /\ (~(row < Len(rows)) => i <= row)
    BY <2>1, RowNumbers
  <2>4. \A i \in Rows, f \in scope : Ready(i, f)' <=> Ready(i, f)
    BY <2>1 DEF Ready
  <2>5. \A i \in Rows : Matches(i)' <=> Matches(i)
    BY <2>1 DEF Matches
  <2>6. CASE pc' = "diagnose"
    <3>1. row' = row + 1
      BY <2>1, <2>6
    <3> QED
      BY <2>1, <2>2, <2>3, <2>4, <2>5, <2>6, <3>1 DEF QuietInv
  <2>7. CASE pc' = "report"
    BY <2>1, <2>2, <2>3, <2>4, <2>5, <2>7 DEF QuietInv
  <2> QED
    BY <2>1, <2>6, <2>7
<1>12. CASE Report \/ Die
  BY <1>2, <1>12 DEF Report, Die
<1>13. CASE EditSource \/ EditTarget
  BY <1>2, <1>13 DEF EditSource, EditTarget, Edits
<1> QED
  BY <1>1, <1>2, <1>3, <1>4, <1>5, <1>6, <1>7, <1>8, <1>9, <1>10, <1>11, <1>12, <1>13 DEF Next, Plan, Apply

\* While nothing fails and nobody edits anything, there is no error.
LEMMA CalmStep ==
  ASSUME TypeOK, PhaseInv, NeedsInv, FileInv, Distinct, QuietInv, CalmInv, [Next]_vars
  PROVE  CalmInv'
<1> USE DEF Rows
<1>1. CASE UNCHANGED vars
  BY <1>1 DEF vars, CalmInv, File
<1>2. CASE Start
  <2>1. pc' = "hash" /\ ~edited' /\ errors' = [i \in Rows' |-> {}]
    BY <1>2 DEF Start
  <2> QED
    BY <2>1 DEF CalmInv, Applying, Staged
<1>3. CASE Fails
  <2>1. troubled'
    BY <1>3 DEF Fails
  <2> QED
    BY <2>1 DEF CalmInv
<1>4. CASE (HashSource \/ SnapshotForPlan) /\ Works /\ ~Fails
  <2>1. /\ pc' \in {"hash", "compare"} /\ pc = "hash" /\ UNCHANGED <<rows, needs, errors, edited, troubled>>
    BY <1>4 DEF HashSource, SnapshotForPlan, Snapshot, planVars, Works, Fails
  <2>2. \A i \in Rows : needs[i] = {}
    BY <2>1 DEF NeedsInv
  <2> QED
    BY <2>1, <2>2 DEF CalmInv, Applying, Staged
<1>5. CASE CompareTarget /\ Works /\ ~Fails
  <2>1. /\ pc = "compare" /\ pc' = "compare" /\ todo # {} /\ ~Fails
        /\ UNCHANGED <<target, rows, errors, edited, troubled>>
    BY <1>5 DEF CompareTarget, worldVars, Works, Fails
  <2>2. /\ row \in Rows /\ File \in todo /\ File \in Files /\ scope \subseteq Files
        /\ before \in [Rows -> [Files -> Bytes]] /\ needs \in [Rows -> SUBSET scope]
    BY <2>1, FileLeft, RowNumbers DEF TypeOK
  <2>3. File \notin needs[row]
    BY <2>1, <2>2, RowNumbers DEF NeedsInv
  <2>4. CASE UNCHANGED <<before, needs>>
    BY <2>1, <2>4 DEF CalmInv, Applying, Staged
  <2>5. CASE /\ before' = [before EXCEPT ![row][File] = target[Root][File]]
             /\ needs' = [needs EXCEPT ![row] = IF NeedsUpdate(File) THEN @ \cup {File} ELSE @]
    <3>1. ASSUME ~troubled, NEW i \in Rows, NEW f \in needs'[i] PROVE target[rows[i]][f] = before'[i][f]
      <4>1. CASE i = row /\ f = File
        BY <2>2, <2>5, <4>1 DEF Root
      <4>2. CASE ~(i = row /\ f = File)
        <5>1. f \in needs[i] /\ f \in Files
          BY <2>2, <2>5, <3>1, <4>2
        <5>2. before'[i][f] = before[i][f]
          BY <2>2, <2>5, <4>2, <5>1
        <5> QED
          BY <2>1, <3>1, <5>1, <5>2 DEF CalmInv
      <4> QED
        BY <4>1, <4>2
    <3> QED
      BY <2>1, <3>1 DEF CalmInv, Applying, Staged
  <2> QED
    BY <1>5, <2>1, <2>4, <2>5 DEF CompareTarget
<1>6. CASE (DiagnosePlan \/ NextRow \/ DiagnoseResult) /\ Works /\ ~Fails
  <2>1. /\ pc \in {"compare", "apply", "diagnose"} /\ pc' \in {"compare", "apply", "diagnose", "report"}
        /\ pc' = "compare" => pc = "compare"
        /\ pc' = "apply" /\ pc # "compare" => pc = "apply" /\ row' = row + 1
        /\ UNCHANGED <<target, rows, needs, before, errors, edited, troubled>>
    BY <1>6 DEF DiagnosePlan, NextRow, DiagnoseResult, Snapshot, planVars, worldVars, Works
  <2>2. ASSUME pc' = "apply", ~troubled, NEW i \in Rows, NEW f \in needs[i], i >= row'
        PROVE  target[rows[i]][f] = before[i][f]
    <3>1. CASE pc = "compare"
      BY <2>1, <2>2, <3>1 DEF CalmInv
    <3>2. CASE pc # "compare"
      <4>1. pc = "apply" /\ i > row
        BY <2>1, <2>2, <3>2, RowNumbers
      <4> QED
        BY <2>2, <4>1 DEF CalmInv, Applying
    <3> QED
      BY <3>1, <3>2
  <2>3. \A i \in Rows : i > row' \/ i = row' => i >= row'
    <3>1. row' \in Nat /\ \A i \in Rows : i \in Nat
      BY <2>1, RowNumbers, TypesStep, InstallerAssumption DEF TypeOK
    <3> QED
      BY <3>1
  <2> QED
    BY <2>1, <2>2, <2>3 DEF CalmInv, Applying, Staged
<1>7. CASE (Read \/ Stage \/ Verify \/ Check \/ Cleanup) /\ Works /\ ~Fails
  <2>1. /\ pc \in Applying /\ pc' \in Applying /\ ~Fails /\ todo' \subseteq todo
        /\ UNCHANGED <<target, rows, row, needs, before, edited, troubled>>
    BY <1>7 DEF Read, Stage, Verify, Check, Cleanup, FileStep, GoOn, GiveUp, planVars, worldVars,
            Works, Fails, Applying, Staged
  <2> SUFFICES ASSUME ~troubled PROVE CalmInv'
    BY <2>1 DEF CalmInv
  <2>2. ~edited /\ todo # {} /\ row \in Rows /\ File \in todo /\ File \in Files /\ File \in scope
        /\ File \in needs[row] /\ Root = rows[row]
    BY <1>7, <2>1, AtHand, FileLeft
    DEF CalmInv, Read, Stage, Verify, Check, Cleanup, PhaseInv, Applying, Staged, Root
  <2>3. pc # "cleanup" => expected[File] = source[File] /\ target[Root][File] = before[row][File]
    <3>1. pc \notin {"idle", "hash"}
      BY <2>1 DEF Applying, Staged
    <3> QED
      BY <2>1, <2>2, <3>1 DEF QuietInv, CalmInv
  <2>4. /\ pc' # "cleanup" /\ UNCHANGED errors
        /\ pc = "cleanup" => todo' = todo \ {File}
        /\ pc # "cleanup" => todo' = todo
    <3>1. CASE Read \/ Stage \/ Check
      BY <1>7, <2>1, <2>3, <3>1
      DEF Read, Stage, Check, FileStep, GoOn, GiveUp, Planned, Unchanged
    <3>2. CASE Verify
      <4>1. temporary = expected[File]
        BY <3>2 DEF Verify, FileInv
      <4> QED
        BY <1>7, <2>1, <2>3, <3>2, <4>1 DEF Verify, FileStep, GoOn, GiveUp, Planned
    <3>3. CASE Cleanup
      BY <1>7, <2>1, <3>3 DEF Cleanup
    <3> QED
      BY <1>7, <3>1, <3>2, <3>3
  <2>5. ASSUME NEW i \in Rows, NEW f \in needs[i], i > row \/ (i = row /\ f \in todo')
        PROVE  target[rows[i]][f] = before[i][f]
    <3>1. i > row \/ (i = row /\ f \in todo /\ (pc = "cleanup" => f # File))
      BY <2>4, <2>5
    <3> QED
      BY <2>1, <3>1 DEF CalmInv
  <2> QED
    BY <2>1, <2>4, <2>5 DEF CalmInv, Applying, Staged
<1>8. CASE Replace /\ ~Fails
  <2>1. /\ pc = "replace" /\ pc' = "cleanup" /\ temporary' = Absent /\ File' = File
        /\ target' = [target EXCEPT ![Root][File] = temporary]
        /\ UNCHANGED <<rows, row, needs, before, errors, edited, troubled, todo>>
    BY <1>8 DEF Replace, FileStep, GoOn, planVars, File
  <2>2. /\ row \in Rows /\ Root \in Targets /\ File \in Files /\ Root = rows[row]
    BY <2>1, AtHand DEF Applying, Staged, PhaseInv, Root
  <2>3. \A i \in Rows : i \in Nat /\ rows[i] \in Targets
    BY <2>1, RowNumbers
  <2>4. /\ needs \in [Rows -> SUBSET Files] /\ temporary \in Bytes
        /\ target \in [Targets -> [Files -> Bytes]]
    BY DEF TypeOK
  <2>5. ASSUME ~troubled, NEW i \in Rows, NEW f \in needs[i], i > row \/ (i = row /\ f \in todo /\ f # File)
        PROVE  target'[rows[i]][f] = before[i][f]
    <3>1. ~(i = row /\ f = File)
      BY <2>2, <2>3, <2>5
    <3>2. ~(rows[i] = Root /\ f = File) /\ f \in Files
      BY <2>2, <2>4, <3>1 DEF Distinct
    <3>3. target'[rows[i]][f] = target[rows[i]][f]
      BY <2>1, <2>2, <2>3, <2>4, <3>2, OtherValue
    <3> QED
      BY <2>1, <2>5, <3>3 DEF CalmInv, Applying, Staged
  <2> QED
    BY <2>1, <2>5 DEF CalmInv
<1>9. CASE Report
  <2>1. pc' = "idle" /\ UNCHANGED <<rows, errors, edited, troubled>>
    BY <1>9 DEF Report, ghostVars
  <2> QED
    BY <2>1 DEF CalmInv, Applying, Staged
<1>10. CASE EditSource \/ EditTarget
  <2>1. troubled'
    BY <1>10 DEF EditSource, EditTarget, Edits
  <2> QED
    BY <2>1 DEF CalmInv
<1>11. CASE Die
  BY <1>3, <1>11 DEF Die
<1>12. ASSUME Next PROVE Start \/ Fails \/ Report \/ EditSource \/ EditTarget \/ Die \/ (Replace /\ ~Fails)
               \/ (~Fails /\ Works /\ (HashSource \/ SnapshotForPlan \/ CompareTarget \/ DiagnosePlan \/ NextRow
                     \/ DiagnoseResult \/ Read \/ Stage \/ Verify \/ Check \/ Cleanup))
  BY <1>12 DEF Next, Plan, Apply, HashSource, SnapshotForPlan, Snapshot, CompareTarget, DiagnosePlan,
          NextRow, DiagnoseResult, Diagnose, Read, Stage, Verify, Check, Cleanup
<1> QED
  BY <1>1, <1>2, <1>3, <1>4, <1>5, <1>6, <1>7, <1>8, <1>9, <1>10, <1>11, <1>12

\* The report of a run is true, and stays so until somebody edits something.
LEMMA ReportStep ==
  ASSUME Inv, CourseInv, QuietInv, CalmInv, ReportsTrue, [Next]_vars
  PROVE  ReportsTrue'
<1> USE DEF Rows
<1>1. CASE UNCHANGED vars
  BY <1>1 DEF vars, ReportsTrue, Reported
<1>2. CASE pc' # "idle" \/ result'.status \in {"none", "usage"}
  BY <1>2 DEF ReportsTrue, Reported
<1>3. CASE pc = "idle" /\ pc' = "idle"
  <2>1. EditSource \/ EditTarget \/ UNCHANGED vars
    BY <1>3 DEF Next, Plan, Apply, Start, HashSource, SnapshotForPlan, CompareTarget, DiagnosePlan, NextRow,
           DiagnoseResult, Report, Die, Cleanup, Read, Stage, Verify, Check, Replace
  <2>2. CASE EditSource \/ EditTarget
    <3>1. /\ UNCHANGED <<pc, mode, rows, written, result>> /\ edited' /\ troubled'
      BY <2>2 DEF EditSource, EditTarget, Edits, planVars
    <3> QED
      BY <3>1 DEF ReportsTrue, Reported
  <2> QED
    BY <1>1, <2>1, <2>2
<1>4. CASE pc # "idle" /\ pc' = "idle" /\ ~Report
  <2>1. result = NoResult
    BY <1>4 DEF CourseInv
  <2>2. result'.status \in {"none", "usage"}
    BY <1>4, <2>1 DEF Next, Plan, Apply, Start, HashSource, SnapshotForPlan, Snapshot, CompareTarget,
           DiagnosePlan, NextRow, DiagnoseResult, Die, Cleanup, Read, Stage, Verify, Check, Replace,
           GoOn, GiveUp, EditSource, EditTarget, Edits, NoResult, vars
  <2> QED
    BY <1>2, <2>2
<1>5. CASE Report
  <2>1. /\ pc = "report"
        /\ UNCHANGED <<source, target, mode, scope, rows, needs, errors, written, complete, edited, troubled>>
    BY <1>5 DEF Report, worldVars, ghostVars
  <2>2. mode = "install" =>
          /\ result'.status = Status /\ result'.exit = IF Status = "completed" THEN 0 ELSE 1
    BY <1>5 DEF Report
  <2>3. mode = "check" =>
          result'.exit = IF SomeRow(errors) THEN 2 ELSE IF SomeRow(needs) THEN 1 ELSE 0
    BY <1>5 DEF Report
  <2>4. mode = "install" /\ result'.status = "failed" => \A i \in Rows : written[i] = {}
    BY <2>2 DEF Status, SomeRow
  <2>5. mode = "install" /\ result'.status # "completed" => troubled
    <3>1. ~troubled => ~SomeRow(errors)
      BY DEF CalmInv, SomeRow
    <3> QED
      BY <2>2, <3>1 DEF Status
  <2>6. ASSUME mode \in {"install", "check"}, result'.exit = 0, ~edited, NEW i \in Rows, NEW f \in scope
        PROVE  target[rows[i]][f] = source[f] \/ (f \in Config /\ target[rows[i]][f] # Absent)
    <3>1. ~SomeRow(errors)
      BY <2>2, <2>3, <2>6 DEF Status
    <3>2. expected[f] = source[f]
      BY <2>1, <2>6 DEF QuietInv
    <3>3. f \notin needs[i] => Ready(i, f)
      BY <2>1, <2>6 DEF QuietInv
    <3>4. f \in needs[i] => target[rows[i]][f] = expected[f]
      <4>1. CASE mode = "install"
        <5>1. needs[i] \subseteq written[i]
          BY <2>1, <2>6, <3>1, <4>1 DEF CourseInv, SomeRow
        <5> QED
          BY <2>1, <2>6, <5>1 DEF QuietInv
      <4>2. CASE mode = "check"
        BY <2>3, <2>6, <3>1, <4>2 DEF SomeRow
      <4> QED
        BY <2>6, <4>1, <4>2
    <3> QED
      BY <3>2, <3>3, <3>4 DEF Ready
  <2>7. ASSUME ~edited, NEW i \in Rows, complete[i], NEW f \in Files \ Config
        PROVE  target[rows[i]][f] = source[f]
    BY <2>1, <2>7 DEF QuietInv, Matches
  <2> QED
    BY <2>1, <2>4, <2>5, <2>6, <2>7 DEF ReportsTrue
<1> QED
  BY <1>2, <1>3, <1>4, <1>5

\* What a report says of the run, of the targets and of the package is so.
THEOREM ReportsTrueAlways == Spec => []ReportsTrue
<1> DEFINE Known == Inv /\ CourseInv /\ QuietInv /\ CalmInv /\ ReportsTrue
<1>1. Init => Known
  <2> SUFFICES ASSUME Init PROVE CourseInv /\ QuietInv /\ CalmInv /\ ReportsTrue
    BY InitInv
  <2>1. Rows = {}
    BY DEF Init, Rows
  <2> QED
    BY <2>1 DEF Init, CourseInv, QuietInv, CalmInv, ReportsTrue, Reported, NoResult, Applying, Staged
<1>2. Known /\ [Next]_vars => Known'
  <2> SUFFICES ASSUME Known, [Next]_vars PROVE Known'
    OBVIOUS
  <2>1. TypeOK /\ PhaseInv /\ NeedsInv /\ FileInv /\ Distinct
    BY DEF Inv
  <2>2. CourseInv' /\ QuietInv' /\ CalmInv'
    BY <2>1, CourseStep, QuietStep, CalmStep
  <2> QED
    BY <2>2, InvStep, ReportStep
<1> QED
  BY <1>1, <1>2, PTL DEF Spec
=============================================================================
