----------------------------- MODULE MCMatrixRun -----------------------------
(* Small instances of MatrixRun, and the promises of the scheduler checked over *)
(* every cost of small registries.                                              *)
EXTENDS MatrixRun

MCBase == {1, 2, 3}
MCSupplemental == {4, 5}
MCRuns == [c \in 1..5 |-> IF c \in {1, 3} THEN 1 ELSE 2]
\* Two cases of different groups are answered with the same document.
MCRefers == [c \in 1..5 |-> IF c \in {1, 2, 4} THEN Documents ELSE {}]
MCProbing == {4}
MCPaired == {5}
MCSelections == {{}, {1, 4}, {4, 5}}

\* Of every cost of small registries; the theorem ScheduleBalanced is about all.
ASSUME SchedulingPromises ==
  \A n \in 1..4 : \A cost \in [1..n -> {2, 4, 6}] : \A workers \in 1..2 :
    Balanced(cost, 1..n, workers)
=============================================================================
