--------------------------- MODULE CaseScheduling ---------------------------
(* tools/offline_contract_matrix/case_scheduling.py: which worker group runs  *)
(* which cases.  Cases and groups are natural numbers; the order of case ids  *)
(* is the order of numbers.                                                   *)
EXTENDS Integers, Sequences, FiniteSets

\* DEFAULT_COST_SECONDS + RUN_WEIGHT_SECONDS * max(0, runs - 1)
StaticCost(runs) == 2 + 2 * (IF runs > 1 THEN runs - 1 ELSE 0)

\* The costliest case first, equal costs by id.
First(cost, cases) ==
  CHOOSE c \in cases : \A d \in cases : cost[c] > cost[d] \/ (cost[c] = cost[d] /\ c <= d)

\* The lightest group, the first of equal ones.
Lightest(loads) ==
  CHOOSE g \in DOMAIN loads : \A h \in DOMAIN loads :
    loads[g] < loads[h] \/ (loads[g] = loads[h] /\ g <= h)

\* One case after the other is charged to the lightest group.
Nothing(cases, workers) ==
  [left |-> cases, groups |-> [g \in 1..workers |-> <<>>], loads |-> [g \in 1..workers |-> 0]]
Charge(cost, plan) ==
  IF plan.left = {} THEN plan
  ELSE LET c == First(cost, plan.left)
           g == Lightest(plan.loads)
       IN  [left |-> plan.left \ {c}, groups |-> [plan.groups EXCEPT ![g] = Append(@, c)],
            loads |-> [plan.loads EXCEPT ![g] = @ + cost[c]]]
Plans(cost, cases, workers) ==
  LET after[n \in Nat] == IF n = 0 THEN Nothing(cases, workers) ELSE Charge(cost, after[n - 1])
  IN  after

AssignGroups(cost, cases, workers) ==
  Plans(cost, cases, workers)[Cardinality(cases)].groups
-----------------------------------------------------------------------------
(* Properties. *)

\* The predicted seconds of a group, case by case.
Sums(cost, group) ==
  LET upTo[i \in 0..Len(group)] == IF i = 0 THEN 0 ELSE upTo[i - 1] + cost[group[i]]
  IN  upTo
Load(cost, group) == Sums(cost, group)[Len(group)]

\* "Guarantees relied on by the runner": every case is in one group, in one place,
\* and no other is; and the last case of a group was put there when no group was
\* lighter, so that no group is heavier than any other by more than its last case.
Balanced(cost, cases, workers) ==
  LET groups == AssignGroups(cost, cases, workers)
      Places == {p \in (1..workers) \X (1..Cardinality(cases)) : p[2] <= Len(groups[p[1]])}
  IN  /\ \A g \in 1..workers : groups[g] \in Seq(cases) /\ Len(groups[g]) <= Cardinality(cases)
      /\ \A c \in cases : \E place \in Places :
           \A p \in Places : groups[p[1]][p[2]] = c <=> p = place
      /\ \A g, h \in 1..workers : groups[g] # <<>> =>
           Load(cost, groups[g]) - cost[groups[g][Len(groups[g])]] <= Load(cost, groups[h])
=============================================================================
