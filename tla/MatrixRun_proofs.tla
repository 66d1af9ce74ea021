--------------------------- MODULE MatrixRun_proofs ---------------------------
(***************************************************************************)
(* Theorems of CaseScheduling and MatrixRun, for every number of worker    *)
(* groups, registry, selection, number of runs, set of documents and       *)
(* deadline.  PlanInv follows the planner case by case: what it says of    *)
(* the last plan is what the batch needs of its groups.  IInv follows a    *)
(* batch: the groups with their cases and windows, then the proofs and the *)
(* report.                                                                 *)
(***************************************************************************)
EXTENDS MatrixRun, SequenceTheorems, FiniteSetTheorems, RecursionTheorems, TLAPS

(* The planner *)

\* The sums of a group's costs from its first case to each of its cases.
Adds(cost, group, sums) ==
  /\ sums \in [0..Len(group) -> Nat]
  /\ sums[0] = 0
  /\ \A i \in 1..Len(group) : sums[i] = sums[i - 1] + cost[group[i]]

\* The seconds of a group are added up case by case.
LEMMA SumsDefined ==
  ASSUME NEW D, NEW cost \in [D -> Nat], NEW group \in Seq(D)
  PROVE  Adds(cost, group, Sums(cost, group))
<1> DEFINE n == Len(group)
           step == [i \in Nat |-> [v \in Nat |-> IF i \in 1..n THEN v + cost[group[i]] ELSE v]]
           Is(f) == f = [i \in 0..n |-> IF i = 0 THEN 0 ELSE f[i - 1] + cost[group[i]]]
<1>1. n \in Nat /\ \A i \in 1..n : group[i] \in D /\ cost[group[i]] \in Nat
  OBVIOUS
<1>2. step \in [Nat -> [Nat -> Nat]]
  BY <1>1
<1>3. \A i \in 1..n, v \in Nat : step[i][v] = v + cost[group[i]]
  BY <1>1
<1> HIDE DEF step, n
<1>4. PICK f : f \in Beginnings(Nat, 0, step, n)
  <2>1. Beginnings(Nat, 0, step, n) # {}
    BY <1>1, <1>2, BeginningsExist
  <2> QED
    BY <2>1
<1>5. f \in [0..n -> Nat] /\ f[0] = 0 /\ \A i \in 1..n : f[i] = step[i][f[i - 1]]
  BY <1>4 DEF Beginnings
<1>6. \A i \in 1..n : f[i] = f[i - 1] + cost[group[i]]
  <2> TAKE i \in 1..n
  <2>1. i - 1 \in 0..n /\ f[i - 1] \in Nat
    BY <1>1, <1>5
  <2> QED
    BY <1>3, <1>5, <2>1
<1>7. Is(f)
  BY <1>1, <1>5, <1>6
<1>8. Sums(cost, group) = CHOOSE g : Is(g)
  BY DEF Sums, n
<1>9. Is(Sums(cost, group))
  <2> HIDE DEF Is
  <2> QED
    BY <1>7, <1>8
<1> DEFINE s == Sums(cost, group)
           T == {i \in Nat : i <= n => s[i] \in Nat}
<1>10. s = [i \in 0..n |-> IF i = 0 THEN 0 ELSE s[i - 1] + cost[group[i]]]
  BY <1>9
<1> HIDE DEF s
<1>11. s[0] = 0 /\ \A i \in 1..n : s[i] = s[i - 1] + cost[group[i]]
  BY <1>1, <1>10
<1>12. T = Nat
  <2>1. 0 \in T
    BY <1>11
  <2>2. ASSUME NEW i \in T PROVE i + 1 \in T
    <3> SUFFICES ASSUME i + 1 <= n PROVE s[i + 1] \in Nat
      BY <2>2
    <3>1. i \in Nat /\ s[i] \in Nat /\ i + 1 \in 1..n /\ (i + 1) - 1 = i
      BY <1>1, <2>2
    <3> QED
      BY <1>1, <1>11, <3>1
  <2>3. T \in SUBSET Nat
    OBVIOUS
  <2> HIDE DEF T
  <2> QED
    BY <2>1, <2>2, <2>3, SetInduction
<1>13. s \in [0..n -> Nat]
  <2>1. \A i \in 0..n : s[i] \in Nat
    BY <1>1, <1>12
  <2> QED
    BY <1>10, <2>1
<1> QED
  BY <1>11, <1>13 DEF s, n, Adds

\* No case costs nothing, and another case adds its own cost.
LEMMA LoadNothing ==
  ASSUME NEW D, NEW cost \in [D -> Nat]
  PROVE  Load(cost, <<>>) = 0
<1>1. ASSUME NEW none \in Seq(D), Len(none) = 0
      PROVE  Load(cost, none) = 0
  <2>1. Adds(cost, none, Sums(cost, none))
    BY <1>1, SumsDefined
  <2> QED
    BY <1>1, <2>1 DEF Load, Adds
<1>2. <<>> \in Seq(D) /\ Len(<<>>) = 0
  OBVIOUS
<1> QED
  BY <1>1, <1>2, Zenon

LEMMA LoadAppend ==
  ASSUME NEW D, NEW cost \in [D -> Nat], NEW group \in Seq(D), NEW c \in D
  PROVE  /\ Load(cost, group) \in Nat
         /\ Load(cost, Append(group, c)) = Load(cost, group) + cost[c]
<1> DEFINE n == Len(group)
           more == Append(group, c)
<1>1. /\ n \in Nat /\ more \in Seq(D) /\ Len(more) = n + 1 /\ more[n + 1] = c
      /\ \A i \in 1..n : more[i] = group[i]
  BY AppendProperties, LenProperties
<1> HIDE DEF more
<1>2. PICK s : /\ s = Sums(cost, group) /\ s \in [0..n -> Nat] /\ s[0] = 0
               /\ \A i \in 1..n : s[i] = s[i - 1] + cost[group[i]]
  <2>1. Adds(cost, group, Sums(cost, group))
    BY SumsDefined
  <2> QED
    BY <2>1 DEF Adds
<1>3. PICK t : /\ t = Sums(cost, more) /\ t \in [0..Len(more) -> Nat] /\ t[0] = 0
               /\ \A i \in 1..Len(more) : t[i] = t[i - 1] + cost[more[i]]
  <2>1. Adds(cost, more, Sums(cost, more))
    BY <1>1, SumsDefined
  <2> QED
    BY <2>1 DEF Adds
<1> HIDE DEF n
<1> DEFINE T == {i \in Nat : i <= n => s[i] = t[i]}
<1>4. T = Nat
  <2>1. 0 \in T
    BY <1>2, <1>3
  <2>2. ASSUME NEW i \in T PROVE i + 1 \in T
    <3> SUFFICES ASSUME i + 1 <= n PROVE s[i + 1] = t[i + 1]
      BY <2>2
    <3>1. i \in Nat /\ s[i] = t[i] /\ i + 1 \in 1..n /\ i + 1 \in 1..n + 1 /\ (i + 1) - 1 = i
      BY <1>1, <2>2
    <3>2. s[i + 1] = s[i] + cost[group[i + 1]]
      BY <1>2, <3>1
    <3>3. t[i + 1] = t[i] + cost[more[i + 1]]
      BY <1>1, <1>3, <3>1
    <3> QED
      BY <1>1, <3>1, <3>2, <3>3
  <2>3. T \in SUBSET Nat
    OBVIOUS
  <2> HIDE DEF T
  <2> QED
    BY <2>1, <2>2, <2>3, SetInduction
<1>5. s[n] = t[n] /\ s[n] \in Nat
  <2>1. n \in T /\ n <= n /\ n \in 0..n
    BY <1>1, <1>4
  <2> QED
    BY <1>2, <2>1
<1>6. t[n + 1] = t[n] + cost[c]
  <2>1. n + 1 \in 1..Len(more) /\ (n + 1) - 1 = n
    BY <1>1
  <2> QED
    BY <1>1, <1>3, <2>1
<1>7. Load(cost, group) = s[n] /\ Load(cost, more) = t[n + 1]
  BY <1>1, <1>2, <1>3 DEF Load, n
<1> QED
  BY <1>5, <1>6, <1>7 DEF more

\* One of finitely many cases costs the most.
LEMMA Costliest ==
  ASSUME NEW cases, IsFiniteSet(cases), NEW cost \in [cases -> Nat]
  PROVE  \A some \in SUBSET cases : some # {} =>
           \E c \in some : \A d \in some : cost[d] <= cost[c]
<1> DEFINE Top(some) == \E c \in some : \A d \in some : cost[d] <= cost[c]
           T == {n \in Nat : \A some \in SUBSET cases :
                   some # {} /\ Cardinality(some) <= n => Top(some)}
<1>1. \A some \in SUBSET cases :
        IsFiniteSet(some) /\ Cardinality(some) \in Nat /\ (Cardinality(some) = 0 => some = {})
  BY FS_Subset, FS_CardinalityType, FS_EmptySet
<1>2. 0 \in T
  BY <1>1
<1>3. ASSUME NEW n \in T PROVE n + 1 \in T
  <2> SUFFICES ASSUME NEW some \in SUBSET cases, some # {}, Cardinality(some) <= n + 1
               PROVE  Top(some)
    BY <1>3
  <2>1. PICK c : c \in some
    OBVIOUS
  <2> DEFINE rest == some \ {c}
  <2>2. rest \in SUBSET cases /\ Cardinality(rest) <= n
    <3>1. Cardinality(rest) = Cardinality(some) - 1
      BY <1>1, <2>1, FS_RemoveElement
    <3> QED
      BY <1>1, <1>3, <3>1
  <2>3. CASE rest = {}
    <3>1. some = {c}
      BY <2>1, <2>3
    <3> QED
      BY <3>1
  <2>4. CASE rest # {}
    <3>1. Top(rest)
      BY <1>3, <2>2, <2>4
    <3>2. PICK b \in rest : \A d \in rest : cost[d] <= cost[b]
      BY <3>1
    <3>3. cost[b] \in Nat /\ cost[c] \in Nat /\ \A d \in some : cost[d] \in Nat
      BY <2>1, <3>2
    <3>4. CASE cost[c] <= cost[b]
      BY <2>1, <3>2, <3>3, <3>4
    <3>5. CASE cost[b] < cost[c]
      BY <2>1, <3>2, <3>3, <3>5
    <3> QED
      BY <3>3, <3>4, <3>5
  <2> QED
    BY <2>3, <2>4
<1> HIDE DEF Top
<1>4. T \in SUBSET Nat
  OBVIOUS
<1>5. T = Nat
  <2> HIDE DEF T
  <2> QED
    BY <1>2, <1>3, <1>4, SetInduction
<1>6. \A some \in SUBSET cases : some # {} => Top(some)
  BY <1>1, <1>5
<1> QED
  BY <1>6 DEF Top

\* The next case and the lightest group exist.
LEMMA FirstChosen ==
  ASSUME NEW cases, IsFiniteSet(cases), cases \subseteq Nat, NEW cost \in [cases -> Nat],
         NEW some \in SUBSET cases, some # {}
  PROVE  First(cost, some) \in some
<1> DEFINE top == {c \in some : \A d \in some : cost[d] <= cost[c]}
<1>1. top # {} /\ top \in SUBSET Nat
  BY Costliest
<1>2. PICK c \in top : \A d \in top : c <= d
  BY <1>1, LeastNatural
<1>3. \A d \in some : cost[d] \in Nat
  OBVIOUS
<1>4. \A d \in some : cost[c] > cost[d] \/ (cost[c] = cost[d] /\ c <= d)
  <2> TAKE d \in some
  <2>1. cost[d] <= cost[c]
    BY <1>2
  <2>2. CASE cost[d] = cost[c]
    BY <1>2, <2>2
  <2> QED
    BY <1>2, <1>3, <2>1, <2>2
<1>5. c \in some
  BY <1>2
<1> QED
  BY <1>4, <1>5 DEF First

LEMMA LightestChosen ==
  ASSUME NEW workers \in Nat \ {0}, NEW loads \in [1..workers -> Nat]
  PROVE  /\ Lightest(loads) \in 1..workers
         /\ \A h \in 1..workers : loads[Lightest(loads)] <= loads[h]
<1> DEFINE values == {loads[g] : g \in 1..workers}
<1>1. values \in SUBSET Nat /\ values # {}
  <2>1. 1 \in 1..workers
    OBVIOUS
  <2> QED
    BY <2>1
<1>2. PICK v \in values : \A w \in values : v <= w
  BY <1>1, LeastNatural
<1> DEFINE light == {g \in 1..workers : loads[g] = v}
<1>3. light \in SUBSET Nat /\ light # {}
  BY <1>2
<1>4. PICK g \in light : \A h \in light : g <= h
  BY <1>3, LeastNatural
<1>5. \A h \in DOMAIN loads : loads[g] < loads[h] \/ (loads[g] = loads[h] /\ g <= h)
  <2> TAKE h \in DOMAIN loads
  <2>1. loads[g] = v /\ v <= loads[h] /\ loads[h] \in Nat /\ v \in Nat
    BY <1>1, <1>2, <1>4
  <2>2. CASE loads[h] = v
    BY <1>4, <2>1, <2>2
  <2> QED
    BY <2>1, <2>2
<1> DEFINE P(x) == \A h \in DOMAIN loads : loads[x] < loads[h] \/ (loads[x] = loads[h] /\ x <= h)
<1>6. \E x \in DOMAIN loads : P(x)
  BY <1>4, <1>5
<1>7. Lightest(loads) = CHOOSE x \in DOMAIN loads : P(x)
  BY DEF Lightest
<1>8. Lightest(loads) \in DOMAIN loads /\ P(Lightest(loads))
  <2> HIDE DEF P
  <2> QED
    BY <1>6, <1>7
<1>9. \A h \in 1..workers : loads[h] \in Nat
  OBVIOUS
<1> QED
  BY <1>8, <1>9

\* A sequence of some is a sequence of more.
LEMMA SeqOfMore ==
  ASSUME NEW T, NEW S \in SUBSET T, NEW seq \in Seq(S)
  PROVE  seq \in Seq(T)
<1>1. Len(seq) \in Nat /\ seq \in [1..Len(seq) -> S]
  BY LenProperties
<1>2. seq \in [1..Len(seq) -> T]
  BY <1>1
<1> QED
  BY <1>1, <1>2, SeqDef

\* The plans for these cases.
AllPlans(cases, workers) ==
  [left : SUBSET cases, groups : [1..workers -> Seq(cases)], loads : [1..workers -> Nat]]

\* The places of a plan, and the place of one case.
Places(plan, workers) ==
  {p \in (1..workers) \X Nat : p[2] \in 1..Len(plan.groups[p[1]])}
OnePlace(plan, workers, c) ==
  \E place \in Places(plan, workers) :
    \A p \in Places(plan, workers) : plan.groups[p[1]][p[2]] = c <=> p = place

\* The plan after n cases: they have one place each and the others none, the loads are
\* those of the groups, and without its last case no group is heavier than another.
PlanInv(cost, cases, workers, plan, n) ==
  /\ plan \in AllPlans(cases, workers)
  /\ Cardinality(plan.left) = Cardinality(cases) - n
  /\ \A g \in 1..workers :
       Len(plan.groups[g]) <= n /\ plan.loads[g] = Load(cost, plan.groups[g])
  /\ \A c \in plan.left : \A p \in Places(plan, workers) : plan.groups[p[1]][p[2]] # c
  /\ \A c \in cases \ plan.left : OnePlace(plan, workers, c)
  /\ \A g, h \in 1..workers : plan.groups[g] # <<>> =>
       plan.loads[g] - cost[plan.groups[g][Len(plan.groups[g])]] <= plan.loads[h]

\* A plan charged with another case is a plan.
LEMMA ChargedPlan ==
  ASSUME NEW D, IsFiniteSet(D), D \subseteq Nat, NEW cost \in [D -> Nat],
         NEW cases \in SUBSET D, NEW workers \in Nat \ {0},
         NEW plan \in AllPlans(cases, workers)
  PROVE  Charge(cost, plan) \in AllPlans(cases, workers)
<1> DEFINE c == First(cost, plan.left)
           g == Lightest(plan.loads)
<1> SUFFICES ASSUME plan.left # {}
             PROVE  [left |-> plan.left \ {c}, groups |-> [plan.groups EXCEPT ![g] = Append(@, c)],
                     loads |-> [plan.loads EXCEPT ![g] = @ + cost[c]]] \in AllPlans(cases, workers)
  BY DEF Charge
<1>1. /\ plan.left \in SUBSET cases /\ plan.groups \in [1..workers -> Seq(cases)]
      /\ plan.loads \in [1..workers -> Nat]
  BY DEF AllPlans
<1>2. c \in cases /\ cost[c] \in Nat
  BY <1>1, FirstChosen
<1>3. g \in 1..workers
  BY <1>1, LightestChosen
<1> HIDE DEF c, g
<1>4. Append(plan.groups[g], c) \in Seq(cases) /\ plan.loads[g] + cost[c] \in Nat
  BY <1>1, <1>2, <1>3, AppendProperties
<1> QED
  BY <1>1, <1>4 DEF AllPlans

\* One more case keeps the invariant of the plans.
LEMMA ChargeKeeps ==
  ASSUME NEW D, IsFiniteSet(D), D \subseteq Nat, NEW cost \in [D -> Nat],
         NEW cases \in SUBSET D, NEW workers \in Nat \ {0},
         NEW plan, NEW n \in Nat, n < Cardinality(cases), PlanInv(cost, cases, workers, plan, n)
  PROVE  PlanInv(cost, cases, workers, Charge(cost, plan), n + 1)
<1>0. \A group \in Seq(D), d \in D : Load(cost, Append(group, d)) = Load(cost, group) + cost[d]
  BY LoadAppend
<1> DEFINE c == First(cost, plan.left)
           g == Lightest(plan.loads)
           new == Charge(cost, plan)
           old == plan.groups
<1>1. /\ plan \in AllPlans(cases, workers) /\ plan.left \in SUBSET cases
      /\ old \in [1..workers -> Seq(cases)] /\ plan.loads \in [1..workers -> Nat]
  BY DEF PlanInv, AllPlans
<1>2. IsFiniteSet(cases) /\ IsFiniteSet(plan.left) /\ Cardinality(cases) \in Nat
  BY <1>1, FS_Subset, FS_CardinalityType
<1>3. plan.left # {}
  BY <1>2, FS_EmptySet DEF PlanInv
<1>4. c \in plan.left /\ c \in cases /\ c \in D /\ cost[c] \in Nat
  BY <1>1, <1>3, FirstChosen
<1>5. g \in 1..workers /\ \A h \in 1..workers : plan.loads[g] <= plan.loads[h]
  BY <1>1, LightestChosen
<1>6. /\ new.left = plan.left \ {c} /\ new.groups = [old EXCEPT ![g] = Append(@, c)]
      /\ new.loads = [plan.loads EXCEPT ![g] = @ + cost[c]]
  BY <1>3 DEF Charge
<1>7. new \in AllPlans(cases, workers)
  BY <1>1, ChargedPlan
<1> HIDE DEF new, c, g
<1> DEFINE k == Len(old[g])
<1>8. /\ k \in Nat /\ new.groups[g] = Append(old[g], c) /\ Len(new.groups[g]) = k + 1
      /\ new.groups[g][k + 1] = c /\ new.groups[g] # <<>>
      /\ \A i \in 1..k : new.groups[g][i] = old[g][i]
  <2>1. old[g] \in Seq(cases) /\ new.groups[g] = Append(old[g], c)
    BY <1>1, <1>5, <1>6
  <2> QED
    BY <1>4, <2>1, AppendProperties, LenProperties
<1>9. \A h \in 1..workers : h # g => new.groups[h] = old[h] /\ new.loads[h] = plan.loads[h]
  BY <1>1, <1>6
<1>10. new.loads[g] = plan.loads[g] + cost[c] /\ \A h \in 1..workers : plan.loads[h] \in Nat
  BY <1>1, <1>5, <1>6
<1> HIDE DEF k, old
<1>11. \A h \in 1..workers : Len(old[h]) \in Nat /\ DOMAIN old[h] = 1..Len(old[h])
  BY <1>1, LenProperties
<1>12. Places(new, workers) = Places(plan, workers) \cup {<<g, k + 1>>}
  <2>1. ASSUME NEW p \in (1..workers) \X Nat
        PROVE  p \in Places(new, workers) <=> p \in Places(plan, workers) \cup {<<g, k + 1>>}
    <3>1. CASE p[1] = g
      <4>1. p \in Places(new, workers) <=> p[2] \in 1..k + 1
        BY <1>8, <3>1 DEF Places
      <4>2. p \in Places(plan, workers) <=> p[2] \in 1..k
        BY <3>1 DEF Places, k, old
      <4>3. p = <<g, k + 1>> <=> p[2] = k + 1
        BY <3>1
      <4> QED
        BY <1>8, <4>1, <4>2, <4>3
    <3>2. CASE p[1] # g
      <4>1. p \in Places(new, workers) <=> p \in Places(plan, workers)
        BY <1>9, <3>2 DEF Places, old
      <4>2. p # <<g, k + 1>>
        BY <3>2
      <4> QED
        BY <4>1, <4>2
    <3> QED
      BY <3>1, <3>2
  <2>2. Places(new, workers) \subseteq (1..workers) \X Nat
        /\ Places(plan, workers) \subseteq (1..workers) \X Nat
    BY DEF Places
  <2>3. <<g, k + 1>> \in (1..workers) \X Nat
    BY <1>5, <1>8
  <2> QED
    BY <2>1, <2>2, <2>3
<1>13. <<g, k + 1>> \notin Places(plan, workers)
  BY <1>8 DEF Places, k, old
<1>14. \A p \in Places(plan, workers) : new.groups[p[1]][p[2]] = old[p[1]][p[2]]
  BY <1>8, <1>9 DEF Places, k, old
<1>15. Cardinality(new.left) = Cardinality(cases) - (n + 1)
  <2>1. Cardinality(new.left) = Cardinality(plan.left) - 1
    <3>1. Cardinality(plan.left \ {c}) = Cardinality(plan.left) - 1
      BY <1>2, <1>4, FS_RemoveElement
    <3> QED
      BY <1>6, <3>1
  <2> QED
    BY <1>2, <2>1 DEF PlanInv
<1>16. ASSUME NEW h \in 1..workers
       PROVE  Len(new.groups[h]) <= n + 1 /\ new.loads[h] = Load(cost, new.groups[h])
  <2>1. Len(old[h]) <= n /\ plan.loads[h] = Load(cost, old[h])
    BY DEF PlanInv, old
  <2>2. CASE h = g
    <3>1. old[g] \in Seq(cases)
      BY <1>1, <1>5
    <3>2. old[g] \in Seq(D)
      BY <3>1, SeqOfMore
    <3>3. Load(cost, Append(old[g], c)) = Load(cost, old[g]) + cost[c]
      BY <1>0, <1>4, <3>2
    <3>4. new.loads[h] = Load(cost, new.groups[h])
      BY <1>8, <1>10, <2>1, <2>2, <3>3
    <3>5. Len(new.groups[h]) <= n + 1
      <4>1. k <= n /\ Len(new.groups[h]) = k + 1
        BY <1>8, <2>1, <2>2 DEF k
      <4> QED
        BY <1>8, <4>1
    <3> QED
      BY <3>4, <3>5
  <2>3. CASE h # g
    BY <1>9, <1>11, <2>1, <2>3
  <2> QED
    BY <2>2, <2>3
<1>17. ASSUME NEW d \in new.left, NEW p \in Places(new, workers)
       PROVE  new.groups[p[1]][p[2]] # d
  <2>1. d \in plan.left /\ d # c
    BY <1>6
  <2>2. CASE p = <<g, k + 1>>
    BY <1>8, <2>1, <2>2
  <2>3. CASE p \in Places(plan, workers)
    <3>1. old[p[1]][p[2]] # d
      BY <2>1, <2>3 DEF PlanInv, old
    <3> QED
      BY <1>14, <2>3, <3>1
  <2> QED
    BY <1>12, <2>2, <2>3
<1>18. ASSUME NEW d \in cases \ new.left
       PROVE  OnePlace(new, workers, d)
  <2>1. CASE d = c
    <3>1. \A p \in Places(plan, workers) : old[p[1]][p[2]] # c
      BY <1>4 DEF PlanInv, old
    <3>2. ASSUME NEW p \in Places(new, workers)
          PROVE  new.groups[p[1]][p[2]] = c <=> p = <<g, k + 1>>
      <4>1. p \in Places(plan, workers) => new.groups[p[1]][p[2]] # c
        BY <1>14, <3>1
      <4>2. p = <<g, k + 1>> => new.groups[p[1]][p[2]] = c
        BY <1>8
      <4> QED
        BY <1>12, <4>1, <4>2
    <3> DEFINE place == <<g, k + 1>>
    <3>3. place \in Places(new, workers)
      BY <1>12
    <3> HIDE DEF place
    <3>4. \A p \in Places(new, workers) : new.groups[p[1]][p[2]] = d <=> p = place
      BY <2>1, <3>2 DEF place
    <3> QED
      BY <3>3, <3>4 DEF OnePlace
  <2>2. CASE d # c
    <3>1. d \in cases \ plan.left
      BY <1>6, <2>2
    <3>2. OnePlace(plan, workers, d)
      BY <3>1 DEF PlanInv
    <3>3. PICK place \in Places(plan, workers) :
            \A p \in Places(plan, workers) : old[p[1]][p[2]] = d <=> p = place
      BY <3>2 DEF OnePlace, old
    <3>4. place \in Places(new, workers) /\ place # <<g, k + 1>>
      BY <1>12, <1>13
    <3>5. \A p \in Places(new, workers) : new.groups[p[1]][p[2]] = d <=> p = place
      <4>1. ASSUME NEW p \in Places(plan, workers)
            PROVE  new.groups[p[1]][p[2]] = d <=> p = place
        BY <1>14, <3>3, <4>1
      <4>2. new.groups[g][k + 1] # d
        BY <1>8, <2>2
      <4> QED
        BY <1>12, <3>4, <4>1, <4>2
    <3> QED
      BY <3>4, <3>5 DEF OnePlace
  <2> QED
    BY <2>1, <2>2
<1>19. ASSUME NEW f \in 1..workers, NEW h \in 1..workers, new.groups[f] # <<>>
       PROVE  new.loads[f] - cost[new.groups[f][Len(new.groups[f])]] <= new.loads[h]
  <2>1. plan.loads[h] <= new.loads[h] /\ plan.loads[h] \in Nat /\ new.loads[h] \in Nat
    BY <1>4, <1>9, <1>10
  <2>2. CASE f = g
    <3>1. new.loads[f] - cost[new.groups[f][Len(new.groups[f])]] = plan.loads[g]
      BY <1>4, <1>5, <1>8, <1>10, <2>2
    <3> QED
      BY <1>5, <1>10, <2>1, <3>1
  <2>3. CASE f # g
    <3>1. old[f] # <<>> /\ new.groups[f] = old[f] /\ new.loads[f] = plan.loads[f]
      BY <1>9, <1>19, <2>3
    <3>2. plan.loads[f] - cost[old[f][Len(old[f])]] <= plan.loads[h]
      BY <3>1 DEF PlanInv, old
    <3>3. old[f][Len(old[f])] \in D
      <4>1. old[f] \in Seq(cases) /\ Len(old[f]) \in Nat /\ old[f] \in [1..Len(old[f]) -> cases]
        BY <1>1, LenProperties
      <4>2. Len(old[f]) # 0
        BY <3>1, <4>1, EmptySeq
      <4>3. Len(old[f]) \in 1..Len(old[f])
        BY <4>1, <4>2
      <4> QED
        BY <4>1, <4>3
    <3>4. cost[old[f][Len(old[f])]] \in Nat
      BY <3>3
    <3> QED
      BY <1>10, <2>1, <3>1, <3>2, <3>4
  <2> QED
    BY <2>2, <2>3
<1> QED
  BY <1>7, <1>15, <1>16, <1>17, <1>18, <1>19 DEF PlanInv, new

\* The plans of the greedy: each charges one case more than the one before.
Greedy(cost, cases, workers, plans) ==
  /\ plans[0] = Nothing(cases, workers)
  /\ \A n \in Nat : plans[n + 1] = Charge(cost, plans[n])

\* The plans are defined case by case.
LEMMA PlansDefined ==
  ASSUME NEW D, IsFiniteSet(D), D \subseteq Nat, NEW cost \in [D -> Nat],
         NEW cases \in SUBSET D, NEW workers \in Nat \ {0}
  PROVE  Greedy(cost, cases, workers, Plans(cost, cases, workers))
<1> DEFINE S == AllPlans(cases, workers)
           first == Nothing(cases, workers)
           After(plan) == Charge(cost, plan)
           step == [n \in Nat |-> [plan \in S |-> After(plan)]]
           Is(f) == f = [n \in Nat |-> IF n = 0 THEN first ELSE After(f[n - 1])]
<1>1. first \in S
  BY DEF Nothing, AllPlans
<1>2. \A plan \in S : After(plan) \in S
  BY ChargedPlan
<1> HIDE DEF After, first, S
<1>3. step \in [Nat -> [S -> S]] /\ \A n \in Nat : \A plan \in S : step[n][plan] = After(plan)
  BY <1>2
<1> HIDE DEF step
<1>4. PICK f : Recurs(f, S, first, step)
  BY <1>1, <1>3, Recursion
<1>5. f \in [Nat -> S] /\ f[0] = first /\ \A n \in Nat \ {0} : f[n] = step[n][f[n - 1]]
  BY <1>4 DEF Recurs
<1>6. Is(f)
  <2>1. ASSUME NEW n \in Nat PROVE f[n] = IF n = 0 THEN first ELSE After(f[n - 1])
    <3>1. CASE n = 0
      BY <1>5, <3>1
    <3>2. CASE n # 0
      <4>1. n - 1 \in Nat /\ f[n - 1] \in S
        BY <1>5, <3>2
      <4> QED
        BY <1>3, <1>5, <3>2, <4>1
    <3> QED
      BY <3>1, <3>2
  <2> QED
    BY <1>5, <2>1
<1>7. Plans(cost, cases, workers) = CHOOSE f2 : Is(f2)
  BY DEF Plans, After, first
<1>8. Is(Plans(cost, cases, workers))
  <2> HIDE DEF Is
  <2> QED
    BY <1>6, <1>7
<1> DEFINE g == Plans(cost, cases, workers)
<1>9. g = [n \in Nat |-> IF n = 0 THEN first ELSE After(g[n - 1])]
  BY <1>8
<1> HIDE DEF g
<1>10. g[0] = first
  BY <1>9
<1>11. ASSUME NEW n \in Nat PROVE g[n + 1] = After(g[n])
  <2>1. n + 1 \in Nat /\ n + 1 # 0 /\ (n + 1) - 1 = n
    OBVIOUS
  <2> QED
    BY <1>9, <2>1
<1> QED
  BY <1>10, <1>11 DEF g, After, first, Greedy

\* Every plan on the way has the invariant.
LEMMA PlansKeep ==
  ASSUME NEW D, IsFiniteSet(D), D \subseteq Nat, NEW cost \in [D -> Nat],
         NEW cases \in SUBSET D, NEW workers \in Nat \ {0}
  PROVE  LET n == Cardinality(cases)
         IN  PlanInv(cost, cases, workers, Plans(cost, cases, workers)[n], n)
<1>0. Greedy(cost, cases, workers, Plans(cost, cases, workers))
  BY PlansDefined
<1> DEFINE Inv(n) == PlanInv(cost, cases, workers, Plans(cost, cases, workers)[n], n)
           m == Cardinality(cases)
           T == {n \in Nat : n <= m => Inv(n)}
<1>1. m \in Nat
  BY FS_Subset, FS_CardinalityType
<1>2. Inv(0)
  <2> DEFINE plan == Nothing(cases, workers)
  <2>1. /\ plan.left = cases /\ plan.groups = [g \in 1..workers |-> <<>>]
        /\ plan.loads = [g \in 1..workers |-> 0]
    BY DEF Nothing
  <2>2. plan \in AllPlans(cases, workers)
    BY DEF Nothing, AllPlans
  <2> HIDE DEF plan
  <2>3. Load(cost, <<>>) = 0
    BY LoadNothing
  <2>4. Places(plan, workers) = {}
    BY <2>1 DEF Places
  <2>5. PlanInv(cost, cases, workers, plan, 0)
    BY <1>1, <2>1, <2>2, <2>3, <2>4 DEF PlanInv
  <2> QED
    BY <1>0, <2>5 DEF plan, Greedy
<1>3. ASSUME NEW n \in Nat, n < m, Inv(n)
      PROVE  Inv(n + 1)
  <2>1. Plans(cost, cases, workers)[n + 1] = Charge(cost, Plans(cost, cases, workers)[n])
    BY <1>0, <1>3 DEF Greedy
  <2> DEFINE plan == Plans(cost, cases, workers)[n]
  <2>2. PlanInv(cost, cases, workers, plan, n)
    BY <1>3
  <2> HIDE DEF plan
  <2>3. PlanInv(cost, cases, workers, Charge(cost, plan), n + 1)
    BY <1>3, <2>2, ChargeKeeps
  <2> QED
    BY <2>1, <2>3 DEF plan
<1> HIDE DEF Inv, m
<1>4. T = Nat
  <2>1. 0 \in T
    BY <1>2
  <2>2. ASSUME NEW n \in T PROVE n + 1 \in T
    BY <1>1, <1>3, <2>2
  <2>3. T \in SUBSET Nat
    OBVIOUS
  <2> HIDE DEF T
  <2> QED
    BY <2>1, <2>2, <2>3, SetInduction
<1>5. Inv(m)
  BY <1>1, <1>4
<1> QED
  BY <1>5 DEF Inv, m

\* "Guarantees relied on by the runner and its tests" (assign_groups): for every finite
\* set of cases, every cost and every number of workers, each case is in one group in
\* one place, and no group is heavier than another by more than its last case.
THEOREM ScheduleBalanced ==
  ASSUME NEW D, IsFiniteSet(D), D \subseteq Nat, NEW cost \in [D -> Nat],
         NEW cases \in SUBSET D, NEW workers \in Nat \ {0}
  PROVE  Balanced(cost, cases, workers)
<1> DEFINE n == Cardinality(cases)
           plan == Plans(cost, cases, workers)[n]
           Some == {p \in (1..workers) \X (1..n) : p[2] <= Len(plan.groups[p[1]])}
<1>1. n \in Nat /\ IsFiniteSet(cases)
  BY FS_Subset, FS_CardinalityType
<1>2. PlanInv(cost, cases, workers, plan, n)
  BY PlansKeep
<1>3. AssignGroups(cost, cases, workers) = plan.groups
  BY DEF AssignGroups
<1> HIDE DEF n, plan
<1>4. /\ plan.left \in SUBSET cases /\ plan.groups \in [1..workers -> Seq(cases)]
      /\ plan.loads \in [1..workers -> Nat]
      /\ \A g \in 1..workers : plan.groups[g] \in Seq(cases) /\ Len(plan.groups[g]) \in Nat
                                /\ Len(plan.groups[g]) <= n
  BY <1>2, LenProperties DEF PlanInv, AllPlans
<1>5. plan.left = {}
  <2>1. IsFiniteSet(plan.left) /\ Cardinality(plan.left) = 0
    BY <1>1, <1>2, <1>4, FS_Subset DEF PlanInv, n
  <2> QED
    BY <2>1, FS_EmptySet
<1>6. Some = Places(plan, workers)
  BY <1>1, <1>4 DEF Places
<1> HIDE DEF Some
<1>7. \A c \in cases : \E place \in Some :
        \A p \in Some : plan.groups[p[1]][p[2]] = c <=> p = place
  BY <1>2, <1>5, <1>6 DEF PlanInv, OnePlace
<1>8. \A g, h \in 1..workers : plan.groups[g] # <<>> =>
        Load(cost, plan.groups[g]) - cost[plan.groups[g][Len(plan.groups[g])]]
          <= Load(cost, plan.groups[h])
  BY <1>2 DEF PlanInv
<1> QED
  BY <1>3, <1>4, <1>7, <1>8 DEF Balanced, Some, n

-----------------------------------------------------------------------------
(* The batch *)

InCase == {"case", "child", "probe"}

\* A group at work on a case has one, and everything that it waits for is over by
\* a moment that the reserve of the proof allows, stopping and read-backs included.
GroupInv ==
  \A g \in Groups :
    /\ gpc[g] \in InCase => queue[g] # <<>> /\ window[g] <= BatchDeadline - Reserve
    /\ gpc[g] = "case" => now <= BatchDeadline - Reserve + Grace
                            + (IF Current(g) \in Probing THEN ProbeTimeout ELSE 0)
    /\ gpc[g] = "child" => until[g] = window[g] + Grace /\ now <= until[g]
    /\ gpc[g] = "probe" =>
         /\ Current(g) \in Probing /\ now <= until[g]
         /\ until[g] <= BatchDeadline - Reserve + Grace + ProbeTimeout

\* The groups work only while main waits for them, and on the registry only.
StageInv ==
  /\ pc # "run" => \A g \in Groups : gpc[g] \in {"idle", "joined", "raised"}
  /\ lost => error
  /\ exit = "success" => pc = "done"
  /\ \A c \in Known \ Registry : done[c] = "NOT_RUN"

\* The group has proved every document of its traces.
Proved(g) == \A d \in Wanted(g) : parts[g][d] # "none"

\* A merged proof forgets no part, and without an exception every group was proved.
ProofInv ==
  /\ \A g \in Groups, d \in Documents : parts[g][d] # "none" => merged[d] \in {"bad", parts[g][d]}
  /\ pc = "prove" => proving \in Groups /\ \A g \in 1..proving - 1 : Proved(g)
  /\ pc \in {"finish", "cleanup", "report"} /\ ~error => \A g \in Groups : Proved(g)

IInv == TypeOK /\ GroupInv /\ StageInv /\ ProofInv /\ ReportHonest

-----------------------------------------------------------------------------
\* The deadlines, as numbers.
LEMMA Durations ==
  /\ BatchDeadline \in Nat /\ CaseTimeout \in Nat /\ Reserve \in Nat /\ ProbeTimeout \in Nat
  /\ Grace \in Nat /\ CleanupTime \in Nat /\ Reserve < BatchDeadline
  /\ Workers \in Nat /\ Workers # 0
  BY MatrixAssumption

\* The groups of the registry at hand are those of a whole plan.
LEMMA RegistryPlan ==
  ASSUME selected \in Selections
  PROVE  /\ Registry \subseteq Known
         /\ \E plan \in AllPlans(Registry, Workers) :
              /\ plan.groups = Assigned(Registry)
              /\ \A c \in Registry : OnePlace(plan, Workers, c)
<1> DEFINE cost == [c \in Known |-> StaticCost(Runs[c])]
<1>1. Registry \in SUBSET Known
  BY MatrixAssumption DEF Registry, RegistryOf, Known
<1>2. cost \in [Known -> Nat]
  <2>1. \A c \in Known : Runs[c] \in Nat
    BY MatrixAssumption
  <2>2. \A c \in Known : StaticCost(Runs[c]) \in Nat
    BY <2>1 DEF StaticCost
  <2> QED
    BY <2>2
<1>3. IsFiniteSet(Known) /\ Known \subseteq Nat /\ Workers \in Nat \ {0}
  BY MatrixAssumption DEF Known
<1>4. Assigned(Registry) = AssignGroups(cost, Registry, Workers)
  BY DEF Assigned
<1> HIDE DEF cost
<1> DEFINE n == Cardinality(Registry)
           plan == Plans(cost, Registry, Workers)[n]
<1>5. PlanInv(cost, Registry, Workers, plan, n)
  BY <1>1, <1>2, <1>3, PlansKeep
<1>6. plan.groups = Assigned(Registry)
  BY <1>4 DEF AssignGroups
<1>7. n \in Nat /\ IsFiniteSet(Registry)
  BY <1>1, <1>3, FS_Subset, FS_CardinalityType
<1> HIDE DEF plan
<1>8. plan \in AllPlans(Registry, Workers) /\ plan.left = {}
  <2>1. plan \in AllPlans(Registry, Workers) /\ plan.left \in SUBSET Registry
    BY <1>5 DEF PlanInv, AllPlans
  <2>2. IsFiniteSet(plan.left) /\ Cardinality(plan.left) = 0
    BY <1>5, <1>7, <2>1, FS_Subset DEF PlanInv
  <2> QED
    BY <2>1, <2>2, FS_EmptySet
<1>9. \A c \in Registry : OnePlace(plan, Workers, c)
  BY <1>5, <1>8 DEF PlanInv
<1> QED
  BY <1>1, <1>6, <1>8, <1>9

\* Every group gets a sequence of cases of the registry.
LEMMA RegistryAssigned ==
  ASSUME selected \in Selections
  PROVE  Registry \subseteq Known /\ Assigned(Registry) \in [Groups -> Seq(Registry)]
  BY RegistryPlan DEF AllPlans, Groups

\* No case is in two places of the groups.
QueuesApart(queues) ==
  \A g, h \in Groups : \A i \in DOMAIN queues[g], j \in DOMAIN queues[h] :
    queues[g][i] = queues[h][j] => g = h /\ i = j

\* The planner puts no case in two places.
LEMMA AssignedApart ==
  ASSUME selected \in Selections
  PROVE  QueuesApart(Assigned(Registry))
<1>1. PICK plan \in AllPlans(Registry, Workers) :
        /\ plan.groups = Assigned(Registry)
        /\ \A c \in Registry : OnePlace(plan, Workers, c)
  BY RegistryPlan
<1>2. plan.groups \in [Groups -> Seq(Registry)]
  BY <1>1 DEF AllPlans, Groups
<1> SUFFICES ASSUME NEW g \in Groups, NEW h \in Groups,
                    NEW i \in DOMAIN plan.groups[g], NEW j \in DOMAIN plan.groups[h],
                    plan.groups[g][i] = plan.groups[h][j]
             PROVE  g = h /\ i = j
  BY <1>1 DEF QueuesApart
<1>3. /\ i \in Nat /\ i \in 1..Len(plan.groups[g])
      /\ j \in Nat /\ j \in 1..Len(plan.groups[h])
      /\ plan.groups[g][i] \in Registry
  BY <1>2, LenProperties
<1>4. <<g, i>> \in Places(plan, Workers) /\ <<h, j>> \in Places(plan, Workers)
  BY <1>3 DEF Places, Groups
<1>5. PICK place \in Places(plan, Workers) :
        \A p \in Places(plan, Workers) :
          plan.groups[p[1]][p[2]] = plan.groups[g][i] <=> p = place
  BY <1>1, <1>3 DEF OnePlace
<1>6. <<g, i>> = place /\ <<h, j>> = place
  BY <1>4, <1>5
<1> QED
  BY <1>6

\* The documents of a group are documents.
LEMMA WantedDocuments ==
  ASSUME TypeOK, NEW g \in Groups
  PROVE  Wanted(g) \subseteq Documents
<1>1. Mine(g) \in Seq(Registry) /\ Registry \subseteq Known
  BY RegistryAssigned DEF TypeOK, Mine
<1>2. \A i \in DOMAIN Mine(g) : Mine(g)[i] \in Known
  BY <1>1
<1>3. \A c \in Known : Refers[c] \subseteq Documents
  BY MatrixAssumption
<1> QED
  BY <1>2, <1>3 DEF Wanted

\* A case is one of the registry, and its group has the rest.
LEMMA CurrentCase ==
  ASSUME TypeOK, NEW g \in Groups, queue[g] # <<>>
  PROVE  /\ Current(g) \in Registry /\ Current(g) \in Known
         /\ Tail(queue[g]) \in Seq(Registry)
<1>1. queue[g] \in Seq(Registry) /\ Registry \subseteq Known
  BY RegistryAssigned DEF TypeOK
<1> QED
  BY <1>1, HeadTailProperties DEF Current

\* The initial states satisfy the invariant.
LEMMA InitIInv == Init => IInv
<1> SUFFICES ASSUME Init PROVE IInv
  OBVIOUS
<1> USE Durations DEF Init
<1>1. TypeOK
  <2>1. <<>> \in Seq(Registry)
    OBVIOUS
  <2>2. proving \in 0..Workers
    OBVIOUS
  <2>3. limit \in Nat
    OBVIOUS
  <2> QED
    BY <2>1, <2>2, <2>3 DEF TypeOK, WaitingPlaces, MainOver, Proofs
<1>2. GroupInv /\ StageInv
  BY RegistryAssigned DEF GroupInv, StageInv, InCase
<1>3. ProofInv /\ ReportHonest
  BY DEF ProofInv, ReportHonest
<1> QED
  BY <1>1, <1>2, <1>3 DEF IInv

-----------------------------------------------------------------------------
\* What a step of a group leaves alone, and which groups it may move.
LEMMA GroupFrame ==
  ASSUME NEW g \in Groups, Group(g)
  PROVE  /\ gpc[g] \in {"seed", "scan", "next"} \cup InCase
         /\ UNCHANGED <<now, selected, pc, limit, bound, error, lost, crashed, proofVars, reportVars>>
<1>1. CASE Seed(g) \/ LeaveLoop(g) \/ BeginCase(g)
  BY <1>1 DEF Seed, LeaveLoop, BeginCase, GroupMoves
<1>2. CASE StartRun(g) \/ RunEnds(g) \/ RunTimesOut(g) \/ CaseRaises(g)
  BY <1>2 DEF StartRun, RunEnds, RunTimesOut, CaseRaises, GroupMoves, CaseOver, Waits, InCase
<1>3. CASE TraceHole(g) \/ ProbeEnds(g) \/ Judge(g)
  BY <1>3 DEF TraceHole, ProbeEnds, Judge, GroupMoves, CaseOver, Waits, InCase
<1> QED
  BY <1>1, <1>2, <1>3 DEF Group

\* The end of a case keeps the types and the invariant of the groups.
LEMMA CaseOverStep ==
  ASSUME TypeOK, GroupInv, StageInv, NEW g \in Groups, gpc[g] \in InCase,
         NEW result \in Results, CaseOver(g, result), UNCHANGED ran,
         leaked' = leaked \/ (leaked' = leaked \cup {Current(g)} /\ Current(g) \in Supplemental)
  PROVE  TypeOK' /\ GroupInv' /\ StageInv'
<1> USE Durations
<1>1. queue[g] # <<>>
  BY DEF GroupInv
<1>2. /\ Current(g) \in Registry /\ Current(g) \in Known
      /\ Tail(queue[g]) \in Seq(Registry)
  BY <1>1, CurrentCase
<1>3. Verdict(g, result) \in Results
  BY DEF Verdict, Results
<1>4. /\ done' = [done EXCEPT ![Current(g)] = Verdict(g, result)]
      /\ queue' = [queue EXCEPT ![g] = Tail(@)]
      /\ gpc' = [gpc EXCEPT ![g] = IF now >= BatchDeadline THEN "joined" ELSE "next"]
      /\ start' = [start EXCEPT ![g] = 0]
      /\ window' = [window EXCEPT ![g] = 0]
      /\ until' = [until EXCEPT ![g] = 0]
      /\ UNCHANGED <<now, selected, pc, limit, bound, error, lost, crashed, proofVars, reportVars>>
  BY DEF CaseOver, CaseForgotten, GroupMoves
<1>5. Registry' = Registry
  BY <1>4 DEF Registry
<1>6. TypeOK'
  BY <1>2, <1>3, <1>4, <1>5 DEF TypeOK, WaitingPlaces, proofVars, reportVars
<1>7. GroupInv'
  BY <1>4 DEF TypeOK, GroupInv, InCase, Current
<1>8. StageInv'
  <2>1. pc = "run"
    BY DEF StageInv, InCase
  <2> QED
    BY <1>2, <1>4, <1>5, <2>1 DEF TypeOK, StageInv, reportVars
<1> QED
  BY <1>6, <1>7, <1>8

\* A group that goes on to wait, or to the next thing of its case.
LEMMA WaitsStep ==
  ASSUME TypeOK, GroupInv, StageInv, NEW g \in Groups, gpc[g] \in InCase,
         NEW place \in InCase, NEW by \in Nat, Waits(g, place, by),
         ran' \in [Known -> Nat], UNCHANGED leaked,
         place = "case" => now <= BatchDeadline - Reserve + Grace
                                    + (IF Current(g) \in Probing THEN ProbeTimeout ELSE 0),
         place = "child" => by = window[g] + Grace /\ now <= by,
         place = "probe" => /\ Current(g) \in Probing /\ now <= by
                            /\ by <= BatchDeadline - Reserve + Grace + ProbeTimeout
  PROVE  TypeOK' /\ GroupInv' /\ StageInv'
<1>1. /\ until' = [until EXCEPT ![g] = by]
      /\ gpc' = [gpc EXCEPT ![g] = place]
      /\ UNCHANGED <<queue, start, window, done, now, selected, pc, limit, bound, error, lost,
                     crashed, proofVars, reportVars>>
  BY DEF Waits, GroupMoves
<1>2. Registry' = Registry /\ \A h \in Groups : Current(h)' = Current(h)
  BY <1>1 DEF Registry, Current
<1>3. TypeOK'
  BY <1>1, <1>2 DEF TypeOK, WaitingPlaces, InCase, proofVars, reportVars
<1>4. GroupInv'
  BY <1>1, <1>2 DEF TypeOK, GroupInv, InCase
<1>5. StageInv'
  BY <1>1, <1>2 DEF StageInv, InCase, reportVars
<1> QED
  BY <1>3, <1>4, <1>5

\* The steps of run_case_group.
LEMMA GroupStep ==
  ASSUME TypeOK, GroupInv, StageInv, NEW g \in Groups, Group(g)
  PROVE  TypeOK' /\ GroupInv' /\ StageInv'
<1> USE Durations
<1>1. CASE Seed(g)
  <2>1. /\ gpc[g] \in {"seed", "scan"}
        /\ \E place \in {"scan", "next", "raised"} : gpc' = [gpc EXCEPT ![g] = place]
        /\ until' = until \/ until' = [until EXCEPT ![g] = 0]
        /\ UNCHANGED <<queue, start, window, ran, done, leaked, now, selected, pc, limit, bound,
                       error, lost, crashed, proofVars, reportVars>>
    BY <1>1 DEF Seed, GroupMoves
  <2>2. Registry' = Registry
    BY <2>1 DEF Registry
  <2>3. TypeOK'
    <3>1. gpc' \in [Groups -> {"case", "next"} \cup WaitingPlaces]
      BY <2>1 DEF TypeOK, WaitingPlaces
    <3>2. until' \in [Groups -> Nat]
      <4>1. until \in [Groups -> Nat] /\ [until EXCEPT ![g] = 0] \in [Groups -> Nat]
        BY DEF TypeOK
      <4> QED
        BY <2>1, <4>1
    <3> QED
      BY <2>1, <2>2, <3>1, <3>2 DEF TypeOK, proofVars, reportVars
  <2>4. GroupInv'
    <3>1. \A h \in Groups : /\ gpc'[h] \in InCase => gpc'[h] = gpc[h] /\ h # g
                            /\ h # g => until'[h] = until[h]
      BY <2>1 DEF TypeOK, InCase
    <3>2. \A h \in Groups : Current(h)' = Current(h)
      BY <2>1 DEF Current
    <3> QED
      BY <2>1, <3>1, <3>2 DEF GroupInv, InCase
  <2>5. StageInv'
    BY <2>1, <2>2 DEF StageInv, reportVars
  <2> QED
    BY <2>3, <2>4, <2>5
<1>2. CASE LeaveLoop(g)
  <2>1. /\ gpc[g] = "next" /\ gpc' = [gpc EXCEPT ![g] = "joined"]
        /\ UNCHANGED <<queue, start, window, until, ran, done, leaked, now, selected, pc, limit,
                       bound, error, lost, crashed, proofVars, reportVars>>
    BY <1>2 DEF LeaveLoop, GroupMoves
  <2>2. Registry' = Registry
    BY <2>1 DEF Registry
  <2>3. TypeOK'
    BY <2>1, <2>2 DEF TypeOK, WaitingPlaces, proofVars, reportVars
  <2>4. GroupInv' /\ StageInv'
    BY <2>1, <2>2 DEF TypeOK, GroupInv, StageInv, InCase, Current, reportVars
  <2> QED
    BY <2>3, <2>4
<1>3. CASE BeginCase(g)
  <2>1. CaseWindow \in Nat /\ CaseWindow <= BatchDeadline - Reserve
    BY DEF CaseWindow, Least, TypeOK
  <2> DEFINE w == CaseWindow
  <2>2. /\ gpc[g] = "next" /\ queue[g] # <<>> /\ ~ReserveReached
        /\ gpc' = [gpc EXCEPT ![g] = "case"]
        /\ start' = [start EXCEPT ![g] = now] /\ window' = [window EXCEPT ![g] = w]
        /\ UNCHANGED <<queue, until, ran, done, leaked, now, selected, pc, limit,
                       bound, error, lost, crashed, proofVars, reportVars>>
    BY <1>3 DEF BeginCase, GroupMoves
  <2> HIDE DEF w
  <2>3. Registry' = Registry /\ \A h \in Groups : Current(h)' = Current(h)
    BY <2>2 DEF Registry, Current
  <2>4. TypeOK'
    BY <2>1, <2>2, <2>3 DEF TypeOK, WaitingPlaces, proofVars, reportVars, w
  <2>5. now <= BatchDeadline - Reserve
    BY <2>2 DEF ReserveReached, TypeOK
  <2>6. GroupInv'
    <3>1. \A h \in Groups : h # g => gpc'[h] = gpc[h] /\ window'[h] = window[h]
      BY <2>2 DEF TypeOK
    <3>2. gpc'[g] = "case" /\ window'[g] = w
      BY <2>2 DEF TypeOK
    <3>3. \A c \in {Current(g)} : now <= BatchDeadline - Reserve + Grace
                                    + (IF c \in Probing THEN ProbeTimeout ELSE 0)
      BY <2>5 DEF TypeOK
    <3> QED
      BY <2>1, <2>2, <2>3, <3>1, <3>2, <3>3 DEF GroupInv, InCase, w
  <2>7. StageInv'
    BY <2>2, <2>3 DEF StageInv, reportVars
  <2> QED
    BY <2>4, <2>6, <2>7
<1>4. CASE StartRun(g)
  <2>1. gpc[g] = "case" /\ UNCHANGED ran
    BY <1>4 DEF StartRun
  <2>2. CASE now < window[g]
    <3>1. window[g] + Grace \in Nat /\ now <= window[g] + Grace
      BY <2>2 DEF TypeOK
    <3>2. ran' \in [Known -> Nat]
      BY <2>1 DEF TypeOK
    <3> QED
      BY <1>4, <2>1, <2>2, <3>1, <3>2, WaitsStep DEF StartRun, InCase
  <2>3. CASE ~(now < window[g])
    BY <1>4, <2>1, <2>3, CaseOverStep DEF StartRun, InCase, Results
  <2> QED
    BY <2>2, <2>3
<1>5. CASE RunEnds(g)
  <2>1. gpc[g] = "child" /\ UNCHANGED leaked
    BY <1>5 DEF RunEnds
  <2>2. ran' \in [Known -> Nat]
    <3>1. Together(Current(g)) \in Nat
      BY DEF Together
    <3>2. Current(g) \in Known
      BY <2>1, CurrentCase DEF GroupInv, InCase
    <3>3. ran[Current(g)] + Together(Current(g)) \in Nat
      BY <3>1, <3>2 DEF TypeOK
    <3>4. ran' = [ran EXCEPT ![Current(g)] = ran[Current(g)] + Together(Current(g))]
      BY <1>5 DEF RunEnds
    <3> QED
      BY <3>3, <3>4 DEF TypeOK
  <2>3. now <= BatchDeadline - Reserve + Grace
    BY <2>1 DEF GroupInv, TypeOK, InCase
  <2>4. CASE Waits(g, "case", 0)
    <3>1. now <= BatchDeadline - Reserve + Grace
                   + (IF Current(g) \in Probing THEN ProbeTimeout ELSE 0)
      BY <2>3 DEF TypeOK
    <3> QED
      BY <2>1, <2>2, <2>4, <3>1, WaitsStep DEF InCase
  <2>5. CASE Current(g) \in Probing /\ Waits(g, "probe", now + ProbeTimeout)
    <3>1. /\ now + ProbeTimeout \in Nat /\ now <= now + ProbeTimeout
          /\ now + ProbeTimeout <= BatchDeadline - Reserve + Grace + ProbeTimeout
      BY <2>3 DEF TypeOK
    <3> QED
      BY <2>1, <2>2, <2>5, <3>1, WaitsStep DEF InCase
  <2> QED
    BY <1>5, <2>4, <2>5 DEF RunEnds
<1>6. CASE RunTimesOut(g)
  BY <1>6, CaseOverStep DEF RunTimesOut, InCase, Results
<1>7. CASE CaseRaises(g)
  BY <1>7, CaseOverStep DEF CaseRaises, InCase, Results
<1>8. CASE TraceHole(g)
  <2>1. /\ gpc[g] = "child" /\ gpc' = [gpc EXCEPT ![g] = "raised"]
        /\ start' = [start EXCEPT ![g] = 0] /\ window' = [window EXCEPT ![g] = 0]
        /\ until' = [until EXCEPT ![g] = 0]
        /\ UNCHANGED <<queue, ran, done, leaked, now, selected, pc, limit, bound, error, lost,
                       crashed, proofVars, reportVars>>
    BY <1>8 DEF TraceHole, GroupMoves, CaseForgotten
  <2>2. Registry' = Registry
    BY <2>1 DEF Registry
  <2>3. TypeOK'
    BY <2>1, <2>2 DEF TypeOK, WaitingPlaces, proofVars, reportVars
  <2>4. GroupInv' /\ StageInv'
    BY <2>1, <2>2 DEF TypeOK, GroupInv, StageInv, InCase, Current, reportVars
  <2> QED
    BY <2>3, <2>4
<1>9. CASE ProbeEnds(g)
  <2>1. gpc[g] = "probe" /\ Waits(g, "case", 0) /\ UNCHANGED <<ran, leaked>>
    BY <1>9 DEF ProbeEnds
  <2>2. /\ ran' \in [Known -> Nat]
        /\ Current(g) \in Probing /\ now <= BatchDeadline - Reserve + Grace + ProbeTimeout
    BY <2>1 DEF GroupInv, TypeOK
  <2> QED
    BY <2>1, <2>2, WaitsStep DEF InCase
<1>10. CASE Judge(g)
  BY <1>10, CaseOverStep DEF Judge, InCase
<1> QED
  BY <1>1, <1>2, <1>3, <1>4, <1>5, <1>6, <1>7, <1>8, <1>9, <1>10 DEF Group

-----------------------------------------------------------------------------
\* The steps of main and of the clock keep the types.
LEMMA MainTypes ==
  ASSUME TypeOK, GroupInv, StageInv, Main \/ Tick
  PROVE  TypeOK'
<1> USE Durations DEF TypeOK
<1>1. CASE Bind
  <2>1. Assigned(Registry) \in [Groups -> Seq(Registry)]
    BY RegistryAssigned
  <2>2. UNCHANGED <<now, selected, crashed, start, window, ran, done, leaked, proofVars, reportVars>>
        /\ limit' = 0 /\ Registry' = Registry
    BY <1>1 DEF Bind, Registry
  <2>3. CASE Fails(FALSE) /\ UNCHANGED <<bound, gpc, queue, until>>
    BY <2>2, <2>3 DEF Fails, proofVars, reportVars
  <2>4. CASE ~(Fails(FALSE) /\ UNCHANGED <<bound, gpc, queue, until>>)
    <3>1. /\ bound' = TRUE /\ pc' = "run" /\ queue' = Assigned(Registry) /\ UNCHANGED <<error, lost>>
          /\ gpc' = [g \in Groups |-> IF now < BatchDeadline THEN "seed" ELSE "raised"]
          /\ until' = [g \in Groups |-> IF now < BatchDeadline THEN BatchDeadline + Grace ELSE 0]
      BY <1>1, <2>4 DEF Bind
    <3>2. gpc' \in [Groups -> {"case", "next"} \cup WaitingPlaces] /\ until' \in [Groups -> Nat]
      BY <3>1 DEF WaitingPlaces
    <3> QED
      BY <2>1, <2>2, <3>1, <3>2 DEF proofVars, reportVars
  <2> QED
    BY <2>3, <2>4
<1>2. ASSUME NEW g \in 0..Workers, StartProof(g)
      PROVE  /\ pc' \in {"prove", "finish"} /\ limit' \in Nat /\ proving' \in 0..Workers
             /\ error' \in BOOLEAN /\ lost' \in BOOLEAN
  <2>1. CASE now < BatchDeadline
    BY <1>2, <2>1 DEF StartProof
  <2>2. CASE ~(now < BatchDeadline)
    BY <1>2, <2>2 DEF StartProof, Fails
  <2> QED
    BY <2>1, <2>2
<1>3. CASE Join
  <2>1. /\ pc' \in {"prove", "finish"} /\ limit' \in Nat /\ proving' \in 0..Workers
        /\ error' \in BOOLEAN /\ lost' \in BOOLEAN
    <3>1. CASE \E g \in Groups : gpc[g] = "raised"
      BY <1>3, <3>1 DEF Join, Fails
    <3>2. CASE ~\E g \in Groups : gpc[g] = "raised"
      <4>1. StartProof(1) /\ 1 \in 0..Workers
        BY <1>3, <3>2 DEF Join
      <4> QED
        BY <1>2, <4>1
    <3> QED
      BY <3>1, <3>2
  <2>2. UNCHANGED <<now, selected, bound, crashed, groupVars, parts, merged, reportVars>>
        /\ Registry' = Registry
    BY <1>3 DEF Join, Registry
  <2> QED
    BY <2>1, <2>2 DEF groupVars, reportVars
<1>4. CASE ProofEnds
  <2>1. UNCHANGED <<now, selected, bound, crashed, groupVars, reportVars>> /\ Registry' = Registry
    BY <1>4 DEF ProofEnds, Registry
  <2>2. /\ pc' \in {"prove", "finish"} /\ limit' \in Nat /\ proving' \in 0..Workers
        /\ error' \in BOOLEAN /\ lost' \in BOOLEAN
    <3>1. CASE Fails(FALSE) /\ UNCHANGED <<proving, limit>>
      BY <3>1 DEF Fails
    <3>2. CASE proving < Workers /\ StartProof(proving + 1)
      <4>1. proving + 1 \in 0..Workers
        BY <3>2
      <4> QED
        BY <1>2, <3>2, <4>1
    <3>3. CASE pc' = "finish" /\ UNCHANGED <<proving, limit, error, lost>>
      BY <3>3
    <3> QED
      BY <1>4, <3>1, <3>2, <3>3 DEF ProofEnds
  <2>3. parts' \in [Groups -> [Documents -> Proofs]] /\ merged' \in [Documents -> Proofs]
    <3>1. CASE UNCHANGED <<parts, merged>>
      BY <3>1
    <3>2. CASE ~UNCHANGED <<parts, merged>>
      <4>1. PICK row \in [Wanted(proving) -> Proofs \ {"none"}] :
              LET part == [d \in Documents |-> IF d \in Wanted(proving) THEN row[d] ELSE "none"]
              IN  /\ parts' = [parts EXCEPT ![proving] = part]
                  /\ merged' = [d \in Documents |-> Merge(merged[d], part[d])]
        BY <1>4, <3>2 DEF ProofEnds
      <4> DEFINE part == [d \in Documents |-> IF d \in Wanted(proving) THEN row[d] ELSE "none"]
      <4>2. part \in [Documents -> Proofs]
        BY DEF Proofs
      <4>3. \A d \in Documents : Merge(merged[d], part[d]) \in Proofs
        BY <4>2 DEF Merge, Proofs
      <4> QED
        BY <4>1, <4>2, <4>3
    <3> QED
      BY <3>1, <3>2
  <2> QED
    BY <2>1, <2>2, <2>3 DEF groupVars, reportVars
<1>5. CASE Bookkeeping
  <2>1. Registry' = Registry
    BY <1>5 DEF Bookkeeping, Registry
  <2> QED
    BY <1>5, <2>1 DEF Bookkeeping, groupVars, proofVars, reportVars
<1>6. CASE Cleanup
  <2>1. Registry' = Registry
    BY <1>6 DEF Cleanup, Registry
  <2> QED
    BY <1>6, <2>1 DEF Cleanup, groupVars, proofVars, MainOver
<1>7. CASE Report
  <2>1. Registry' = Registry
    BY <1>7 DEF Report, Registry
  <2>2. \A c \in Known : Row(c) \in Results \cup {"NOT_RUN"}
    BY DEF Row, Result, Results
  <2>3. rows' \in [Known -> Results \cup {"NOT_RUN", "none"}]
    BY <1>7, <2>2 DEF Report
  <2>4. exit' \in {"success", "failure"} /\ pc' = "done"
    BY <1>7 DEF Report
  <2> QED
    BY <1>7, <2>1, <2>3, <2>4 DEF Report, groupVars, proofVars, MainOver
<1>8. CASE Tick
  <2>1. Registry' = Registry
    BY <1>8 DEF Tick, Registry
  <2> QED
    BY <1>8, <2>1 DEF Tick, groupVars, proofVars, reportVars
<1> QED
  BY <1>1, <1>3, <1>4, <1>5, <1>6, <1>7, <1>8 DEF Main

\* ... and what is known of the groups.
LEMMA MainGroups ==
  ASSUME TypeOK, GroupInv, StageInv, Main \/ Tick
  PROVE  GroupInv' /\ StageInv'
<1> USE Durations
<1>1. CASE Bind
  <2>1. /\ pc = "bind" /\ UNCHANGED <<now, window, done, exit, selected>> /\ Registry' = Registry
        /\ exit # "success"
    BY <1>1 DEF Bind, Registry, reportVars, StageInv
  <2>2. CASE Fails(FALSE) /\ UNCHANGED <<bound, gpc, queue, until>>
    <3>1. \A g \in Groups : gpc'[g] \in {"idle", "joined", "raised"}
      BY <2>1, <2>2 DEF StageInv
    <3> QED
      BY <2>1, <2>2, <3>1 DEF GroupInv, StageInv, Fails, InCase
  <2>3. CASE ~(Fails(FALSE) /\ UNCHANGED <<bound, gpc, queue, until>>)
    <3>1. /\ pc' = "run" /\ UNCHANGED <<error, lost>>
          /\ gpc' = [g \in Groups |-> IF now < BatchDeadline THEN "seed" ELSE "raised"]
      BY <1>1, <2>3 DEF Bind
    <3> QED
      BY <2>1, <3>1 DEF GroupInv, StageInv, InCase
  <2> QED
    BY <2>2, <2>3
<1>2. CASE Join \/ ProofEnds \/ Bookkeeping \/ Cleanup \/ Report
  <2>1. /\ UNCHANGED <<now, selected, groupVars>> /\ Registry' = Registry
        /\ pc # "done" /\ pc' # "run"
        /\ lost' => error'
    BY <1>2 DEF Join, ProofEnds, Bookkeeping, Cleanup, Report, Registry, StartProof, Fails, StageInv
  <2>2. \A g \in Groups : gpc[g] \in {"idle", "joined", "raised"}
    BY <1>2 DEF Join, ProofEnds, Bookkeeping, Cleanup, Report, StageInv, GroupOver
  <2>3. exit' = "success" => pc' = "done"
    BY <1>2, <2>1 DEF Join, ProofEnds, Bookkeeping, Cleanup, Report, StageInv, reportVars
  <2> QED
    BY <2>1, <2>2, <2>3 DEF GroupInv, StageInv, InCase, groupVars
<1>3. CASE Tick
  <2>1. /\ now' = now + 1 /\ Registry' = Registry
        /\ UNCHANGED <<selected, pc, error, lost, exit, gpc, queue, window, until, done>>
    BY <1>3 DEF Tick, Registry, groupVars, reportVars
  <2>2. \A g \in Groups : /\ gpc[g] \notin {"case", "next"}
                          /\ gpc[g] \in {"child", "probe"} => now < until[g]
    BY <1>3 DEF Tick, WaitingPlaces, Waiting
  <2>3. \A g \in Groups : Current(g)' = Current(g)
    BY <2>1 DEF Current
  <2>4. GroupInv'
    BY <2>1, <2>2, <2>3 DEF TypeOK, GroupInv, InCase
  <2>5. StageInv'
    BY <2>1 DEF StageInv
  <2> QED
    BY <2>4, <2>5
<1> QED
  BY <1>1, <1>2, <1>3 DEF Main

-----------------------------------------------------------------------------
\* Merging forgets neither proof of a document: what is left is one of them, and both
\* when it is verified.
LEMMA Merged ==
  ASSUME NEW old \in Proofs, NEW new \in Proofs
  PROVE  /\ old # "none" => Merge(old, new) \in {"bad", old}
         /\ new # "none" => Merge(old, new) \in {"bad", new}
  BY DEF Merge, Proofs

\* The end of a proof keeps what the proofs before it established.
LEMMA ProofEndsStep ==
  ASSUME TypeOK, ProofInv, ProofEnds
  PROVE  ProofInv'
<1> USE Durations
<1>1. /\ pc = "prove" /\ proving \in Groups /\ \A g \in 1..proving - 1 : Proved(g)
  BY DEF ProofEnds, ProofInv
<1>2. \A g \in Groups : Wanted(g)' = Wanted(g)
  BY DEF ProofEnds, Wanted, Mine, Registry, groupVars
<1>3. CASE Fails(FALSE) /\ UNCHANGED <<parts, merged, proving, limit>>
  BY <1>3 DEF Fails, ProofInv
<1>4. CASE ~(Fails(FALSE) /\ UNCHANGED <<parts, merged, proving, limit>>)
  <2>1. PICK row \in [Wanted(proving) -> Proofs \ {"none"}] :
          LET part == [d \in Documents |-> IF d \in Wanted(proving) THEN row[d] ELSE "none"]
          IN  /\ parts' = [parts EXCEPT ![proving] = part]
              /\ merged' = [d \in Documents |-> Merge(merged[d], part[d])]
              /\ IF proving < Workers THEN StartProof(proving + 1)
                 ELSE pc' = "finish" /\ UNCHANGED <<proving, limit, error, lost>>
    BY <1>4 DEF ProofEnds
  <2> DEFINE part == [d \in Documents |-> IF d \in Wanted(proving) THEN row[d] ELSE "none"]
  <2>2. part \in [Documents -> Proofs] /\ \A d \in Wanted(proving) : part[d] # "none"
    <3>1. Wanted(proving) \subseteq Documents
      BY <1>1, WantedDocuments
    <3> QED
      BY <3>1 DEF Proofs
  <2>3. parts' = [parts EXCEPT ![proving] = part]
        /\ merged' = [d \in Documents |-> Merge(merged[d], part[d])]
    BY <2>1
  <2> HIDE DEF part
  <2>4. /\ parts'[proving] = part
        /\ \A g \in Groups : g # proving => parts'[g] = parts[g]
    BY <1>1, <2>3 DEF TypeOK
  <2>5. \A g \in Groups, d \in Documents :
          parts'[g][d] # "none" => merged'[d] \in {"bad", parts'[g][d]}
    <3> SUFFICES ASSUME NEW g \in Groups, NEW d \in Documents, parts'[g][d] # "none"
                 PROVE  merged'[d] \in {"bad", parts'[g][d]}
      OBVIOUS
    <3>1. merged[d] \in Proofs /\ part[d] \in Proofs /\ merged'[d] = Merge(merged[d], part[d])
      BY <2>2, <2>3 DEF TypeOK
    <3>2. CASE g = proving
      BY <2>4, <3>1, <3>2, Merged
    <3>3. CASE g # proving
      <4>1. parts[g][d] = parts'[g][d] /\ merged[d] \in {"bad", parts[g][d]}
        BY <2>4, <3>3 DEF ProofInv
      <4>2. merged[d] # "none"
        BY <4>1
      <4> QED
        BY <3>1, <4>1, <4>2, Merged
    <3> QED
      BY <3>2, <3>3
  <2>6. \A g \in 1..proving : Proved(g)'
    <3> SUFFICES ASSUME NEW g \in 1..proving, NEW d \in Wanted(g)'
                 PROVE  parts'[g][d] # "none"
      BY DEF Proved
    <3>1. g \in Groups /\ d \in Wanted(g)
      BY <1>1, <1>2 DEF Groups
    <3>2. CASE g = proving
      BY <2>2, <2>4, <3>1, <3>2
    <3>3. CASE g # proving
      <4>1. Proved(g)
        BY <1>1, <3>3 DEF Groups
      <4> QED
        BY <2>4, <3>1, <3>3, <4>1 DEF Proved
    <3> QED
      BY <3>2, <3>3
  <2>7. CASE proving < Workers
    <3>1. StartProof(proving + 1)
      BY <2>1, <2>7
    <3>2. CASE now < BatchDeadline
      <4>1. pc' = "prove" /\ proving' = proving + 1
        BY <3>1, <3>2 DEF StartProof
      <4>2. proving' \in Groups /\ proving' - 1 = proving
        BY <1>1, <2>7, <4>1 DEF Groups
      <4> QED
        BY <2>5, <2>6, <4>1, <4>2 DEF ProofInv
    <3>3. CASE ~(now < BatchDeadline)
      <4>1. pc' = "finish" /\ error'
        BY <3>1, <3>3 DEF StartProof, Fails
      <4> QED
        BY <2>5, <4>1 DEF ProofInv
    <3> QED
      BY <3>2, <3>3
  <2>8. CASE ~(proving < Workers)
    <3>1. pc' = "finish" /\ proving = Workers
      BY <1>1, <2>1, <2>8 DEF Groups
    <3> QED
      BY <2>5, <2>6, <3>1 DEF ProofInv, Groups
  <2> QED
    BY <2>7, <2>8
<1> QED
  BY <1>3, <1>4

\* The transitions keep what is known of the proofs.
LEMMA ProofStep ==
  ASSUME IInv, [Next]_vars
  PROVE  ProofInv'
<1> USE Durations DEF IInv
<1>1. ASSUME NEW g \in Groups, Group(g) PROVE ProofInv'
  <2>1. pc = "run" /\ pc' = pc /\ UNCHANGED <<parts, merged>>
    BY <1>1, GroupFrame DEF StageInv, InCase, proofVars
  <2> QED
    BY <2>1 DEF ProofInv
<1>2. CASE Bind
  BY <1>2 DEF Bind, Fails, ProofInv, proofVars
<1>3. CASE Join
  <2>1. UNCHANGED <<parts, merged>> /\ 1 \in Groups
    BY <1>3 DEF Join, Groups
  <2>2. \/ pc' = "finish" /\ error'
        \/ pc' = "prove" /\ proving' = 1
    BY <1>3 DEF Join, Fails, StartProof
  <2> QED
    BY <2>1, <2>2 DEF ProofInv
<1>4. CASE ProofEnds
  BY <1>4, ProofEndsStep
<1>5. CASE Bookkeeping \/ Cleanup \/ Report \/ Tick \/ LeakedEnds \/ UNCHANGED vars
  <2>1. /\ UNCHANGED <<proofVars, error, ran, selected>>
        /\ \/ pc' = pc
           \/ pc \in {"finish", "cleanup"} /\ pc' \in {"cleanup", "report", "died"}
           \/ pc' = "done"
    BY <1>5 DEF Bookkeeping, Cleanup, Report, Tick, LeakedEnds, vars, groupVars
  <2>2. \A g \in Nat : Proved(g)' <=> Proved(g)
    BY <2>1 DEF Proved, Wanted, Mine, Registry, proofVars
  <2> QED
    BY <2>1, <2>2 DEF ProofInv, proofVars, Groups
<1> QED
  BY <1>1, <1>2, <1>3, <1>4, <1>5 DEF Next, Main, Done

\* A row that passes has the documents of its case proved wherever they were used.
LEMMA PassedProved ==
  ASSUME TypeOK, ProofInv, pc = "report", ~error, NEW c \in Known, Row(c) = "PASS"
  PROVE  ProvedWhereUsed(c)
<1>1. \A d \in Refers[c] : merged[d] \in Verified
  BY DEF Row, Unproved
<1> SUFFICES ASSUME NEW g \in Groups, NEW d \in Refers[c] \cap Wanted(g)
             PROVE  parts[g][d] \in Verified
  BY DEF ProvedWhereUsed
<1>2. d \in Documents /\ parts[g][d] # "none"
  BY WantedDocuments DEF ProofInv, Proved
<1>3. merged[d] \in {"bad", parts[g][d]}
  BY <1>2 DEF ProofInv
<1> QED
  BY <1>1, <1>3 DEF Verified

\* The report is honest when it is written.
LEMMA ReportStep ==
  ASSUME IInv, Report
  PROVE  ReportHonest'
<1> USE DEF IInv
<1>1. /\ pc = "report" /\ pc' = "done"
      /\ rows' = [c \in Known |-> IF c \in Reported THEN Row(c) ELSE "none"]
      /\ UNCHANGED <<now, selected, bound, error, lost, ran, done, merged, parts, restored>>
  BY DEF Report, groupVars, proofVars
<1>2. Registry' = Registry /\ Reported' = Reported /\ Registry \subseteq Known
      /\ Registry \subseteq Reported /\ Reported \subseteq Known
  BY <1>1, RegistryAssigned DEF TypeOK, Registry, RegistryOf, Reported, Known
<1>3. \A c \in Known : ProvedWhereUsed(c)' <=> ProvedWhereUsed(c)
  BY <1>1 DEF ProvedWhereUsed, Wanted, Mine, Registry
<1>4. ASSUME exit' = "success"
      PROVE  /\ bound /\ restored /\ ~error /\ now <= BatchDeadline
             /\ \A c \in Registry : rows'[c] = "PASS" /\ done[c] = "PASS" /\ ran[c] = Runs[c]
  <2>1. /\ \A c \in Registry : Row(c) = "PASS" /\ ~CaseFinding(c)
        /\ ~BatchFinding /\ ~error
    BY <1>4 DEF Report
  <2>2. bound /\ restored /\ now <= BatchDeadline
    BY <2>1, Durations DEF BatchFinding, TypeOK
  <2>3. ~lost
    BY <2>1 DEF StageInv
  <2>4. \A c \in Registry : done[c] = "PASS" /\ ran[c] = Runs[c]
    BY <2>1, <2>3 DEF CaseFinding, Result, Traces
  <2> QED
    BY <1>1, <1>2, <2>1, <2>2, <2>4
<1>5. ASSUME NEW c \in Reported
      PROVE  /\ ~error => /\ rows'[c] = "NOT_RUN" <=> done[c] = "NOT_RUN"
                          /\ rows'[c] = "PASS" => ProvedWhereUsed(c)
             /\ c \notin Registry => rows'[c] = "NOT_RUN"
  <2>1. c \in Known /\ rows'[c] = Row(c)
    BY <1>1, <1>2
  <2>2. CASE ~error
    <3>1. Result(c) = done[c]
      BY <2>2 DEF Result, StageInv
    <3>2. Row(c) = "NOT_RUN" <=> done[c] = "NOT_RUN"
      BY <3>1 DEF Row
    <3> QED
      BY <1>1, <2>1, <2>2, <3>1, <3>2, PassedProved DEF StageInv, Row
  <2>3. CASE error
    BY <2>1, <2>3 DEF Row, Result, StageInv
  <2> QED
    BY <2>2, <2>3
<1> QED
  BY <1>1, <1>2, <1>3, <1>4, <1>5 DEF ReportHonest

\* Nothing happens to a report afterwards.
LEMMA ReportStays ==
  ASSUME IInv, [Next]_vars, ~Report
  PROVE  ReportHonest'
<1> USE DEF IInv
<1>1. CASE pc = "done"
  <2>1. UNCHANGED <<pc, exit, rows, bound, restored, error, now, selected, done, ran, parts>>
    <3>1. \A g \in Groups : ~Group(g)
      BY <1>1, GroupFrame DEF StageInv, InCase
    <3> QED
      BY <1>1, <3>1 DEF Next, Main, Bind, Join, ProofEnds, Bookkeeping, Cleanup, Report, Tick,
         LeakedEnds, Done, vars, groupVars, proofVars, reportVars
  <2>2. Registry' = Registry /\ Reported' = Reported
        /\ \A c \in Reported : ProvedWhereUsed(c)' <=> ProvedWhereUsed(c)
    BY <2>1 DEF Registry, Reported, ProvedWhereUsed, Wanted, Mine
  <2> QED
    BY <2>1, <2>2 DEF ReportHonest
<1>2. CASE pc # "done"
  <2>1. exit # "success"
    BY <1>2 DEF StageInv
  <2>2. pc' # "done" /\ exit' # "success"
    <3>1. ASSUME NEW g \in Groups, Group(g) PROVE pc' = pc /\ exit' = exit
      BY <3>1, GroupFrame DEF reportVars
    <3>2. CASE Main \/ Tick \/ LeakedEnds \/ Done \/ UNCHANGED vars
      BY <1>2, <2>1, <3>2 DEF Main, Bind, Join, ProofEnds, Bookkeeping, Cleanup, Tick, Fails,
         StartProof, LeakedEnds, Done, vars, groupVars, proofVars, reportVars
    <3> QED
      BY <1>2, <2>1, <3>1, <3>2 DEF Next
  <2> QED
    BY <2>2 DEF ReportHonest
<1> QED
  BY <1>1, <1>2

\* The transitions preserve the invariant.
LEMMA NextStep == IInv /\ [Next]_vars => IInv'
<1> SUFFICES ASSUME IInv, [Next]_vars PROVE IInv'
  OBVIOUS
<1>1. TypeOK' /\ GroupInv' /\ StageInv'
  <2>1. ASSUME NEW g \in Groups, Group(g) PROVE TypeOK' /\ GroupInv' /\ StageInv'
    BY <2>1, GroupStep DEF IInv
  <2>2. CASE Main \/ Tick
    BY <2>2, MainTypes, MainGroups DEF IInv
  <2>3. CASE LeakedEnds \/ UNCHANGED vars
    <3>1. /\ UNCHANGED <<now, selected, pc, limit, bound, error, lost, crashed, gpc, queue,
                         start, window, until, ran, done, proofVars, reportVars>>
          /\ leaked' \subseteq leaked
      BY <2>3 DEF LeakedEnds, vars, groupVars
    <3>2. Registry' = Registry /\ \A g \in Groups : Current(g)' = Current(g)
      BY <3>1 DEF Registry, Current
    <3>3. TypeOK'
      BY <3>1, <3>2 DEF IInv, TypeOK, proofVars, reportVars
    <3> QED
      BY <3>1, <3>2, <3>3 DEF IInv, GroupInv, StageInv, reportVars
  <2> QED
    BY <2>1, <2>2, <2>3 DEF Next, Done
<1>2. ProofInv'
  BY ProofStep
<1>3. ReportHonest'
  BY ReportStep, ReportStays
<1> QED
  BY <1>1, <1>2, <1>3 DEF IInv

LEMMA Invariance == Spec => []IInv
  BY InitIInv, NextStep, PTL DEF Spec

-----------------------------------------------------------------------------
\* Every variable of a batch keeps its type, for every schedule of its groups.
THEOREM TypeCorrect == Spec => []TypeOK
<1>1. IInv => TypeOK
  BY DEF IInv
<1> QED
  BY <1>1, Invariance, PTL

\* The report of a batch is honest, however many groups share its documents and
\* whatever raises: exit 0 needs complete proof, and no row passes that some group
\* which used its documents could not prove.
THEOREM ReportHonestAlways == Spec => []ReportHonest
<1>1. IInv => ReportHonest
  BY DEF IInv
<1> QED
  BY <1>1, Invariance, PTL

\* Case work keeps to the reserve of the final proof, for every deadline.
THEOREM ReserveKeptAlways == Spec => []ReserveKept
<1>1. IInv => ReserveKept
  <2> SUFFICES ASSUME IInv, NEW g \in Groups, gpc[g] \in InCase
               PROVE  now <= BatchDeadline - Reserve + Grace
                               + (IF Current(g) \in Probing THEN ProbeTimeout ELSE 0)
    BY DEF ReserveKept, InCase
  <2>1. window[g] <= BatchDeadline - Reserve /\ window[g] \in Nat /\ now \in Nat /\ until[g] \in Nat
    BY DEF IInv, TypeOK, GroupInv
  <2>2. CASE gpc[g] = "case"
    BY <2>2 DEF IInv, GroupInv
  <2>3. CASE gpc[g] = "child"
    <3>1. now <= BatchDeadline - Reserve + Grace
      BY <2>1, <2>3, Durations DEF IInv, GroupInv
    <3> QED
      BY <2>1, <3>1, Durations
  <2>4. CASE gpc[g] = "probe"
    BY <2>1, <2>4, Durations DEF IInv, GroupInv
  <2> QED
    BY <2>2, <2>3, <2>4 DEF InCase
<1> QED
  BY <1>1, Invariance, PTL

-----------------------------------------------------------------------------
(* Each case once *)

\* A run that is waited for is one the case still had to make; and nothing is queued,
\* run or judged before the code is bound.
OnceInv ==
  /\ EachCaseOnce
  /\ \A g \in Groups : gpc[g] = "child" => ran[Current(g)] < Runs[Current(g)]
  /\ pc = "bind" =>
       /\ \A g \in Groups : queue[g] = <<>> /\ gpc[g] = "idle"
       /\ \A c \in Known : ran[c] = 0 /\ done[c] = "NOT_RUN"

\* What a group of the registry has, case by case.
LEMMA Queued ==
  ASSUME TypeOK, NEW g \in Groups
  PROVE  /\ queue[g] \in Seq(Registry) /\ Len(queue[g]) \in Nat
         /\ DOMAIN queue[g] = 1..Len(queue[g])
         /\ \A i \in DOMAIN queue[g] : i \in Nat /\ i >= 1 /\ queue[g][i] \in Known
<1>1. queue[g] \in Seq(Registry) /\ Registry \subseteq Known
  BY RegistryAssigned DEF TypeOK
<1> QED
  BY <1>1, LenProperties

\* Steps that touch no queue, count or verdict.
LEMMA OnceFrame ==
  ASSUME OnceInv, UNCHANGED <<queue, ran, done>>,
         \A g \in Groups : gpc'[g] = "child" => ran[Current(g)] < Runs[Current(g)],
         pc' = "bind" => pc = "bind" /\ UNCHANGED gpc
  PROVE  OnceInv'
<1>1. EachCaseOnce'
  BY DEF OnceInv, EachCaseOnce
<1>2. \A g \in Groups : Current(g)' = Current(g)
  BY DEF Current
<1> QED
  BY <1>1, <1>2 DEF OnceInv

\* The end of a case takes it out of its queue, where it was first and nowhere else.
LEMMA OnceCaseOver ==
  ASSUME IInv, OnceInv, NEW g \in Groups, gpc[g] \in InCase, pc = "run",
         NEW result \in Results, CaseOver(g, result), UNCHANGED ran
  PROVE  OnceInv'
<1> DEFINE c == Current(g)
<1>1. /\ done' = [done EXCEPT ![c] = Verdict(g, result)]
      /\ queue' = [queue EXCEPT ![g] = Tail(@)]
      /\ gpc' = [gpc EXCEPT ![g] = IF now >= BatchDeadline THEN "joined" ELSE "next"]
      /\ pc' = pc
  BY DEF CaseOver, GroupMoves
<1>2. queue[g] # <<>> /\ TypeOK
  BY DEF IInv, GroupInv
<1>3. /\ Len(queue[g]) \in Nat /\ Len(queue[g]) >= 1 /\ c = queue[g][1] /\ 1 \in DOMAIN queue[g]
      /\ c \in Known
  BY <1>2, Queued, EmptySeq DEF Current
<1>4. /\ Len(Tail(queue[g])) = Len(queue[g]) - 1
      /\ DOMAIN Tail(queue[g]) = 1..Len(queue[g]) - 1
      /\ \A i \in DOMAIN Tail(queue[g]) : Tail(queue[g])[i] = queue[g][i + 1]
  BY <1>2, <1>3, Queued, HeadTailProperties
<1>5. queue'[g] = Tail(queue[g]) /\ \A h \in Groups \ {g} : queue'[h] = queue[h]
  BY <1>1, <1>2 DEF TypeOK
<1> HIDE DEF c
\* A place of the new queues is a place of the old ones, and not the one of the case.
<1> DEFINE From(h, i) == IF h = g THEN i + 1 ELSE i
<1>6. ASSUME NEW h \in Groups, NEW i \in DOMAIN queue'[h]
      PROVE  /\ i \in Nat /\ i >= 1 /\ From(h, i) \in DOMAIN queue[h] /\ From(h, i) >= i
             /\ queue'[h][i] = queue[h][From(h, i)] /\ queue'[h][i] # c
             /\ queue'[h][i] \in Known
  <2>1. CASE h = g
    <3>1. i \in Nat /\ i >= 1 /\ i + 1 \in DOMAIN queue[g] /\ queue'[h][i] = queue[g][i + 1]
      <4>1. queue'[h] = Tail(queue[g]) /\ DOMAIN queue[g] = 1..Len(queue[g])
        BY <1>2, <1>5, <2>1, Queued
      <4>2. i \in 1..Len(queue[g]) - 1 /\ queue'[h][i] = queue[g][i + 1]
        BY <1>4, <1>6, <4>1
      <4> QED
        BY <1>3, <4>1, <4>2
    <3>2. queue[g][i + 1] # queue[g][1]
      BY <1>3, <3>1 DEF OnceInv, EachCaseOnce
    <3> QED
      BY <1>2, <1>3, <2>1, <3>1, <3>2, Queued
  <2>2. CASE h # g
    <3>1. queue'[h] = queue[h]
      BY <1>5, <2>2
    <3>2. queue[h][i] # queue[g][1]
      BY <1>3, <1>6, <2>2, <3>1 DEF OnceInv, EachCaseOnce
    <3> QED
      BY <1>2, <1>3, <1>6, <2>2, <3>1, <3>2, Queued
  <2> QED
    BY <2>1, <2>2
<1>7. ASSUME NEW h \in Groups, NEW k \in Groups,
             NEW i \in DOMAIN queue'[h], NEW j \in DOMAIN queue'[k], queue'[h][i] = queue'[k][j]
      PROVE  h = k /\ i = j
  <2>1. h = k /\ From(h, i) = From(k, j)
    BY <1>6, <1>7 DEF OnceInv, EachCaseOnce
  <2> QED
    BY <1>6, <2>1
<1>8. ASSUME NEW h \in Groups, NEW i \in DOMAIN queue'[h]
      PROVE  done'[queue'[h][i]] = "NOT_RUN" /\ (i > 1 => ran'[queue'[h][i]] = 0)
  <2>1. done[queue'[h][i]] = "NOT_RUN" /\ (From(h, i) > 1 => ran[queue'[h][i]] = 0)
    BY <1>6, <1>8 DEF OnceInv, EachCaseOnce
  <2>2. done'[queue'[h][i]] = done[queue'[h][i]]
    BY <1>1, <1>2, <1>6, <1>8 DEF TypeOK
  <2> QED
    BY <1>6, <1>8, <2>1, <2>2
<1>9. EachCaseOnce'
  <2>1. \A d \in Known : ran'[d] <= Runs[d]
    BY DEF OnceInv, EachCaseOnce
  <2> QED
    BY <1>7, <1>8, <2>1 DEF EachCaseOnce
<1>10. ASSUME NEW h \in Groups, gpc'[h] = "child"
       PROVE  ran'[Current(h)'] < Runs[Current(h)']
  <2>1. h # g /\ gpc[h] = "child"
    BY <1>1, <1>2, <1>10 DEF TypeOK
  <2>2. Current(h)' = Current(h)
    BY <1>5, <2>1 DEF Current
  <2> QED
    BY <2>1, <2>2 DEF OnceInv
<1> QED
  BY <1>1, <1>9, <1>10 DEF OnceInv

\* A run that ends is counted for its case alone.
LEMMA OnceRunEnds ==
  ASSUME IInv, OnceInv, NEW g \in Groups, pc = "run", RunEnds(g)
  PROVE  OnceInv'
<1> DEFINE c == Current(g)
<1>1. /\ gpc[g] = "child" /\ UNCHANGED <<queue, done, pc>>
      /\ ran' = [ran EXCEPT ![c] = @ + Together(c)]
      /\ \E place \in {"case", "probe"} : gpc' = [gpc EXCEPT ![g] = place]
  BY DEF RunEnds, Waits, GroupMoves
<1>2. TypeOK /\ queue[g] # <<>>
  BY <1>1 DEF IInv, GroupInv, InCase
<1>3. 1 \in DOMAIN queue[g] /\ c = queue[g][1] /\ c \in Known
  BY <1>2, Queued, EmptySeq DEF Current
<1>4. ran[c] \in Nat /\ Runs[c] \in Nat /\ ran[c] < Runs[c] /\ ran'[c] = ran[c] + Together(c)
  BY <1>1, <1>2, <1>3, MatrixAssumption DEF OnceInv, TypeOK
<1>5. ran'[c] <= Runs[c]
  <2>1. c \in Paired => Runs[c] >= 2
    BY MatrixAssumption
  <2> QED
    BY <1>4, <2>1 DEF Together
<1>6. \A d \in Known \ {c} : ran'[d] = ran[d]
  BY <1>1, <1>2 DEF TypeOK
<1> HIDE DEF c
<1>7. ASSUME NEW h \in Groups, NEW i \in DOMAIN queue[h], i > 1 \/ h # g
      PROVE  queue[h][i] \in Known \ {c}
  <2>1. queue[h][i] # queue[g][1]
    BY <1>3, <1>7 DEF OnceInv, EachCaseOnce
  <2> QED
    BY <1>2, <1>3, <2>1, Queued
<1>8. EachCaseOnce'
  <2>1. \A d \in Known : ran'[d] <= Runs[d]
    BY <1>5, <1>6 DEF OnceInv, EachCaseOnce
  <2>2. \A h \in Groups : \A i \in DOMAIN queue[h] : i > 1 => ran'[queue[h][i]] = 0
    BY <1>6, <1>7 DEF OnceInv, EachCaseOnce
  <2> QED
    BY <1>1, <2>1, <2>2 DEF OnceInv, EachCaseOnce
<1>9. ASSUME NEW h \in Groups, gpc'[h] = "child"
      PROVE  ran'[Current(h)'] < Runs[Current(h)']
  <2>1. h # g /\ gpc[h] = "child"
    BY <1>1, <1>2, <1>9 DEF TypeOK
  <2>2. Current(h)' = Current(h)
    BY <1>1 DEF Current
  <2>3. 1 \in DOMAIN queue[h] /\ Current(h) = queue[h][1]
    BY <1>2, <2>1, Queued, EmptySeq DEF Current, IInv, GroupInv, InCase
  <2>4. ran'[Current(h)] = ran[Current(h)]
    BY <1>6, <1>7, <2>1, <2>3
  <2> QED
    BY <2>1, <2>2, <2>4 DEF OnceInv
<1> QED
  BY <1>1, <1>8, <1>9 DEF OnceInv

\* The steps of a group keep each case where it is, but for the one that is over.
LEMMA OnceGroup ==
  ASSUME IInv, OnceInv, NEW g \in Groups, Group(g)
  PROVE  OnceInv'
<1>1. pc = "run" /\ pc' = pc /\ TypeOK
  <2>1. gpc[g] \in {"seed", "scan", "next"} \cup InCase /\ pc' = pc
    BY GroupFrame
  <2> QED
    BY <2>1 DEF IInv, StageInv, InCase
<1>2. CASE \E place \in ({"case", "next"} \cup WaitingPlaces) :
              /\ gpc' = [gpc EXCEPT ![g] = place] /\ UNCHANGED <<queue, ran, done>>
              /\ place = "child" => ran[Current(g)] < Runs[Current(g)]
  <2>1. \A h \in Groups : gpc'[h] = "child" => ran[Current(h)] < Runs[Current(h)]
    BY <1>1, <1>2 DEF OnceInv, TypeOK
  <2> QED
    BY <1>1, <1>2, <2>1, OnceFrame
<1>3. CASE Seed(g) \/ LeaveLoop(g) \/ BeginCase(g) \/ TraceHole(g) \/ ProbeEnds(g)
  <2>1. \E place \in {"scan", "next", "raised", "joined", "case"} :
          gpc' = [gpc EXCEPT ![g] = place] /\ UNCHANGED <<queue, ran, done>>
    BY <1>3 DEF Seed, LeaveLoop, BeginCase, TraceHole, ProbeEnds, Waits, GroupMoves
  <2> QED
    BY <1>2, <2>1 DEF WaitingPlaces
<1>4. CASE StartRun(g)
  <2>1. CASE now < window[g]
    BY <1>2, <1>4, <2>1 DEF StartRun, Waits, GroupMoves, WaitingPlaces
  <2>2. CASE ~(now < window[g])
    BY <1>1, <1>4, <2>2, OnceCaseOver DEF StartRun, InCase, Results
  <2> QED
    BY <2>1, <2>2
<1>5. CASE RunEnds(g)
  BY <1>1, <1>5, OnceRunEnds
<1>6. CASE RunTimesOut(g) \/ CaseRaises(g)
  BY <1>1, <1>6, OnceCaseOver DEF RunTimesOut, CaseRaises, InCase, Results
<1>7. CASE Judge(g)
  BY <1>1, <1>7, OnceCaseOver DEF Judge, InCase
<1> QED
  BY <1>3, <1>4, <1>5, <1>6, <1>7 DEF Group

\* main gives the cases to the groups, and takes none back.
LEMMA OnceBind ==
  ASSUME IInv, OnceInv, Bind
  PROVE  OnceInv'
<1>1. TypeOK /\ pc = "bind" /\ UNCHANGED <<ran, done>> /\ pc' # "bind"
  BY DEF IInv, Bind, Fails
<1>2. CASE UNCHANGED <<gpc, queue>>
  BY <1>1, <1>2, OnceFrame DEF OnceInv
<1>3. CASE queue' = Assigned(Registry)
           /\ gpc' = [g \in Groups |-> IF now < BatchDeadline THEN "seed" ELSE "raised"]
  <2>1. Registry \subseteq Known /\ Assigned(Registry) \in [Groups -> Seq(Registry)]
    BY <1>1, RegistryAssigned DEF TypeOK
  <2>2. QueuesApart(queue')
    BY <1>1, <1>3, AssignedApart DEF TypeOK
  <2>3. \A g \in Groups : \A i \in DOMAIN queue'[g] : queue'[g][i] \in Known
    BY <1>3, <2>1
  <2>4. \A c \in Known : ran'[c] = 0 /\ done'[c] = "NOT_RUN" /\ ran'[c] <= Runs[c]
    BY <1>1, MatrixAssumption DEF OnceInv
  <2>5. EachCaseOnce'
    BY <2>2, <2>3, <2>4 DEF EachCaseOnce, QueuesApart
  <2> QED
    BY <1>1, <1>3, <2>5 DEF OnceInv
<1> QED
  BY <1>2, <1>3 DEF Bind

\* Each case is in one place of one group, from the planning to its verdict, and makes
\* no more runs than it has to, for every set of cases and every number of workers.
THEOREM EachCaseOnceAlways == Spec => []EachCaseOnce
<1>1. Init => OnceInv
  <2> SUFFICES ASSUME Init PROVE OnceInv
    OBVIOUS
  <2>1. \A g \in Groups : queue[g] = <<>> /\ DOMAIN queue[g] = {} /\ gpc[g] = "idle"
    BY DEF Init
  <2>2. \A c \in Known : ran[c] = 0 /\ done[c] = "NOT_RUN" /\ ran[c] <= Runs[c]
    BY MatrixAssumption DEF Init
  <2> QED
    BY <2>1, <2>2 DEF OnceInv, EachCaseOnce
<1>2. IInv /\ OnceInv /\ [Next]_vars => OnceInv'
  <2> SUFFICES ASSUME IInv, OnceInv, [Next]_vars PROVE OnceInv'
    OBVIOUS
  <2>1. ASSUME NEW g \in Groups, Group(g) PROVE OnceInv'
    BY <2>1, OnceGroup
  <2>2. CASE Bind
    BY <2>2, OnceBind
  <2>3. CASE Join \/ ProofEnds \/ Bookkeeping \/ Cleanup \/ Report \/ Tick \/ LeakedEnds \/ UNCHANGED vars
    <3>1. UNCHANGED <<queue, ran, done, gpc>> /\ (pc' = "bind" => pc = "bind")
      BY <2>3 DEF Join, ProofEnds, Bookkeeping, Cleanup, Report, Tick, LeakedEnds, vars,
         groupVars, Fails, StartProof
    <3>2. \A g \in Groups : gpc'[g] = "child" => ran[Current(g)] < Runs[Current(g)]
      BY <3>1 DEF OnceInv
    <3> QED
      BY <3>1, <3>2, OnceFrame
  <2> QED
    BY <2>1, <2>2, <2>3 DEF Next, Main, Done
<1>3. OnceInv => EachCaseOnce
  BY DEF OnceInv
<1> QED
  BY <1>1, <1>2, <1>3, Invariance, PTL DEF Spec
=============================================================================
