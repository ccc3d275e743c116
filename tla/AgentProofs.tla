---------------------------- MODULE AgentProofs ----------------------------
(***************************************************************************)
(* Theorems about the modules of the agent: ProofGraph, for any texts, ids *)
(* and number of changes; Supervisor, for any policy, configuration,       *)
(* number of rounds, routes and solves; Memory, for any solves, contents   *)
(* and records; and LemmaExecutor, for any plan, parallelism, depth and    *)
(* number of repairs and sub-lemmas.                                       *)
(*                                                                         *)
(* The invariant of ProofGraph says the same of the run's graph and of the *)
(* stored one, which a resumed run starts from: its root and its active    *)
(* goal exist; it has no cycle; what a proof rested on is still among the  *)
(* ancestors of its goal (Based), so that the cascade of a reset reaches   *)
(* the proof; and the active goal states the current goal, so that         *)
(* accepted evidence is about the goal it is recorded for.  Each part      *)
(* holds until the history variable lapses records the step that ends it.  *)
(*                                                                         *)
(* In Supervisor a round is begun only while nothing is verified, so the   *)
(* one verified result of a solve is that of its last round or of one of   *)
(* its parallel routes, and the selection takes a verified route if there  *)
(* is one (FoundStays).  The post-solve work is in one place at a time:    *)
(* not yet due, deferred in its slot, or begun (Owed).                     *)
(*                                                                         *)
(* In Memory a store has seen a prefix of the file, and when that is all   *)
(* of it, holds the last version of every memory (CurrentStore).           *)
(*                                                                         *)
(* In LemmaExecutor a task carries the path of the declaration in turn and *)
(* the codes of those that were proved below it.  A code belongs to a      *)
(* sub-lemma that a rescue has passed (Passed), so no name comes twice,    *)
(* and uses what stands before it in its block (Chained); the blocks of a  *)
(* level are proved above the same file, so that they may be joined in any *)
(* order.  The declaration that failed last stays unproved, whichever of   *)
(* the concurrent tasks reported it (Blame).                               *)
(***************************************************************************)
EXTENDS ProofGraph, Supervisor, LemmaExecutor, Memory,
        FiniteSetTheorems, SequenceTheorems, WellFoundedInduction, TLAPS

-----------------------------------------------------------------------------
(* Sets of numbers in order *)

\* The rank of a member is the number of the smaller ones: a larger member has a larger rank.
LEMMA RanksGrow ==
  ASSUME NEW S \in SUBSET Nat, IsFiniteSet(S), NEW i \in S, NEW j \in S, i < j
  PROVE  Cardinality(Below(S, i)) \in Nat /\ Cardinality(Below(S, i)) < Cardinality(Below(S, j))
<1>1. Below(S, i) \in SUBSET S /\ Below(S, j) \in SUBSET S
  BY DEF Below
<1>2. IsFiniteSet(Below(S, i)) /\ IsFiniteSet(Below(S, j))
  <2>1. IsFiniteSet(Below(S, i))
    BY <1>1, FS_Subset
  <2>2. IsFiniteSet(Below(S, j))
    BY <1>1, FS_Subset
  <2> QED
    BY <2>1, <2>2
<1>3. i \notin Below(S, i)
  BY DEF Below
<1>4. Below(S, i) \union {i} \in SUBSET Below(S, j)
  <2>1. i \in Nat /\ j \in Nat /\ \A k \in S : k \in Nat
    OBVIOUS
  <2>2. \A k \in S : k < i => k < j
    BY <2>1
  <2> QED
    BY <2>2 DEF Below
<1>5. Cardinality(Below(S, i) \union {i}) = Cardinality(Below(S, i)) + 1
  BY <1>2, <1>3, FS_AddElement
<1>6. Cardinality(Below(S, i) \union {i}) <= Cardinality(Below(S, j))
  BY <1>2, <1>4, FS_Subset
<1>7. Cardinality(Below(S, i)) \in Nat /\ Cardinality(Below(S, j)) \in Nat
  BY <1>2, FS_CardinalityType
<1> QED
  BY <1>5, <1>6, <1>7

LEMMA RanksFit ==
  ASSUME NEW S \in SUBSET Nat, IsFiniteSet(S), NEW i \in S
  PROVE  /\ Cardinality(Below(S, i)) \in Nat
         /\ Cardinality(Below(S, i)) + 1 \in 1 .. Cardinality(S)
<1>1. Below(S, i) \union {i} \in SUBSET S /\ i \notin Below(S, i) /\ Below(S, i) \in SUBSET S
  BY DEF Below
<1>2. IsFiniteSet(Below(S, i)) /\ Cardinality(Below(S, i) \union {i}) <= Cardinality(S)
  BY <1>1, FS_Subset
<1>3. Cardinality(Below(S, i) \union {i}) = Cardinality(Below(S, i)) + 1
  BY <1>1, <1>2, FS_AddElement
<1>4. Cardinality(Below(S, i)) \in Nat /\ Cardinality(S) \in Nat
  BY <1>2, FS_CardinalityType
<1> QED
  BY <1>2, <1>3, <1>4

\* A list of the members of a set, each once and the smaller ones first.
Sorts(f, S) ==
  /\ f \in [1 .. Cardinality(S) -> S]
  /\ \A k, m \in 1 .. Cardinality(S) : k < m => f[k] < f[m]
  /\ \A i \in S : \E k \in 1 .. Cardinality(S) : f[k] = i

\* Ranks are one to one with the numbers up to the size of the set.
LEMMA InOrderSorts ==
  ASSUME NEW S \in SUBSET Nat, IsFiniteSet(S)
  PROVE  Cardinality(S) \in Nat /\ Sorts(InOrder(S), S)
<1> DEFINE n == Cardinality(S)
           rank == [i \in S |-> Cardinality(Below(S, i)) + 1]
<1>1. n \in Nat /\ IsFiniteSet(1 .. n) /\ Cardinality(1 .. n) = n
  BY FS_CardinalityType, FS_Interval
<1>2. ASSUME NEW i \in S, NEW j \in S, i < j
      PROVE  rank[i] < rank[j]
  <2>1. Cardinality(Below(S, i)) \in Nat /\ Cardinality(Below(S, j)) \in Nat
    BY RanksFit
  <2>2. Cardinality(Below(S, i)) < Cardinality(Below(S, j))
    BY <1>2, RanksGrow
  <2> QED
    BY <2>1, <2>2
<1>3. rank \in Injection(S, 1 .. n)
  <2>1. rank \in [S -> 1 .. n]
    BY RanksFit
  <2>2. \A i, j \in S : i # j => rank[i] # rank[j]
    <3> SUFFICES ASSUME NEW i \in S, NEW j \in S, i # j
                 PROVE  rank[i] # rank[j]
      OBVIOUS
    <3>1. i < j \/ j < i
      OBVIOUS
    <3>2. rank[i] \in Nat /\ rank[j] \in Nat
      BY <2>1
    <3> QED
      BY <1>2, <3>1, <3>2
  <2> HIDE DEF rank
  <2> QED
    BY <2>1, <2>2 DEF Injection, IsInjective
<1>4. rank \in Surjection(S, 1 .. n)
  <2> HIDE DEF rank
  <2> QED
    BY <1>1, <1>3, FS_Injection
<1>5. \A k \in 1 .. n : \E i \in S : Cardinality(Below(S, i)) = k - 1
  <2> SUFFICES ASSUME NEW k \in 1 .. n
               PROVE  \E i \in S : Cardinality(Below(S, i)) = k - 1
    OBVIOUS
  <2>1. PICK i \in S : rank[i] = k
    BY <1>4 DEF Surjection
  <2>2. Cardinality(Below(S, i)) \in Nat
    BY RanksFit
  <2> QED
    BY <2>1, <2>2
<1>6. \A k \in 1 .. n : InOrder(S)[k] \in S /\ Cardinality(Below(S, InOrder(S)[k])) = k - 1
  BY <1>5 DEF InOrder
<1>7. InOrder(S) \in [1 .. n -> S]
  BY <1>6 DEF InOrder
<1>8. ASSUME NEW k \in 1 .. n, NEW m \in 1 .. n, k < m
      PROVE  InOrder(S)[k] < InOrder(S)[m]
  <2> DEFINE a == InOrder(S)[k]
             b == InOrder(S)[m]
  <2>1. a \in S /\ b \in S /\ Cardinality(Below(S, a)) = k - 1 /\ Cardinality(Below(S, b)) = m - 1
    BY <1>6
  <2>2. ~ b < a
    <3> HIDE DEF a, b
    <3> QED
      BY <1>8, <2>1, RanksGrow
  <2>3. a # b
    <3> HIDE DEF a, b
    <3> QED
      BY <1>8, <2>1
  <2>4. a \in Nat /\ b \in Nat
    BY <2>1
  <2> HIDE DEF a, b
  <2>5. a < b
    BY <2>2, <2>3, <2>4
  <2> QED
    BY <2>5 DEF a, b
<1>9. ASSUME NEW i \in S
      PROVE  \E k \in 1 .. n : InOrder(S)[k] = i
  <2> DEFINE k == rank[i]
             j == InOrder(S)[k]
  <2>1. k \in 1 .. n /\ k - 1 = Cardinality(Below(S, i)) /\ Cardinality(Below(S, i)) \in Nat
    BY RanksFit
  <2>2. j \in S /\ Cardinality(Below(S, j)) = Cardinality(Below(S, i))
    <3> HIDE DEF rank
    <3> QED
      BY <1>6, <2>1
  <2>3. ~ i < j /\ ~ j < i
    <3> HIDE DEF j, rank
    <3> QED
      BY <2>1, <2>2, RanksGrow
  <2>4. i = j
    <3> HIDE DEF j, rank
    <3> QED
      BY <2>2, <2>3
  <2> QED
    BY <2>1, <2>4
<1> QED
  BY <1>1, <1>7, <1>8, <1>9 DEF Sorts

-----------------------------------------------------------------------------
(* The graph of goals *)

Goals == [Ids -> Goal \union {None}]
Sound(g) == /\ g \in Graph /\ g.root # None /\ g.active # None
            /\ g.goals[g.root] # None /\ g.goals[g.active] # None
Based(goals) == \A i \in Ids : goals[i] # None =>
  ~goals[i].void /\ goals[i].basis \subseteq Ancestry(goals, i)
Witnessed(goals) == \A i \in Ids :
  Proved(goals, i) => goals[i].evidence = goals[i].statement
Truthful(l) == l \intersect {"refused", "renamed"} = {}

\* What holds of a graph whatever its current goal, and of a graph a run works on.
Kept(g, l) ==
  /\ "aliased" \notin l => Acyclic(g.goals)
  /\ "forgot" \notin l => Based(g.goals)
Whole(g, l) == Sound(g) /\ Kept(g, l) /\ (Truthful(l) => Witnessed(g.goals))
Fit(g, text, l) ==
  Whole(g, l) /\ (Truthful(l) => g.goals[g.active].statement = text)
Inv ==
  /\ TypeOK /\ Kept(graph, lapses)
  /\ run = "running" => Fit(graph, current, lapses)
  /\ stored.graph = Empty \/ Fit(stored.graph, stored.current, lapses)

-----------------------------------------------------------------------------
(* Dependencies *)

LEMMA DepsAreIds ==
  ASSUME NEW goals \in Goals, NEW i \in Ids
  PROVE  Deps(goals, i) \subseteq Ids
BY NoneAssumption DEF Deps, Goals, Goal

\* A graph without additional dependencies has no additional cycle.
LEMMA FewerLinks ==
  ASSUME NEW g, NEW h, Acyclic(g),
         \A x \in Ids : Deps(h, x) \subseteq Deps(g, x)
  PROVE  Acyclic(h)
<1> SUFFICES ASSUME NEW C \in SUBSET Ids, C # {}, \A i \in C : Deps(h, i) \intersect C # {}
             PROVE  FALSE
  BY DEF Acyclic
<1>1. \A i \in C : Deps(g, i) \intersect C # {}
  OBVIOUS
<1> QED
  BY <1>1 DEF Acyclic

\* A graph that keeps its dependencies keeps its ancestors.
LEMMA AncestryGrows ==
  ASSUME NEW g, NEW h, NEW i \in Ids,
         \A x \in Ids : Deps(g, x) \subseteq Deps(h, x)
  PROVE  Ancestry(g, i) \subseteq Ancestry(h, i)
<1> SUFFICES ASSUME NEW d \in Ancestry(g, i), NEW C \in SUBSET Ids,
                    \A x \in C \union {i} : Deps(h, x) \subseteq C
             PROVE  d \in C
  BY DEF Ancestry
<1>1. \A x \in C \union {i} : Deps(g, x) \subseteq C
  OBVIOUS
<1> QED
  BY <1>1 DEF Ancestry

\* Who has a goal, or a dependent of it, among its ancestors depends on that goal.
LEMMA AncestorsReach ==
  ASSUME NEW goals \in Goals, NEW i \in Ids, NEW g \in Ids, NEW d \in Ancestry(goals, g),
         d = i \/ d \in Dependents(goals, i)
  PROVE  g \in Dependents(goals, i)
<1> SUFFICES ASSUME NEW C \in SUBSET Ids, g \notin C,
                    \A x \in Ids : Deps(goals, x) \intersect (C \union {i}) # {} => x \in C
             PROVE  FALSE
  BY DEF Dependents
<1> PICK D \in SUBSET Ids : D = Ids \ (C \union {i})
  OBVIOUS
<1>1. \A x \in D \union {g} : Deps(goals, x) \subseteq D
  BY DepsAreIds
<1>2. d \in D
  BY <1>1 DEF Ancestry
<1>3. d \in C
  BY <1>2 DEF Dependents
<1> QED
  BY <1>2, <1>3

-----------------------------------------------------------------------------
(* The graph's operations, goal by goal *)

LEMMA UpsertedFacts ==
  ASSUME NEW goals \in Goals, NEW i \in Ids, NEW text \in Texts, NEW deps \in SUBSET Ids
  PROVE  LET h == Upserted(goals, i, text, deps)
         IN /\ h \in Goals /\ h[i] # None
            /\ h[i].statement = text /\ h[i].depends_on = deps
            /\ \A x \in Ids \ {i} : h[x] = goals[x]
            /\ goals[i] = None => h[i].status = "pending" /\ h[i].basis = {} /\ ~h[i].void
            /\ goals[i] # None => /\ h[i].status = goals[i].status
                                  /\ h[i].evidence = goals[i].evidence
                                  /\ h[i].basis = goals[i].basis
                                  /\ h[i].void = goals[i].void
<1>new. PICK new : new = NewGoal(text, deps)
  OBVIOUS
<1>old. PICK old : old = [goals[i] EXCEPT !.statement = text, !.depends_on = deps]
  OBVIOUS
<1>1. new \in Goal
  BY <1>new DEF NewGoal, Goal, Status
<1>h. PICK h : h = Upserted(goals, i, text, deps)
  OBVIOUS
<1>2. CASE goals[i] = None
  <2>1. h = [goals EXCEPT ![i] = new]
    BY <1>2, <1>new, <1>h DEF Upserted, Goals
  <2>2. h \in Goals /\ h[i] = new /\ \A x \in Ids \ {i} : h[x] = goals[x]
    BY <1>1, <2>1 DEF Goals
  <2>3. new # None
    BY <1>1, NoneAssumption
  <2> QED
    BY <1>2, <1>h, <2>2, <2>3, <1>new DEF NewGoal
<1>3. CASE goals[i] # None
  <2>1. goals[i] \in Goal
    BY <1>3 DEF Goals
  <2>2. old \in Goal
    BY <1>old, <2>1 DEF Goal
  <2>3. h = [goals EXCEPT ![i] = old]
    BY <1>3, <1>old, <1>h DEF Upserted, Goals
  <2>4. h \in Goals /\ h[i] = old /\ \A x \in Ids \ {i} : h[x] = goals[x]
    BY <2>2, <2>3 DEF Goals
  <2>5. old # None
    BY <2>2, NoneAssumption
  <2> QED
    BY <1>3, <1>h, <2>4, <2>5, <2>1, <1>old DEF Goal
<1> QED
  BY <1>2, <1>3

LEMMA ActivatedFacts ==
  ASSUME NEW goals \in Goals, NEW i \in Ids, goals[i] # None
  PROVE  LET h == Activated(goals, i)
         IN /\ h \in Goals /\ h[i] # None
            /\ (h[i].status = "proved") <=> (goals[i].status = "proved")
            /\ h[i].statement = goals[i].statement /\ h[i].depends_on = goals[i].depends_on
            /\ h[i].evidence = goals[i].evidence /\ h[i].basis = goals[i].basis
            /\ h[i].void = goals[i].void
            /\ \A x \in Ids \ {i} : h[x] = goals[x]
<1>1. goals[i] \in Goal
  BY DEF Goals
<1>2. PICK new : new = [goals[i] EXCEPT !.status = IF @ = "proved" THEN "proved" ELSE "in_progress"]
  OBVIOUS
<1>3. new \in Goal
  BY <1>1, <1>2 DEF Goal, Status
<1>4. Activated(goals, i) = [goals EXCEPT ![i] = new]
  BY <1>1, <1>2 DEF Activated, Goals
<1> QED
  BY <1>1, <1>2, <1>3, <1>4, NoneAssumption DEF Goals, Goal

LEMMA EditedFacts ==
  ASSUME NEW goals \in Goals, NEW i \in Ids, NEW text \in Texts, goals[i] # None
  PROVE  LET h == [goals EXCEPT ![i].statement = text]
         IN /\ h \in Goals /\ h[i] # None
            /\ h[i].statement = text /\ h[i].depends_on = goals[i].depends_on
            /\ h[i].basis = goals[i].basis /\ h[i].void = goals[i].void
            /\ \A x \in Ids \ {i} : h[x] = goals[x]
<1>1. goals[i] \in Goal
  BY DEF Goals
<1>2. PICK new : new = [goals[i] EXCEPT !.statement = text]
  OBVIOUS
<1>3. new \in Goal
  BY <1>1, <1>2 DEF Goal
<1>4. [goals EXCEPT ![i].statement = text] = [goals EXCEPT ![i] = new]
  BY <1>1, <1>2 DEF Goals
<1> QED
  BY <1>1, <1>2, <1>3, <1>4, NoneAssumption DEF Goals, Goal

Linked(goals, r, i) == [goals EXCEPT ![r].depends_on = @ \union {i}]
LEMMA LinkedFacts ==
  ASSUME NEW goals \in Goals, NEW r \in Ids, NEW i \in Ids, goals[r] # None,
         NEW h, h = Linked(goals, r, i)
  PROVE  /\ h \in Goals /\ h[r] # None
         /\ h[r].depends_on = goals[r].depends_on \union {i}
         /\ h[r].statement = goals[r].statement /\ h[r].status = goals[r].status
         /\ h[r].evidence = goals[r].evidence /\ h[r].basis = goals[r].basis
         /\ h[r].void = goals[r].void
         /\ \A x \in Ids \ {r} : h[x] = goals[x]
<1>1. goals[r] \in Goal
  BY DEF Goals
<1>2. PICK new : new = [goals[r] EXCEPT !.depends_on = @ \union {i}]
  OBVIOUS
<1>3. new \in Goal
  BY <1>1, <1>2 DEF Goal
<1>4. h = [goals EXCEPT ![r] = new]
  BY <1>1, <1>2 DEF Goals, Linked
<1> QED
  BY <1>1, <1>2, <1>3, <1>4, NoneAssumption DEF Goals, Goal

LEMMA ResetFacts ==
  ASSUME NEW goals \in Goals, NEW i \in Ids, goals[i] # None, NEW x \in Ids
  PROVE  LET h == ResetGoals(goals, i)
         IN /\ h \in Goals
            /\ goals[x] = None => h[x] = None
            /\ goals[x] # None => /\ h[x] # None
                                  /\ h[x].statement = goals[x].statement
                                  /\ h[x].depends_on = goals[x].depends_on
            /\ x \in ResetSet(goals, i) =>
                 h[x].status = "pending" /\ h[x].basis = {} /\ ~h[x].void
            /\ (goals[x] # None /\ x \notin ResetSet(goals, i)) =>
                 /\ h[x].status = goals[x].status /\ h[x].evidence = goals[x].evidence
                 /\ h[x].basis = goals[x].basis
                 /\ h[x].void = (goals[x].void \/ (goals[x].status = "proved"
                                   /\ goals[x].basis \intersect ResetSet(goals, i) # {}))
<1>1. PICK R : R = ResetSet(goals, i)
  OBVIOUS
<1>2. \A y \in R : y \in Ids /\ goals[y] # None
  BY <1>1 DEF ResetSet, Dependents
<1>3. PICK h : h = ResetGoals(goals, i)
  OBVIOUS
<1>4. ASSUME NEW y \in Ids
      PROVE  /\ y \in R => h[y] = [goals[y] EXCEPT !.status = "pending", !.evidence = None,
                                                   !.basis = {}, !.void = FALSE]
             /\ (y \notin R /\ goals[y] # None) =>
                  h[y] = [goals[y] EXCEPT !.void = @ \/ (goals[y].status = "proved"
                                                   /\ goals[y].basis \intersect R # {})]
             /\ goals[y] = None => h[y] = None
  BY <1>1, <1>2, <1>3 DEF ResetGoals
<1>5. \A y \in Ids : goals[y] # None => goals[y] \in Goal
  BY DEF Goals
<1>6. ASSUME NEW y \in Ids PROVE h[y] \in Goal \union {None} /\ (goals[y] # None => h[y] # None)
  <2>1. CASE y \in R
    <3>1. [goals[y] EXCEPT !.status = "pending", !.evidence = None,
                           !.basis = {}, !.void = FALSE] \in Goal
      BY <2>1, <1>2, <1>5 DEF Goal, Status
    <3> QED
      BY <2>1, <3>1, <1>4, NoneAssumption
  <2>2. CASE y \notin R /\ goals[y] # None
    <3>1. PICK b \in BOOLEAN : b = (goals[y].void \/ (goals[y].status = "proved"
                                                   /\ goals[y].basis \intersect R # {}))
      OBVIOUS
    <3>2. [goals[y] EXCEPT !.void = b] \in Goal
      BY <2>2, <1>5 DEF Goal
    <3>3. h[y] = [goals[y] EXCEPT !.void = b]
      BY <2>2, <3>1, <1>4
    <3> QED
      BY <3>2, <3>3, NoneAssumption
  <2>3. CASE goals[y] = None
    BY <2>3, <1>4
  <2> QED
    BY <2>1, <2>2, <2>3
<1>7. h \in Goals
  BY <1>3, <1>6 DEF ResetGoals, Goals
<1>8. CASE x \in R
  <2>1. goals[x] # None /\ goals[x] \in Goal
    BY <1>8, <1>2, <1>5
  <2>2. h[x] = [goals[x] EXCEPT !.status = "pending", !.evidence = None,
                                !.basis = {}, !.void = FALSE]
    BY <1>8, <1>4
  <2>3. /\ h[x].status = "pending" /\ h[x].basis = {} /\ h[x].void = FALSE
        /\ h[x].statement = goals[x].statement
        /\ h[x].depends_on = goals[x].depends_on
    BY <2>1, <2>2 DEF Goal
  <2> QED
    BY <1>8, <1>1, <1>3, <1>6, <1>7, <2>1, <2>3
<1>9. CASE x \notin R
  <2>1. CASE goals[x] = None
    BY <1>9, <1>1, <1>3, <1>4, <1>7, <2>1
  <2>2. CASE goals[x] # None
    <3>1. goals[x] \in Goal
      BY <2>2, <1>5
    <3>2. h[x] = [goals[x] EXCEPT !.void = @ \/ (goals[x].status = "proved"
                                                   /\ goals[x].basis \intersect R # {})]
      BY <1>9, <2>2, <1>4
    <3>3. /\ h[x].status = goals[x].status /\ h[x].evidence = goals[x].evidence
          /\ h[x].basis = goals[x].basis
          /\ h[x].statement = goals[x].statement
          /\ h[x].depends_on = goals[x].depends_on
          /\ h[x].void = (goals[x].void \/ (goals[x].status = "proved"
                                             /\ goals[x].basis \intersect R # {}))
      BY <3>1, <3>2 DEF Goal
    <3> QED
      BY <1>9, <1>1, <1>3, <1>6, <1>7, <2>2, <3>3
  <2> QED
    BY <2>1, <2>2
<1> QED
  BY <1>8, <1>9

-----------------------------------------------------------------------------
(* What the operations preserve of a whole graph *)

LEMMA WholeGraph ==
  ASSUME NEW g, NEW l, Whole(g, l)
  PROVE  /\ g \in Graph /\ g.goals \in Goals /\ g.root \in Ids /\ g.active \in Ids
         /\ g.goals[g.root] # None /\ g.goals[g.active] # None
         /\ "aliased" \notin l => Acyclic(g.goals)
         /\ "forgot" \notin l => Based(g.goals)
         /\ Truthful(l) => Witnessed(g.goals)
BY DEF Whole, Sound, Kept, Graph, Goals

\* A write of a goal, by set_goal or by solve(): a lapse is recorded where a dependency
\* is dropped or a proof is left to another statement.
LEMMA OverwriteKeeps ==
  ASSUME NEW goals \in Goals, NEW i \in Ids, NEW text \in Texts, NEW deps \in SUBSET Ids,
         NEW h, h = Activated(Upserted(goals, i, text, deps), i)
  PROVE  /\ h \in Goals /\ h[i] # None /\ h[i].statement = text /\ h[i].depends_on = deps
         /\ \A x \in Ids \ {i} : h[x] = goals[x]
         /\ \A x \in Ids : Deps(h, x) = Deps(Upserted(goals, i, text, deps), x)
         /\ (Based(goals) /\ "forgot" \notin Lapse(goals, i, text, deps)) => Based(h)
         /\ (Witnessed(goals) /\ "renamed" \notin Lapse(goals, i, text, deps)) => Witnessed(h)
<1>1. PICK u : u = Upserted(goals, i, text, deps)
  OBVIOUS
<1>2. /\ u \in Goals /\ u[i] # None
      /\ u[i].statement = text /\ u[i].depends_on = deps
      /\ \A x \in Ids \ {i} : u[x] = goals[x]
      /\ goals[i] = None => u[i].status = "pending" /\ u[i].basis = {} /\ ~u[i].void
      /\ goals[i] # None => /\ u[i].status = goals[i].status
                            /\ u[i].evidence = goals[i].evidence
                            /\ u[i].basis = goals[i].basis
                            /\ u[i].void = goals[i].void
  BY <1>1, UpsertedFacts
<1>3. /\ h \in Goals /\ h[i] # None
      /\ (h[i].status = "proved") <=> (u[i].status = "proved")
      /\ h[i].statement = u[i].statement /\ h[i].depends_on = u[i].depends_on
      /\ h[i].evidence = u[i].evidence /\ h[i].basis = u[i].basis
      /\ h[i].void = u[i].void
      /\ \A x \in Ids \ {i} : h[x] = u[x]
  BY <1>1, <1>2, ActivatedFacts
<1>4. \A x \in Ids : Deps(h, x) = Deps(u, x)
  BY <1>2, <1>3 DEF Deps
<1>5. ASSUME Based(goals), "forgot" \notin Lapse(goals, i, text, deps) PROVE Based(h)
  <2>3. goals[i] # None => goals[i].depends_on \subseteq deps
    BY <1>5 DEF Lapse
  <2>4. \A x \in Ids : Deps(goals, x) \subseteq Deps(h, x)
    BY <2>3, <1>2, <1>3 DEF Deps
  <2>5. \A x \in Ids : Ancestry(goals, x) \subseteq Ancestry(h, x)
    BY <2>4, AncestryGrows
  <2>6. ASSUME NEW x \in Ids, h[x] # None
        PROVE  ~h[x].void /\ h[x].basis \subseteq Ancestry(h, x)
    <3>1. CASE x # i
      BY <3>1, <1>5, <2>5, <2>6, <1>2, <1>3 DEF Based
    <3>2. CASE x = i /\ goals[i] # None
      BY <3>2, <1>5, <2>5, <1>2, <1>3 DEF Based
    <3>3. CASE x = i /\ goals[i] = None
      BY <3>3, <1>2, <1>3
    <3> QED
      BY <3>1, <3>2, <3>3
  <2> QED
    BY <2>6 DEF Based
<1>6. ASSUME Witnessed(goals), "renamed" \notin Lapse(goals, i, text, deps) PROVE Witnessed(h)
  <2>3. (goals[i] # None /\ goals[i].status = "proved") => goals[i].statement = text
    BY <1>6 DEF Lapse
  <2>4. ASSUME NEW x \in Ids, Proved(h, x) PROVE h[x].evidence = h[x].statement
    <3>1. CASE x # i
      BY <3>1, <1>6, <2>4, <1>2, <1>3 DEF Witnessed, Proved
    <3>2. CASE x = i
      <4>1. u[i].status = "proved"
        BY <3>2, <2>4, <1>3 DEF Proved
      <4>2. goals[i] # None /\ goals[i].status = "proved"
        BY <4>1, <1>2
      <4> QED
        BY <3>2, <4>2, <1>6, <2>3, <1>2, <1>3 DEF Witnessed, Proved
    <3> QED
      BY <3>1, <3>2
  <2> QED
    BY <2>4 DEF Witnessed
<1> QED
  BY <1>1, <1>2, <1>3, <1>4, <1>5, <1>6

\* ensure_root makes the graph of a new run and leaves a stored one alone.
LEMMA RootedKeeps ==
  ASSUME NEW g, NEW l, g = Empty \/ Whole(g, l)
  PROVE  /\ Whole(Rooted(g), l)
         /\ g = Empty => Rooted(g).goals[Rooted(g).active].statement = Problem
         /\ g # Empty => Rooted(g) = g
<1>1. CASE g = Empty
  <2>1. PICK r \in Ids : r = GoalIdFor[Problem] /\ r # None
    BY IdAssumption, TextAssumption DEF Ids
  <2>2. PICK u : u = Upserted(g.goals, r, Problem, {})
    OBVIOUS
  <2>3. g.goals \in Goals /\ g.root = None /\ \A x \in Ids : g.goals[x] = None
    BY <1>1 DEF Empty, Goals
  <2>4. /\ u \in Goals /\ u[r] # None /\ u[r].statement = Problem /\ u[r].depends_on = {}
        /\ u[r].basis = {} /\ ~u[r].void
        /\ \A x \in Ids \ {r} : u[x] = None
    <3>1. {} \in SUBSET Ids /\ Problem \in Texts
      BY TextAssumption
    <3> QED
      BY <2>2, <2>3, <3>1, UpsertedFacts
  <2>5. u[r] \in Goal
    BY <2>4 DEF Goals
  <2>6. PICK new \in Goal : new = [u[r] EXCEPT !.status = "in_progress"]
    BY <2>5 DEF Goal, Status
  <2>7. PICK h : h = [u EXCEPT ![r] = new]
    OBVIOUS
  <2>8. Rooted(g) = [goals |-> h, root |-> r, active |-> r]
    BY <2>1, <2>2, <2>3, <2>4, <2>6, <2>7 DEF Rooted, Goals
  <2>9. /\ h \in Goals /\ h[r] = new /\ new # None
        /\ \A x \in Ids \ {r} : h[x] = None
    BY <2>4, <2>6, <2>7, NoneAssumption DEF Goals
  <2>10. new.depends_on = {} /\ new.basis = {} /\ ~new.void /\ new.status = "in_progress"
         /\ new.statement = Problem
    BY <2>4, <2>5, <2>6 DEF Goal
  <2>11. Acyclic(h)
    <3>1. \A x \in Ids : Deps(h, x) = {}
      BY <2>9, <2>10 DEF Deps
    <3> QED
      BY <3>1 DEF Acyclic
  <2>12. Based(h) /\ Witnessed(h)
    BY <2>9, <2>10 DEF Based, Witnessed, Proved
  <2>13. Sound(Rooted(g))
    BY <2>1, <2>8, <2>9 DEF Sound, Graph, Goals
  <2> QED
    BY <1>1, <2>8, <2>9, <2>10, <2>11, <2>12, <2>13 DEF Whole, Kept
<1>2. CASE g # Empty
  BY <1>2 DEF Whole, Sound, Rooted
<1> QED
  BY <1>1, <1>2

\* The current goal becomes a dependency of the root, and depends on nothing itself.
LEMMA CurrentFits ==
  ASSUME NEW g, NEW l, NEW m, NEW text \in Texts, NEW i, i = GoalIdFor[text],
         Whole(g, l), Acyclic(Upserted(g.goals, i, text, {})),
         m = l \union Lapse(g.goals, i, text, {})
               \union (IF i = g.root THEN {"aliased"} ELSE {})
  PROVE  Fit(WithCurrent(g, text), text, m)
<1>1. i \in Ids /\ i # None
  BY IdAssumption DEF Ids
<1>2. PICK u : u = Upserted(g.goals, i, text, {})
  OBVIOUS
<1>3. PICK h : h = Activated(u, i)
  OBVIOUS
<1>4. PICK r : r = g.root
  OBVIOUS
<1>5. /\ g \in Graph /\ g.goals \in Goals /\ r \in Ids /\ g.goals[r] # None
  BY <1>4, WholeGraph
<1>6. /\ h \in Goals /\ h[i] # None /\ h[i].statement = text /\ h[i].depends_on = {}
      /\ \A x \in Ids \ {i} : h[x] = g.goals[x]
      /\ \A x \in Ids : Deps(h, x) = Deps(u, x)
      /\ "forgot" \notin m => Based(h)
      /\ Truthful(m) => Witnessed(h)
  <2>1. {} \in SUBSET Ids /\ h = Activated(Upserted(g.goals, i, text, {}), i)
    BY <1>2, <1>3
  <2>2. /\ h \in Goals /\ h[i] # None /\ h[i].statement = text /\ h[i].depends_on = {}
        /\ \A x \in Ids \ {i} : h[x] = g.goals[x]
        /\ \A x \in Ids : Deps(h, x) = Deps(Upserted(g.goals, i, text, {}), x)
        /\ (Based(g.goals) /\ "forgot" \notin Lapse(g.goals, i, text, {})) => Based(h)
        /\ (Witnessed(g.goals) /\ "renamed" \notin Lapse(g.goals, i, text, {})) => Witnessed(h)
    BY <1>1, <1>5, <2>1, OverwriteKeeps
  <2>3. ASSUME "forgot" \notin m PROVE Based(h)
    BY <2>2, <2>3, WholeGraph
  <2>4. ASSUME Truthful(m) PROVE Witnessed(h)
    <3>1. Truthful(l) /\ "renamed" \notin Lapse(g.goals, i, text, {})
      BY <2>4 DEF Truthful
    <3> QED
      BY <2>2, <3>1, WholeGraph
  <2> QED
    BY <1>2, <2>2, <2>3, <2>4
<1>7. PICK w : w = Linked(h, r, i)
  OBVIOUS
<1>8. h[r] # None
  BY <1>5, <1>6
<1>9. /\ w \in Goals /\ w[r] # None
      /\ w[r].depends_on = h[r].depends_on \union {i}
      /\ w[r].statement = h[r].statement /\ w[r].status = h[r].status
      /\ w[r].evidence = h[r].evidence /\ w[r].basis = h[r].basis
      /\ w[r].void = h[r].void
      /\ \A x \in Ids \ {r} : w[x] = h[x]
  BY <1>1, <1>5, <1>6, <1>7, <1>8, LinkedFacts
<1>10. WithCurrent(g, text) = [g EXCEPT !.goals = w, !.active = i]
  BY <1>2, <1>3, <1>4, <1>7 DEF WithCurrent, Linked
<1>11. PICK c : c = [g EXCEPT !.goals = w, !.active = i]
  OBVIOUS
<1>12. c \in Graph /\ c.goals = w /\ c.active = i /\ c.root = r
  BY <1>1, <1>4, <1>5, <1>9, <1>11 DEF Graph, Goals
<1>13. w[i] # None /\ w[i].statement = text
  BY <1>1, <1>6, <1>9
<1>14. Sound(c)
  BY <1>1, <1>5, <1>9, <1>12, <1>13, IdAssumption DEF Sound, Ids
<1>15. ASSUME "aliased" \notin m PROVE Acyclic(w)
  <2>1. i # r
    BY <1>4, <1>15
  <2> SUFFICES ASSUME NEW C \in SUBSET Ids, C # {},
                      \A x \in C : Deps(w, x) \intersect C # {}
               PROVE  FALSE
    BY DEF Acyclic
  <2>2. Deps(w, i) = {}
    BY <2>1, <1>1, <1>6, <1>9 DEF Deps
  <2>3. i \notin C
    BY <2>2
  <2>4. ASSUME NEW x \in C PROVE Deps(u, x) \intersect C # {}
    <3>1. Deps(w, x) \subseteq Deps(h, x) \union {i}
      BY <1>8, <1>9 DEF Deps
    <3>2. Deps(h, x) = Deps(u, x)
      BY <1>6
    <3> QED
      BY <2>3, <3>1, <3>2
  <2> QED
    BY <2>4, <1>2 DEF Acyclic
<1>16. ASSUME "forgot" \notin m PROVE Based(w)
  <2>1. Based(h)
    BY <1>6, <1>16
  <2>2. \A x \in Ids : Deps(h, x) \subseteq Deps(w, x)
    BY <1>8, <1>9 DEF Deps
  <2>3. \A x \in Ids : Ancestry(h, x) \subseteq Ancestry(w, x)
    BY <2>2, AncestryGrows
  <2>4. ASSUME NEW x \in Ids, w[x] # None
        PROVE  ~w[x].void /\ w[x].basis \subseteq Ancestry(w, x)
    <3>1. h[x] # None /\ w[x].void = h[x].void /\ w[x].basis = h[x].basis
      BY <2>4, <1>8, <1>9
    <3> QED
      BY <2>1, <2>3, <3>1 DEF Based
  <2> QED
    BY <2>4 DEF Based
<1>17. ASSUME Truthful(m) PROVE Witnessed(w)
  BY <1>6, <1>8, <1>9, <1>17 DEF Witnessed, Proved
<1> QED
  BY <1>10, <1>11, <1>12, <1>13, <1>14, <1>15, <1>16, <1>17 DEF Fit, Whole, Kept

\* A goal action: the cascade takes back every proof that rested on the goal.
LEMMA ActedOnFits ==
  ASSUME NEW g, NEW l, NEW i \in Ids, NEW text \in Texts, Whole(g, l), g.goals[i] # None
  PROVE  Fit(ActedOn(g, i, text), text, l)
<1>1. /\ g \in Graph /\ g.goals \in Goals /\ g.root \in Ids /\ g.root # None
      /\ g.goals[g.root] # None
  BY WholeGraph DEF Whole, Sound
<1>2. PICK e : e = [g.goals EXCEPT ![i].statement = text]
  OBVIOUS
<1>3. /\ e \in Goals /\ e[i] # None
      /\ e[i].statement = text /\ e[i].depends_on = g.goals[i].depends_on
      /\ e[i].basis = g.goals[i].basis /\ e[i].void = g.goals[i].void
      /\ \A x \in Ids \ {i} : e[x] = g.goals[x]
  BY <1>1, <1>2, EditedFacts
<1>4. PICK R : R = ResetSet(e, i)
  OBVIOUS
<1>5. PICK q : q = ResetGoals(e, i)
  OBVIOUS
<1>6. /\ q \in Goals
      /\ \A x \in Ids :
           /\ e[x] = None => q[x] = None
           /\ e[x] # None => /\ q[x] # None
                             /\ q[x].statement = e[x].statement
                             /\ q[x].depends_on = e[x].depends_on
           /\ x \in R => q[x].status = "pending" /\ q[x].basis = {} /\ ~q[x].void
           /\ (e[x] # None /\ x \notin R) =>
                /\ q[x].status = e[x].status /\ q[x].evidence = e[x].evidence
                /\ q[x].basis = e[x].basis
                /\ q[x].void = (e[x].void \/ (e[x].status = "proved"
                                               /\ e[x].basis \intersect R # {}))
  BY <1>3, <1>4, <1>5, ResetFacts
<1>7. PICK a : a = Activated(q, i)
  OBVIOUS
<1>8. /\ a \in Goals /\ a[i] # None
      /\ (a[i].status = "proved") <=> (q[i].status = "proved")
      /\ a[i].statement = q[i].statement /\ a[i].depends_on = q[i].depends_on
      /\ a[i].evidence = q[i].evidence /\ a[i].basis = q[i].basis
      /\ a[i].void = q[i].void
      /\ \A x \in Ids \ {i} : a[x] = q[x]
  BY <1>3, <1>6, <1>7, ActivatedFacts
<1>9. i \in R
  BY <1>4 DEF ResetSet
<1>10. PICK c : c = [g EXCEPT !.goals = a, !.active = i]
  OBVIOUS
<1>11. ActedOn(g, i, text) = c
  BY <1>2, <1>5, <1>7, <1>10 DEF ActedOn
<1>12. c \in Graph /\ c.goals = a /\ c.active = i /\ c.root = g.root
  BY <1>1, <1>8, <1>10 DEF Graph, Goals
<1>13. \A x \in Ids : a[x] # None => g.goals[x] # None
  BY <1>3, <1>6, <1>8
<1>14. \A x \in Ids : Deps(e, x) = Deps(g.goals, x) /\ Deps(a, x) = Deps(g.goals, x)
  BY <1>3, <1>6, <1>8 DEF Deps
<1>15. Sound(c)
  BY <1>1, <1>3, <1>6, <1>8, <1>12, IdAssumption DEF Sound, Ids
<1>16. ASSUME "aliased" \notin l PROVE Acyclic(a)
  <2>1. Acyclic(g.goals)
    BY <1>16, WholeGraph
  <2> QED
    BY <2>1, <1>14, FewerLinks
<1>17. ASSUME "forgot" \notin l PROVE Based(a)
  <2>1. Based(g.goals)
    BY <1>17, WholeGraph
  <2>2. ASSUME NEW x \in Ids
        PROVE  /\ Ancestry(g.goals, x) \subseteq Ancestry(e, x)
               /\ Ancestry(g.goals, x) \subseteq Ancestry(a, x)
    BY <1>14, AncestryGrows
  <2>3. ASSUME NEW x \in Ids, a[x] # None
        PROVE  ~a[x].void /\ a[x].basis \subseteq Ancestry(a, x)
    <3>1. a[x].void = q[x].void /\ a[x].basis = q[x].basis
      BY <1>8
    <3>2. CASE x \in R
      BY <3>1, <3>2, <1>6
    <3>3. CASE x \notin R
      <4>1. g.goals[x] # None /\ e[x] # None /\ e[x] = g.goals[x]
        BY <2>3, <3>3, <1>3, <1>9, <1>13
      <4>2. ~e[x].void /\ e[x].basis \subseteq Ancestry(g.goals, x)
        BY <4>1, <2>1 DEF Based
      <4>3. e[x].basis \intersect R = {}
        <5> SUFFICES ASSUME NEW d \in e[x].basis, d \in R PROVE FALSE
          OBVIOUS
        <5>1. d \in Ancestry(e, x)
          BY <4>2, <2>2
        <5>2. d = i \/ d \in Dependents(e, i)
          BY <1>4 DEF ResetSet
        <5>3. x \in Dependents(e, i)
          BY <5>1, <5>2, <1>3, AncestorsReach
        <5> QED
          BY <5>3, <4>1, <3>3, <1>4 DEF ResetSet
      <4> QED
        BY <3>1, <3>3, <4>1, <4>2, <4>3, <2>2, <1>6
    <3> QED
      BY <3>2, <3>3
  <2> QED
    BY <2>3 DEF Based
<1>18. ASSUME Truthful(l) PROVE Witnessed(a)
  <2>1. Witnessed(g.goals)
    BY <1>18, WholeGraph
  <2>2. ASSUME NEW x \in Ids, Proved(a, x) PROVE a[x].evidence = a[x].statement
    <3>1. x # i
      BY <2>2, <1>6, <1>8, <1>9 DEF Proved
    <3>2. a[x] = q[x] /\ e[x] # None /\ e[x] = g.goals[x]
      BY <2>2, <3>1, <1>3, <1>6, <1>8 DEF Proved
    <3>3. x \notin R
      BY <2>2, <3>2, <1>6 DEF Proved
    <3> QED
      BY <2>1, <2>2, <3>2, <3>3, <1>6 DEF Proved, Witnessed
  <2> QED
    BY <2>2 DEF Witnessed
<1> QED
  BY <1>3, <1>6, <1>8, <1>11, <1>12, <1>15, <1>16, <1>17, <1>18 DEF Fit, Whole, Kept

-----------------------------------------------------------------------------
(* The steps *)

LEMMA Types ==
  ASSUME TypeOK
  PROVE  /\ graph \in Graph /\ graph.goals \in Goals /\ current \in Texts
         /\ stored.graph \in Graph /\ stored.current \in Texts /\ stored.claimed \in BOOLEAN
         /\ run \in {"none", "running", "over"} /\ changes \in 0 .. MaxChanges
         /\ lapses \subseteq {"aliased", "refused", "renamed", "forgot"}
BY DEF TypeOK, Graph, Goals

LEMMA Starts == Init => Inv
<1> SUFFICES ASSUME Init PROVE Inv
  OBVIOUS
<1>1. Empty \in Graph /\ Empty.goals \in Goals /\ \A x \in Ids : Empty.goals[x] = None
  BY DEF Empty, Graph, Goals
<1>2. TypeOK
  BY <1>1, TextAssumption, BoundAssumption DEF Init, TypeOK
<1>3. \A x \in Ids : Deps(Empty.goals, x) = {}
  BY <1>1 DEF Deps
<1>4. Acyclic(Empty.goals)
  BY <1>3 DEF Acyclic
<1>5. Based(Empty.goals)
  BY <1>1 DEF Based
<1> QED
  BY <1>2, <1>4, <1>5 DEF Init, Inv, Kept

\* Entering a run leaves it with a graph that fits its goal, or ends it.
LEMMA Enters ==
  ASSUME Inv, NEW g, NEW text \in Texts, g = Empty \/ Fit(g, text, lapses), Enter(g, text)
  PROVE  /\ graph' \in Graph /\ current' \in Texts /\ run' \in {"none", "running", "over"}
         /\ lapses' \subseteq {"aliased", "refused", "renamed", "forgot"}
         /\ lapses \subseteq lapses'
         /\ Kept(graph', lapses')
         /\ run' = "running" => Fit(graph', current', lapses')
<1> DEFINE rooted == Rooted(g)
           i == GoalIdFor[text]
<1>1. g = Empty \/ Whole(g, lapses)
  BY DEF Fit
<1>2. /\ Whole(rooted, lapses)
      /\ g = Empty => rooted.goals[rooted.active].statement = Problem
      /\ g # Empty => rooted = g
  BY <1>1, RootedKeeps
<1>3. TypeOK /\ Kept(graph, lapses) /\ lapses \subseteq {"aliased", "refused", "renamed", "forgot"}
  BY Types DEF Inv
<1>4. CASE text = Problem
  <2>1. run' = "running" /\ current' = text /\ graph' = rooted /\ lapses' = lapses
    BY <1>4 DEF Enter
  <2>2. Fit(rooted, text, lapses)
    BY <1>2, <1>4 DEF Fit
  <2> QED
    BY <1>2, <1>3, <2>1, <2>2 DEF Whole, Sound
<1>5. CASE text # Problem /\ Acyclic(Upserted(rooted.goals, i, text, {}))
  <2>1. /\ run' = "running" /\ current' = text /\ graph' = WithCurrent(rooted, text)
        /\ lapses' = lapses \union Lapse(rooted.goals, i, text, {})
                       \union (IF i = rooted.root THEN {"aliased"} ELSE {})
    BY <1>5 DEF Enter
  <2>2. Fit(WithCurrent(rooted, text), text, lapses')
    BY <1>2, <1>5, <2>1, CurrentFits
  <2>3. lapses' \subseteq {"aliased", "refused", "renamed", "forgot"}
    BY <1>3, <2>1 DEF Lapse
  <2> QED
    BY <2>1, <2>2, <2>3 DEF Fit, Whole, Sound
<1>6. CASE text # Problem /\ ~Acyclic(Upserted(rooted.goals, i, text, {}))
  BY <1>3, <1>6, Types DEF Enter
<1> QED
  BY <1>4, <1>5, <1>6

\* A turn that stores what it leaves.
LEMMA TurnCheckpointed ==
  ASSUME Inv, NEW g, NEW text \in Texts, NEW l \in SUBSET {"aliased", "refused", "renamed", "forgot"},
         Fit(g, text, l), graph' = g, current' = text, lapses' = l, run' = run,
         changes' \in 0 .. MaxChanges, Checkpoint
  PROVE  Inv'
<1>1. g \in Graph
  BY DEF Fit, Whole, Sound
<1>2. stored' = [graph |-> g, current |-> text, claimed |-> FALSE]
  BY DEF Checkpoint
<1>3. TypeOK'
  BY <1>1, <1>2 DEF Inv, TypeOK
<1>4. stored'.graph = g /\ stored'.current = text
  BY <1>2
<1> QED
  BY <1>3, <1>4 DEF Inv, Fit, Whole

\* An attempt on the active goal.
LEMMA AttemptFits ==
  ASSUME NEW g, NEW text \in Texts, NEW l, Fit(g, text, l), NEW new \in Goal,
         new.statement = g.goals[g.active].statement,
         new.depends_on = g.goals[g.active].depends_on,
         \/ new.status = "in_progress" /\ new.basis = g.goals[g.active].basis
              /\ new.void = g.goals[g.active].void
         \/ new.evidence = text /\ new.basis = Ancestry(g.goals, g.active) /\ ~new.void,
         NEW h, h = [g EXCEPT !.goals = [g.goals EXCEPT ![g.active] = new]]
  PROVE  Fit(h, text, l)
<1>1. PICK a : a = g.active
  OBVIOUS
<1>2. PICK goals : goals = g.goals
  OBVIOUS
<1>3. PICK w : w = [goals EXCEPT ![a] = new]
  OBVIOUS
<1>4. Whole(g, l) /\ (Truthful(l) => goals[a].statement = text)
  BY <1>1, <1>2 DEF Fit
<1>5. /\ g \in Graph /\ goals \in Goals /\ a \in Ids /\ g.root \in Ids
      /\ g.root # None /\ a # None /\ goals[g.root] # None /\ goals[a] # None
  BY <1>1, <1>2, <1>4, WholeGraph DEF Whole, Sound
<1>6. /\ w \in Goals /\ w[a] = new /\ new # None
      /\ \A x \in Ids \ {a} : w[x] = goals[x]
  BY <1>3, <1>5, NoneAssumption DEF Goals
<1>7. h \in Graph /\ h.goals = w /\ h.active = a /\ h.root = g.root
  BY <1>1, <1>2, <1>3, <1>5, <1>6 DEF Graph, Goals
<1>8. \A x \in Ids : Deps(w, x) = Deps(goals, x)
  BY <1>1, <1>2, <1>5, <1>6 DEF Deps
<1>9. Sound(h)
  BY <1>5, <1>6, <1>7 DEF Sound
<1>10. ASSUME "aliased" \notin l PROVE Acyclic(w)
  <2>1. Acyclic(goals)
    BY <1>2, <1>4, <1>10, WholeGraph
  <2> QED
    BY <2>1, <1>8, FewerLinks
<1>11. ASSUME "forgot" \notin l PROVE Based(w)
  <2>1. Based(goals)
    BY <1>2, <1>4, <1>11, WholeGraph
  <2>2. \A x \in Ids : Ancestry(goals, x) \subseteq Ancestry(w, x)
    BY <1>8, AncestryGrows
  <2>3. ~new.void /\ new.basis \subseteq Ancestry(w, a)
    BY <1>1, <1>2, <1>5, <2>1, <2>2 DEF Based
  <2> QED
    BY <1>6, <2>1, <2>2, <2>3 DEF Based
<1>12. ASSUME Truthful(l) PROVE Witnessed(w) /\ w[a].statement = text
  <2>1. Witnessed(goals)
    BY <1>2, <1>4, <1>12, WholeGraph
  <2>2. new.statement = text
    BY <1>1, <1>2, <1>4, <1>12
  <2>3. new.status = "proved" => new.evidence = new.statement
    BY <2>2
  <2> QED
    BY <1>6, <2>1, <2>2, <2>3 DEF Witnessed, Proved
<1> QED
  BY <1>7, <1>9, <1>10, <1>11, <1>12 DEF Fit, Whole, Kept

LEMMA StartStep ==
  ASSUME Inv, NEW text \in Texts, Start(text)
  PROVE  Inv'
<1>1. /\ Enter(Empty, text) /\ stored' = stored /\ changes' = changes
      /\ stored.graph = Empty
  BY DEF Start
<1>2. /\ graph' \in Graph /\ current' \in Texts /\ run' \in {"none", "running", "over"}
      /\ lapses' \subseteq {"aliased", "refused", "renamed", "forgot"}
      /\ Kept(graph', lapses')
      /\ run' = "running" => Fit(graph', current', lapses')
  BY <1>1, Enters
<1> QED
  BY <1>1, <1>2 DEF Inv, TypeOK

\* The stored graph keeps fitting when lapses are added to the history.
LEMMA FitGrows ==
  ASSUME NEW g, NEW text, NEW l, NEW m, l \subseteq m, Fit(g, text, l)
  PROVE  Fit(g, text, m)
<1>1. Truthful(m) => Truthful(l)
  BY DEF Truthful
<1> QED
  BY <1>1 DEF Fit, Whole, Kept

LEMMA ResumeStep ==
  ASSUME Inv, Resume
  PROVE  Inv'
<1>1. /\ Enter(stored.graph, stored.current) /\ stored' = stored /\ changes' = changes
      /\ stored.graph # Empty /\ stored.current \in Texts
  BY Types DEF Resume, Inv
<1>2. Fit(stored.graph, stored.current, lapses)
  BY <1>1 DEF Inv
<1>3. /\ graph' \in Graph /\ current' \in Texts /\ run' \in {"none", "running", "over"}
      /\ lapses' \subseteq {"aliased", "refused", "renamed", "forgot"}
      /\ lapses \subseteq lapses' /\ Kept(graph', lapses')
      /\ run' = "running" => Fit(graph', current', lapses')
  BY <1>1, <1>2, Enters
<1>4. Fit(stored'.graph, stored'.current, lapses')
  BY <1>1, <1>2, <1>3, FitGrows
<1> QED
  BY <1>1, <1>3, <1>4 DEF Inv, TypeOK

LEMMA GoalActionStep ==
  ASSUME Inv, NEW i \in Ids, NEW text \in Texts, GoalAction(i, text)
  PROVE  Inv'
<1>1. /\ stored' = [stored EXCEPT !.claimed = TRUE] /\ changes' \in 0 .. MaxChanges
      /\ stored.graph.goals[i] # None /\ run = "over"
  BY Types, BoundAssumption DEF GoalAction, Change, Inv
<1>2. /\ stored' \in [graph : Graph, current : Texts, claimed : BOOLEAN]
      /\ stored'.graph = stored.graph /\ stored'.current = stored.current
  BY <1>1 DEF Inv, TypeOK
<1>3. stored.graph # Empty
  BY <1>1 DEF Empty
<1>4. Fit(stored.graph, stored.current, lapses)
  BY <1>3 DEF Inv
<1>5. CASE UNCHANGED <<graph, current, run, lapses>>
  BY <1>1, <1>2, <1>4, <1>5 DEF Inv, TypeOK
<1>6. CASE Enter(ActedOn(stored.graph, i, text), text)
  <2>1. Fit(ActedOn(stored.graph, i, text), text, lapses)
    BY <1>1, <1>4, ActedOnFits DEF Fit
  <2>2. /\ graph' \in Graph /\ current' \in Texts /\ run' \in {"none", "running", "over"}
        /\ lapses' \subseteq {"aliased", "refused", "renamed", "forgot"}
        /\ lapses \subseteq lapses' /\ Kept(graph', lapses')
        /\ run' = "running" => Fit(graph', current', lapses')
    BY <1>6, <2>1, Enters
  <2>3. Fit(stored'.graph, stored'.current, lapses')
    BY <1>2, <1>4, <2>2, FitGrows
  <2> QED
    BY <1>1, <1>2, <2>2, <2>3 DEF Inv, TypeOK
<1> QED
  BY <1>5, <1>6 DEF GoalAction

LEMMA SetGoalStep ==
  ASSUME Inv, NEW text \in Texts, NEW i \in Ids, NEW deps \in SUBSET Ids, SetGoal(text, i, deps)
  PROVE  Inv'
<1> DEFINE u == Upserted(graph.goals, i, text, deps)
<1>1. /\ run = "running" /\ changes' \in 0 .. MaxChanges /\ current' = text /\ run' = run
      /\ Checkpoint
  BY Types, BoundAssumption DEF SetGoal, Change, Inv
<1>2. Fit(graph, current, lapses) /\ Whole(graph, lapses)
  BY <1>1 DEF Inv, Fit
<1>3. /\ graph \in Graph /\ graph.goals \in Goals /\ graph.root \in Ids /\ graph.root # None
      /\ graph.goals[graph.root] # None
      /\ lapses \subseteq {"aliased", "refused", "renamed", "forgot"}
  BY <1>2, WholeGraph, Types DEF Whole, Sound, Inv
<1>4. i # None
  BY IdAssumption DEF Ids
<1>5. CASE i \notin deps /\ Acyclic(u)
  <2>1. PICK h : h = Activated(u, i)
    OBVIOUS
  <2>2. PICK g : g = [graph EXCEPT !.goals = h, !.active = i]
    OBVIOUS
  <2>3. PICK l : l = lapses \union Lapse(graph.goals, i, text, deps)
    OBVIOUS
  <2>4. graph' = g /\ lapses' = l
    BY <1>5, <2>1, <2>2, <2>3 DEF SetGoal
  <2>5. l \in SUBSET {"aliased", "refused", "renamed", "forgot"}
    BY <1>3, <2>3 DEF Lapse
  <2>6. /\ h \in Goals /\ h[i] # None /\ h[i].statement = text /\ h[i].depends_on = deps
        /\ \A x \in Ids \ {i} : h[x] = graph.goals[x]
        /\ \A x \in Ids : Deps(h, x) = Deps(u, x)
        /\ (Based(graph.goals) /\ "forgot" \notin Lapse(graph.goals, i, text, deps)) => Based(h)
        /\ (Witnessed(graph.goals) /\ "renamed" \notin Lapse(graph.goals, i, text, deps)) => Witnessed(h)
    BY <1>3, <2>1, OverwriteKeeps
  <2>7. g \in Graph /\ g.goals = h /\ g.active = i /\ g.root = graph.root
    BY <1>3, <2>2, <2>6 DEF Graph, Goals
  <2>8. Acyclic(h)
    BY <1>5, <2>6, FewerLinks
  <2>9. "forgot" \notin l => Based(h)
    BY <1>2, <2>3, <2>6, WholeGraph
  <2>10. Truthful(l) => Witnessed(h)
    <3>1. Truthful(l) => Truthful(lapses) /\ "renamed" \notin Lapse(graph.goals, i, text, deps)
      BY <2>3 DEF Truthful
    <3> QED
      BY <1>2, <2>6, <3>1, WholeGraph
  <2>11. Sound(g)
    BY <1>3, <1>4, <2>6, <2>7 DEF Sound
  <2>12. Fit(g, text, l)
    BY <2>6, <2>7, <2>8, <2>9, <2>10, <2>11 DEF Fit, Whole, Kept
  <2> QED
    BY <1>1, <2>4, <2>5, <2>12, TurnCheckpointed
<1>6. CASE ~(i \notin deps /\ Acyclic(u))
  <2>1. graph' = graph /\ lapses' = lapses \union {"refused"}
    BY <1>6 DEF SetGoal
  <2>2. PICK l : l = lapses \union {"refused"}
    OBVIOUS
  <2>3. ~Truthful(l) /\ l \in SUBSET {"aliased", "refused", "renamed", "forgot"}
    BY <1>3, <2>2 DEF Truthful
  <2>4. Fit(graph, text, l)
    BY <1>2, <2>2, <2>3 DEF Fit, Whole, Kept
  <2> QED
    BY <1>1, <2>1, <2>2, <2>3, <2>4, TurnCheckpointed
<1> QED
  BY <1>5, <1>6

LEMMA AttemptStep ==
  ASSUME Inv, FormalAttemptFails \/ FormalAttemptSucceeds
  PROVE  Inv'
<1>1. PICK old : old = graph.goals[graph.active]
  OBVIOUS
<1>2. /\ run = "running" /\ changes' \in 0 .. MaxChanges /\ current' = current /\ run' = run
      /\ lapses' = lapses /\ Checkpoint
  BY Types, BoundAssumption DEF FormalAttemptFails, FormalAttemptSucceeds, Change, Inv
<1>3. Fit(graph, current, lapses) /\ Whole(graph, lapses)
  BY <1>2 DEF Inv, Fit
<1>4. /\ graph \in Graph /\ graph.goals \in Goals /\ graph.active \in Ids
      /\ old \in Goal /\ current \in Texts
      /\ lapses \in SUBSET {"aliased", "refused", "renamed", "forgot"}
  BY <1>1, <1>3, WholeGraph, Types DEF Goals, Inv
<1>5. PICK new \in Goal :
        /\ new.statement = old.statement /\ new.depends_on = old.depends_on
        /\ \/ new.status = "in_progress" /\ new.basis = old.basis /\ new.void = old.void
           \/ /\ new.evidence = current /\ new.basis = Ancestry(graph.goals, graph.active)
              /\ ~new.void
        /\ graph' = [graph EXCEPT !.goals = [graph.goals EXCEPT ![graph.active] = new]]
  <2>1. CASE FormalAttemptFails
    <3>1. PICK new : new = [old EXCEPT !.status = "in_progress"]
      OBVIOUS
    <3>2. new \in Goal /\ new.status = "in_progress" /\ new.basis = old.basis
          /\ new.void = old.void /\ new.statement = old.statement
          /\ new.depends_on = old.depends_on
      BY <3>1, <1>4 DEF Goal, Status
    <3>3. graph' = [graph EXCEPT !.goals = [graph.goals EXCEPT ![graph.active] = new]]
      BY <2>1, <3>1, <1>1, <1>4 DEF FormalAttemptFails, Graph, Goals
    <3> QED
      BY <3>2, <3>3
  <2>2. CASE FormalAttemptSucceeds
    <3>1. PICK b \in SUBSET Ids : b = Ancestry(graph.goals, graph.active)
      BY DEF Ancestry
    <3>2. PICK new : new = [old EXCEPT !.status = "proved", !.evidence = current,
                                       !.basis = b, !.void = FALSE]
      OBVIOUS
    <3>3. new \in Goal /\ new.evidence = current /\ new.basis = b
          /\ ~new.void /\ new.statement = old.statement
          /\ new.depends_on = old.depends_on
      BY <3>2, <1>4 DEF Goal, Status
    <3>4. graph' = [graph EXCEPT !.goals = [graph.goals EXCEPT ![graph.active] = new]]
      BY <2>2, <3>1, <3>2, <1>1, <1>4 DEF FormalAttemptSucceeds, Claim, Graph, Goals
    <3> QED
      BY <3>1, <3>3, <3>4
  <2> QED
    BY <2>1, <2>2
<1>6. Fit(graph', current, lapses)
  BY <1>1, <1>3, <1>4, <1>5, AttemptFits
<1> QED
  BY <1>2, <1>4, <1>6, TurnCheckpointed

LEMMA EndStep ==
  ASSUME Inv, Conclude \/ Stop
  PROVE  Inv'
<1>1. CASE Conclude
  <2>1. PICK old : old = graph.goals[graph.root]
    OBVIOUS
  <2>2. /\ run = "running" /\ run' = "over" /\ current' = current /\ changes' = changes
        /\ lapses' = lapses
        /\ stored' = [graph |-> graph, current |-> current, claimed |-> FALSE]
    BY <1>1 DEF Conclude
  <2>3. Fit(graph, current, lapses) /\ Whole(graph, lapses)
    BY <2>2 DEF Inv, Fit
  <2>4. /\ graph \in Graph /\ graph.goals \in Goals /\ graph.root \in Ids
        /\ old \in Goal
        /\ "aliased" \notin lapses => Acyclic(graph.goals)
        /\ "forgot" \notin lapses => Based(graph.goals)
    BY <2>1, <2>3, WholeGraph DEF Goals
  <2>5. PICK new : new = [old EXCEPT !.status = "proved"]
    OBVIOUS
  <2>6. /\ new \in Goal /\ new.basis = old.basis /\ new.void = old.void
        /\ new.depends_on = old.depends_on
    BY <2>4, <2>5 DEF Goal, Status
  <2>7. PICK h : h = [graph.goals EXCEPT ![graph.root] = new]
    OBVIOUS
  <2>8. graph' = [graph EXCEPT !.goals = h]
    BY <1>1, <2>1, <2>4, <2>5, <2>7 DEF Conclude, Graph, Goals
  <2>9. /\ h \in Goals /\ h[graph.root] = new
        /\ \A x \in Ids \ {graph.root} : h[x] = graph.goals[x]
    BY <2>4, <2>6, <2>7 DEF Goals
  <2>10. graph' \in Graph /\ graph'.goals = h
    BY <2>4, <2>8, <2>9 DEF Graph, Goals
  <2>11. old # None /\ new # None
    BY <2>4, <2>6, NoneAssumption
  <2>12. \A x \in Ids : Deps(h, x) = Deps(graph.goals, x)
    BY <2>1, <2>4, <2>6, <2>9, <2>11 DEF Deps
  <2>13. "aliased" \notin lapses => Acyclic(h)
    BY <2>4, <2>12, FewerLinks
  <2>14. \A x \in Ids : Ancestry(graph.goals, x) \subseteq Ancestry(h, x)
    BY <2>12, AncestryGrows
  <2>15. "forgot" \notin lapses => Based(h)
    BY <2>1, <2>4, <2>6, <2>9, <2>11, <2>14 DEF Based
  <2>16. TypeOK'
    BY <2>2, <2>4, <2>10 DEF Inv, TypeOK
  <2>17. stored'.graph = graph /\ stored'.current = current
    BY <2>2
  <2> QED
    BY <2>2, <2>3, <2>10, <2>13, <2>15, <2>16, <2>17 DEF Inv, Kept
<1>2. CASE Stop
  BY <1>2 DEF Stop, Inv, TypeOK
<1> QED
  BY <1>1, <1>2

LEMMA Continues == Inv /\ [Next]_vars => Inv'
<1> SUFFICES ASSUME Inv, [Next]_vars PROVE Inv'
  OBVIOUS
<1>1. CASE UNCHANGED vars
  BY <1>1 DEF vars, Inv, TypeOK
<1>2. CASE Next
  BY <1>2, StartStep, ResumeStep, GoalActionStep, SetGoalStep, AttemptStep, EndStep DEF Next
<1> QED
  BY <1>1, <1>2

-----------------------------------------------------------------------------
(* The theorems *)

LEMMA Invariant == Spec => []Inv
BY Starts, Continues, PTL DEF Spec

\* The graphs, the current goals and the counters keep their types.
THEOREM TypesHold == Spec => []TypeOK
<1>1. Inv => TypeOK
  BY DEF Inv
<1> QED
  BY <1>1, Invariant, PTL

\* A stored goal is proved by evidence about its own statement, through resets, edits, resumes
\* and attempts in any order, until a set_goal is refused or rewrites a proved goal.
THEOREM EvidenceFits == Spec => []EvidenceIsOfTheGoal
<1>1. Inv => EvidenceIsOfTheGoal
  <2> SUFFICES ASSUME Inv, Truthful(lapses), NEW i \in Ids, Proved(stored.graph.goals, i)
               PROVE  stored.graph.goals[i].evidence = stored.graph.goals[i].statement
    BY DEF EvidenceIsOfTheGoal, Truthful
  <2>1. stored.graph # Empty
    BY DEF Empty, Proved
  <2>2. Witnessed(stored.graph.goals)
    BY <2>1 DEF Inv, Fit, Whole
  <2> QED
    BY <2>2 DEF Witnessed
<1> QED
  BY <1>1, Invariant, PTL

\* No goal stays proved when a goal that its proof rested on is reset, until an upsert drops
\* a dependency: the cascade of reset_goal reaches all of them.
THEOREM ResetsReach == Spec => []InvalidationReaches
<1>1. Inv => InvalidationReaches
  BY DEF Inv, Kept, Based, InvalidationReaches, Proved
<1> QED
  BY <1>1, Invariant, PTL

\* The graph a run works on has no cycle, although solve() adds dependencies to the root
\* after upsert_goal has checked for one.
THEOREM StaysAcyclic == Spec => []GoalsAreAcyclic
<1>1. Inv => GoalsAreAcyclic
  BY DEF Inv, Kept, GoalsAreAcyclic
<1> QED
  BY <1>1, Invariant, PTL
-----------------------------------------------------------------------------
(* The selection *)

\* Induction over the naturals, by way of the finite intervals from 0.
LEMMA LeastExists ==
  ASSUME NEW T, T \subseteq Nat, T # {}
  PROVE  \E m \in T : \A n \in T : m <= n
<1> DEFINE F == {0 .. n : n \in T}
           R == StrictSubsetOrdering(Nat)
<1>1. F \subseteq FiniteSubsetsOf(Nat)
  <2>1. \A n \in T : 0 .. n \subseteq Nat /\ IsFiniteSet(0 .. n)
    BY FS_Interval
  <2> QED
    BY <2>1 DEF FiniteSubsetsOf
<1>2. PICK x \in F : \A y \in F : ~ (<<y, x>> \in R)
  <2>1. IsWellFoundedOn(R, FiniteSubsetsOf(Nat))
    BY FS_StrictSubsetOrderingWellFounded
  <2>2. F # {}
    OBVIOUS
  <2> HIDE DEF F, R
  <2> QED
    BY <1>1, <2>1, <2>2, WFMin
<1>3. PICK m \in T : x = 0 .. m
  OBVIOUS
<1>4. ASSUME NEW n \in T, n < m
      PROVE  FALSE
  <2>1. 0 .. n \subseteq 0 .. m /\ m \in 0 .. m /\ m \notin 0 .. n
    BY <1>4
  <2>2. <<0 .. n, x>> \in R
    BY <1>3, <2>1 DEF StrictSubsetOrdering
  <2> QED
    BY <1>2, <2>2
<1>5. \A n \in T : m <= n
  BY <1>4
<1> HIDE DEF F, R
<1> QED
  BY <1>5

\* Fewest issues, then the order of the routes: a least one exists.
LEMMA BestExists ==
  ASSUME NEW W, W # {}, W \subseteq Solved
  PROVE  \E r \in W : \A s \in W : Beats(r, s)
<1>1. W \subseteq Nat /\ \A r \in W : routes[r].issues \in 0 .. 1
  BY DEF Solved, Results, Routes
<1> DEFINE T(n) == {r \in W : routes[r].issues = n}
<1>2. ASSUME NEW n \in 0 .. 1, T(n) # {}, \A s \in W : n <= routes[s].issues
      PROVE  \E r \in W : \A s \in W : Beats(r, s)
  <2>1. PICK m \in T(n) : \A k \in T(n) : m <= k
    <3>1. T(n) \subseteq Nat
      BY <1>1
    <3> HIDE DEF T
    <3> QED
      BY <1>2, <3>1, LeastExists
  <2>2. ASSUME NEW s \in W
        PROVE  Beats(m, s)
    BY <1>1, <1>2, <2>1 DEF Beats
  <2> QED
    BY <2>1, <2>2
<1>3. CASE T(0) # {}
  BY <1>1, <1>2, <1>3
<1>4. CASE T(0) = {}
  <2>1. \A s \in W : routes[s].issues = 1
    BY <1>1, <1>4
  <2>2. T(1) # {}
    BY <2>1
  <2> QED
    BY <1>2, <2>1, <2>2
<1> QED
  BY <1>3, <1>4

\* With a verified route the selected result is a verified one.
LEMMA SelectsVerified ==
  ASSUME NEW r \in Solved, routes[r].outcome.status = "verified"
  PROVE  Select.status = "verified"
<1> DEFINE sure == {q \in Solved : routes[q].outcome.status = "verified"}
           best == CHOOSE w \in Winners : \A s \in Winners : Beats(w, s)
<1>1. Winners = sure /\ Winners # {} /\ Winners \subseteq Solved
  BY DEF Winners
<1>2. best \in Winners
  BY <1>1, BestExists
<1>3. Select = routes[best].outcome
  BY DEF Select
<1> QED
  BY <1>1, <1>2, <1>3
-----------------------------------------------------------------------------
(* What was verified is kept *)

Verified(r) == routes[r] \in Results /\ routes[r].outcome.status = "verified"

FoundStays ==
  /\ found \in BOOLEAN /\ DOMAIN routes = Routes
  /\ step = "solving" => ~found
  /\ step = "searching" /\ found => \E r \in Routes : Verified(r)
  /\ step \in {"deciding", "learning", "returned"} /\ found => outcome.status = "verified"

LEMMA RequestKeeps ==
  ASSUME FoundStays, Request
  PROVE  FoundStays'
<1>1. /\ found' = FALSE /\ routes' = [r \in Routes |-> Raised]
  BY DEF Request, Begin, RefuseMode
<1> QED
  BY <1>1 DEF FoundStays

LEMMA RoundKeeps ==
  ASSUME FoundStays, RoundReturns \/ RoundAsks \/ RoundFails
  PROVE  FoundStays'
<1>1. CASE RoundReturns
  BY <1>1 DEF FoundStays, RoundReturns
<1>2. CASE RoundAsks
  BY <1>2 DEF FoundStays, RoundAsks
<1>3. CASE RoundFails
  BY <1>3 DEF FoundStays, RoundFails
<1> QED
  BY <1>1, <1>2, <1>3

\* Another round, or other routes, are begun only from an outcome that is not verified.
LEMMA DecisionKeeps ==
  ASSUME FoundStays, Escalate \/ Return
  PROVE  FoundStays'
<1>1. step = "deciding"
  BY DEF Escalate, Return
<1>2. CASE Finish
  BY <1>1, <1>2 DEF FoundStays, Finish
<1>3. ASSUME Escalates, StartRound \/ StartRoutes
      PROVE  FoundStays'
  <2>1. ~found
    BY <1>1, <1>3 DEF FoundStays, Escalates
  <2> QED
    BY <1>3, <2>1 DEF FoundStays, StartRound, StartRoutes
<1> QED
  BY <1>2, <1>3 DEF Escalate, Return, Judge

LEMMA RouteKeeps ==
  ASSUME FoundStays, NEW r \in Routes, RouteEnds(r)
  PROVE  FoundStays'
<1>1. PICK result \in Results \union {Raised, Asked} :
        /\ routes' = [routes EXCEPT ![r] = result]
        /\ found' = (found \/ result.outcome.status = "verified")
  BY DEF RouteEnds
<1>2. step = "searching" /\ routes[r] = Running /\ UNCHANGED <<step, outcome>>
  BY DEF RouteEnds
<1>3. ~Verified(r) /\ (result.outcome.status = "verified" => result \in Results)
  BY <1>1, <1>2 DEF Verified, Running, Raised, Asked, Unfinished, Outcome
<1>4. ASSUME found'
      PROVE  \E q \in Routes : Verified(q)'
  <2>1. CASE found
    <3>1. PICK q \in Routes : Verified(q)
      BY <1>2, <2>1 DEF FoundStays
    <3>2. q # r /\ routes'[q] = routes[q]
      BY <1>1, <1>3, <3>1 DEF FoundStays
    <3> QED
      BY <3>1, <3>2 DEF Verified
  <2>2. CASE result.outcome.status = "verified"
    BY <1>1, <1>3, <2>2 DEF FoundStays, Verified
  <2> QED
    BY <1>1, <1>4, <2>1, <2>2
<1> QED
  BY <1>1, <1>2, <1>4 DEF FoundStays

LEMMA SelectionKeeps ==
  ASSUME FoundStays, RoutesReturn
  PROVE  FoundStays'
<1>1. /\ step = "searching" /\ step' = "deciding" /\ outcome' = Select /\ found' = found
      /\ routes' = [r \in Routes |-> Raised]
  BY DEF RoutesReturn
<1>2. ASSUME found
      PROVE  Select.status = "verified"
  <2>1. PICK r \in Routes : Verified(r)
    BY <1>1, <1>2 DEF FoundStays
  <2> QED
    BY <2>1, SelectsVerified DEF Solved, Verified
<1> QED
  BY <1>1, <1>2 DEF FoundStays

LEMMA FoundStaysHolds == SupervisorSpec => []FoundStays
<1>1. SupervisorInit => FoundStays
  BY DEF SupervisorInit, FoundStays
<1>2. FoundStays /\ [SupervisorNext]_supervisorVars => FoundStays'
  <2> SUFFICES ASSUME FoundStays, [SupervisorNext]_supervisorVars
               PROVE  FoundStays'
    OBVIOUS
  <2>1. CASE TakePostSolve
    BY <2>1 DEF FoundStays, Verified, TakePostSolve, solving
  <2>2. CASE Learn
    BY <2>2 DEF FoundStays, Verified, Learn, AfterPart
  <2>3. CASE Checkpointed
    BY <2>3 DEF FoundStays, Verified, Checkpointed, solving
  <2>4. CASE Shutdown
    BY <2>4 DEF FoundStays, Shutdown
  <2>5. CASE UNCHANGED supervisorVars
    BY <2>5 DEF FoundStays, Verified, supervisorVars, solving
  <2> QED
    BY <2>1, <2>2, <2>3, <2>4, <2>5, RequestKeeps, RoundKeeps, DecisionKeeps, RouteKeeps, SelectionKeeps
       DEF SupervisorNext, Progress
<1> QED
  BY <1>1, <1>2, PTL DEF SupervisorSpec

\* What any round or any parallel route has verified is what the solve returns.
THEOREM VerifiedReturned == SupervisorSpec => []VerifiedIsKept
<1>1. FoundStays => VerifiedIsKept
  BY DEF FoundStays, VerifiedIsKept
<1> QED
  BY <1>1, FoundStaysHolds, PTL

-----------------------------------------------------------------------------
(* The post-solve work is done once *)

Owed ==
  /\ learned \in {0, 1} /\ slot \in BOOLEAN
  /\ slot => learned = 0
  /\ learned = 1 \/ slot => ~LightPath /\ step \in {"learning", "returned", "down"}

LEMMA DecisionOwes ==
  ASSUME Owed, Escalate \/ Return
  PROVE  Owed'
<1>1. step = "deciding" /\ learned = 0 /\ ~slot
  BY DEF Escalate, Return, Owed
<1>2. CASE Finish
  <2>1. CASE UNCHANGED learning
    BY <1>1, <1>2, <2>1 DEF Owed, learning
  <2>2. CASE ~LightPath /\ step' = "returned" /\ slot' = TRUE /\ UNCHANGED <<post, learned>>
    <3>1. slot' \in BOOLEAN /\ learned' = 0 /\ ~LightPath'
      BY <1>1, <1>2, <2>2 DEF Finish, LightPath
    <3> QED
      BY <2>2, <3>1 DEF Owed
  <2>3. CASE ~LightPath /\ step' = "learning" /\ learned' = learned + 1 /\ UNCHANGED slot
    <3>1. slot' \in BOOLEAN /\ ~slot' /\ learned' = 1 /\ ~LightPath'
      BY <1>1, <1>2, <2>3 DEF Owed, Finish, LightPath
    <3> QED
      BY <2>3, <3>1 DEF Owed
  <2> QED
    BY <1>2, <2>1, <2>2, <2>3 DEF Finish
<1>3. CASE StartRound \/ StartRoutes
  BY <1>1, <1>3 DEF Owed, StartRound, StartRoutes, LightPath, learning
<1> QED
  BY <1>2, <1>3 DEF Escalate, Return, Judge

LEMMA OwedHolds == SupervisorSpec => []Owed
<1>1. SupervisorInit => Owed
  <2> SUFFICES ASSUME SupervisorInit
               PROVE  Owed
    OBVIOUS
  <2>1. learned = 0 /\ slot \in BOOLEAN /\ ~slot
    BY DEF SupervisorInit
  <2> QED
    BY <2>1 DEF Owed
<1>2. Owed /\ [SupervisorNext]_supervisorVars => Owed'
  <2> SUFFICES ASSUME Owed, [SupervisorNext]_supervisorVars
               PROVE  Owed'
    OBVIOUS
  <2>1. CASE Request
    <3>1. learned' = 0 /\ slot' \in BOOLEAN /\ ~slot'
      BY <2>1 DEF Request, Begin, RefuseMode
    <3> QED
      BY <3>1 DEF Owed
  <2>2. CASE RoundReturns \/ RoundAsks \/ RoundFails
    BY <2>2 DEF Owed, LightPath, RoundReturns, RoundAsks, RoundFails, learning
  <2>3. CASE RoutesReturn \/ \E r \in Routes : RouteEnds(r)
    BY <2>3 DEF Owed, LightPath, RoutesReturn, RouteEnds, learning
  <2>4. CASE TakePostSolve
    <3>1. /\ slot' \in BOOLEAN /\ ~slot' /\ learned' = 1
          /\ ~LightPath' /\ step' = "returned"
      <4>1. slot' \in BOOLEAN /\ ~slot'
        BY <2>4 DEF TakePostSolve
      <4>2. learned' = 1
        BY <2>4 DEF Owed, TakePostSolve
      <4>3. ~LightPath' /\ step' = "returned"
        BY <2>4 DEF Owed, LightPath, TakePostSolve, solving
      <4> QED
        BY <4>1, <4>2, <4>3
    <3> QED
      BY <3>1 DEF Owed
  <2>5. CASE Learn
    BY <2>5 DEF Owed, LightPath, Learn
  <2>6. CASE Checkpointed
    BY <2>6 DEF Owed, LightPath, Checkpointed, solving, learning
  <2>7. CASE Shutdown
    BY <2>7 DEF Owed, LightPath, Shutdown
  <2>8. CASE UNCHANGED supervisorVars
    BY <2>8 DEF Owed, LightPath, supervisorVars, solving, learning
  <2> QED
    BY <2>1, <2>2, <2>3, <2>4, <2>5, <2>6, <2>7, <2>8, DecisionOwes DEF SupervisorNext, Progress
<1> QED
  BY <1>1, <1>2, PTL DEF SupervisorSpec

\* A solve is learned from at most once, only when it is over, and not on the clarify path,
\* whether it does the work itself or leaves it to a stream or to a detached finisher.
THEOREM LearnedAtMostOnce == SupervisorSpec => []LearnedOnce
<1>1. Owed => LearnedOnce
  BY DEF Owed, LearnedOnce
<1> QED
  BY <1>1, OwedHolds, PTL
-----------------------------------------------------------------------------
(* The memories of a file *)

\* The n-th record is the last version of memory i.
IsLast(f, i, n) ==
  n \in 1 .. Len(f) /\ f[n].id = i /\ \A m \in 1 .. Len(f) : f[m].id = i => m <= n

LEMMA LargestExists ==
  ASSUME NEW n \in Nat, NEW S \in SUBSET (1 .. n), S # {}
  PROVE  \E m \in S : \A k \in S : k <= m
<1> DEFINE T == {n - k : k \in S}
<1>1. T \in SUBSET Nat /\ T # {}
  <2>1. \A k \in S : n - k \in Nat
    OBVIOUS
  <2> QED
    BY <2>1
<1>2. PICK d \in T : \A e \in T : d <= e
  <2> HIDE DEF T
  <2> QED
    BY <1>1, LeastExists
<1>3. PICK m \in S : d = n - m
  OBVIOUS
<1>4. ASSUME NEW k \in S
      PROVE  k <= m
  <2>1. n - k \in T /\ k \in Int /\ m \in Int
    OBVIOUS
  <2>2. n - m <= n - k
    BY <1>2, <1>3, <2>1
  <2> QED
    BY <2>1, <2>2
<1> QED
  BY <1>4

LEMMA LastExists ==
  ASSUME NEW f \in Seq(MemoryRecord), NEW i, Versions(f, i) # {}
  PROVE  \E n \in 1 .. Len(f) : IsLast(f, i, n)
<1>1. Versions(f, i) \in SUBSET (1 .. Len(f)) /\ Len(f) \in Nat
  BY DEF Versions
<1>2. PICK n \in Versions(f, i) : \A k \in Versions(f, i) : k <= n
  BY <1>1, LargestExists
<1> QED
  BY <1>1, <1>2 DEF Versions, IsLast

LEMMA LastIsMax ==
  ASSUME NEW f \in Seq(MemoryRecord), NEW i, NEW n, IsLast(f, i, n)
  PROVE  Versions(f, i) # {} /\ Max(Versions(f, i)) = n
<1>1. n \in Versions(f, i) /\ n \in Nat
  BY DEF IsLast, Versions
<1>2. \A k \in Versions(f, i) : k \in Nat /\ k <= n
  BY DEF IsLast, Versions
<1> DEFINE V == Versions(f, i)
<1> HIDE DEF V
<1>3. n \in V /\ \A y \in V : n >= y
  BY <1>1, <1>2 DEF V
<1>4. \A x \in V : (\A y \in V : x >= y) => x = n
  BY <1>1, <1>2 DEF V
<1>5. Max(V) = n
  BY <1>3, <1>4 DEF Max
<1> QED
  BY <1>1, <1>5 DEF V

LEMMA FoldedLast ==
  ASSUME NEW f \in Seq(MemoryRecord), NEW i \in MemoryIds, NEW n, IsLast(f, i, n)
  PROVE  Folded(f)[i] = f[n] /\ f[n] \in MemoryRecord /\ i \in Known(Folded(f))
<1>1. Folded(f)[i] = f[n]
  BY LastIsMax DEF Folded
<1>2. f[n] \in MemoryRecord
  BY DEF IsLast
<1> QED
  BY <1>1, <1>2, NoMemoryAssumption DEF Known

LEMMA FoldedNever ==
  ASSUME NEW f \in Seq(MemoryRecord), NEW i \in MemoryIds, Versions(f, i) = {}
  PROVE  Folded(f)[i] = NoMemory /\ i \notin Known(Folded(f))
BY DEF Folded, Known

\* A memory that is known is in the file.
LEMMA KnownIsStored ==
  ASSUME NEW f \in Seq(MemoryRecord), NEW i \in Known(Folded(f))
  PROVE  i \in MemoryIds /\ \E n \in 1 .. Len(f) : IsLast(f, i, n) /\ Folded(f)[i] = f[n]
<1>1. i \in MemoryIds /\ Versions(f, i) # {}
  BY FoldedNever DEF Known
<1> QED
  BY <1>1, LastExists, FoldedLast

\* Appending replaces the versions of the memories that are written, and no others.
LEMMA LastOfAppended ==
  ASSUME NEW f \in Seq(MemoryRecord), NEW g \in Seq(MemoryRecord), NEW i, NEW n, IsLast(g, i, n)
  PROVE  IsLast(f \o g, i, Len(f) + n)
<1>1. Len(f \o g) = Len(f) + Len(g) /\ Len(f) \in Nat /\ Len(g) \in Nat /\ n \in 1 .. Len(g)
  BY DEF IsLast
<1>2. (f \o g)[Len(f) + n] = g[n]
  BY <1>1
<1>3. ASSUME NEW m \in 1 .. Len(f \o g), (f \o g)[m].id = i
      PROVE  m <= Len(f) + n
  <2>1. CASE m <= Len(f)
    BY <1>1, <2>1
  <2>2. CASE m > Len(f)
    <3>1. m - Len(f) \in 1 .. Len(g) /\ (f \o g)[m] = g[m - Len(f)]
      BY <1>1, <2>2
    <3>2. m - Len(f) <= n
      BY <1>3, <3>1 DEF IsLast
    <3> QED
      BY <1>1, <3>1, <3>2
  <2> QED
    BY <1>1, <2>1, <2>2
<1> QED
  BY <1>1, <1>2, <1>3 DEF IsLast

LEMMA LastOfKept ==
  ASSUME NEW f \in Seq(MemoryRecord), NEW g \in Seq(MemoryRecord), NEW i, NEW n, IsLast(f, i, n),
         Versions(g, i) = {}
  PROVE  IsLast(f \o g, i, n) /\ (f \o g)[n] = f[n]
<1>1. Len(f \o g) = Len(f) + Len(g) /\ Len(f) \in Nat /\ Len(g) \in Nat /\ n \in 1 .. Len(f)
  BY DEF IsLast
<1>2. (f \o g)[n] = f[n]
  BY <1>1
<1>3. ASSUME NEW m \in 1 .. Len(f \o g), (f \o g)[m].id = i
      PROVE  m <= n
  <2>1. CASE m <= Len(f)
    <3>1. m \in 1 .. Len(f) /\ (f \o g)[m] = f[m]
      BY <1>1, <2>1
    <3> QED
      BY <1>3, <3>1 DEF IsLast
  <2>2. CASE m > Len(f)
    <3>1. m - Len(f) \in 1 .. Len(g) /\ (f \o g)[m] = g[m - Len(f)]
      BY <1>1, <2>2
    <3>2. m - Len(f) \in Versions(g, i)
      BY <1>3, <3>1 DEF Versions
    <3> QED
      BY <3>2
  <2> QED
    BY <1>1, <2>1, <2>2
<1> QED
  BY <1>1, <1>2, <1>3 DEF IsLast

LEMMA FoldedAppended ==
  ASSUME NEW f \in Seq(MemoryRecord), NEW g \in Seq(MemoryRecord), NEW i \in MemoryIds
  PROVE  Folded(f \o g)[i] = IF Versions(g, i) = {} THEN Folded(f)[i] ELSE g[Max(Versions(g, i))]
<1> DEFINE h == f \o g
<1>1. h \in Seq(MemoryRecord) /\ Len(h) = Len(f) + Len(g) /\ Len(f) \in Nat /\ Len(g) \in Nat
  OBVIOUS
<1>2. CASE Versions(g, i) # {}
  <2>1. PICK n \in 1 .. Len(g) : IsLast(g, i, n)
    BY <1>2, LastExists
  <2>2. IsLast(h, i, Len(f) + n) /\ Max(Versions(g, i)) = n
    BY <2>1, LastOfAppended, LastIsMax
  <2>3. h[Len(f) + n] = g[n]
    BY <1>1, <2>1
  <2> HIDE DEF h
  <2>4. Folded(h)[i] = h[Len(f) + n]
    BY <1>1, <2>2, FoldedLast
  <2> QED
    BY <1>2, <2>2, <2>3, <2>4 DEF h
<1>3. CASE Versions(g, i) = {} /\ Versions(f, i) # {}
  <2>1. PICK n \in 1 .. Len(f) : IsLast(f, i, n)
    BY <1>3, LastExists
  <2>2. IsLast(h, i, n) /\ h[n] = f[n]
    BY <1>3, <2>1, LastOfKept
  <2>3. Folded(f)[i] = f[n]
    BY <2>1, FoldedLast
  <2> HIDE DEF h
  <2>4. Folded(h)[i] = h[n]
    BY <1>1, <2>2, FoldedLast
  <2> QED
    BY <1>3, <2>2, <2>3, <2>4 DEF h
<1>4. CASE Versions(g, i) = {} /\ Versions(f, i) = {}
  <2>1. Versions(h, i) = {}
    <3> SUFFICES ASSUME NEW n \in 1 .. Len(h), h[n].id = i
                 PROVE  FALSE
      BY <1>1 DEF Versions
    <3>1. CASE n <= Len(f)
      <4>1. n \in DOMAIN f /\ h[n] = f[n]
        BY <1>1, <3>1
      <4> QED
        BY <1>4, <4>1 DEF Versions
    <3>2. CASE n > Len(f)
      <4>1. n - Len(f) \in DOMAIN g /\ h[n] = g[n - Len(f)]
        BY <1>1, <3>2
      <4> QED
        BY <1>4, <4>1 DEF Versions
    <3> QED
      BY <1>1, <3>1, <3>2
  <2> HIDE DEF h
  <2>2. Folded(h)[i] = NoMemory /\ Folded(f)[i] = NoMemory
    BY <1>1, <1>4, <2>1, FoldedNever
  <2> QED
    BY <1>4, <2>2 DEF h
<1> QED
  BY <1>2, <1>3, <1>4

-----------------------------------------------------------------------------
(* What a consolidation writes *)

CurrentStore(st, f) == st.seen \in 0 .. Len(f) /\ (st.seen = Len(f) => st.held = Folded(f))
CurrentPlans(x, ps) ==
  DOMAIN x = {"seen", "held", "ranked"} /\ x.seen \in 0 .. Len(ps) /\ (x.seen = Len(ps) => x.held = ps)

MemoriesInv ==
  /\ file \in Seq(MemoryRecord) /\ plans \in Seq(Solves)
  /\ DOMAIN store = Solves /\ \A s \in Solves : CurrentStore(store[s], file)
  /\ DOMAIN index = Solves /\ \A s \in Solves : CurrentPlans(index[s], plans)

LEMMA EnsuredIsCurrent ==
  ASSUME file \in Seq(MemoryRecord), NEW st, CurrentStore(st, file)
  PROVE  Ensured(st).seen = Len(file) /\ Ensured(st).held = Folded(file)
BY DEF Ensured, Opened, CurrentStore

\* An index that is not whole stays so, whatever is appended.
LEMMA StoreOutgrown ==
  ASSUME NEW f \in Seq(MemoryRecord), NEW g \in Seq(MemoryRecord), NEW st, CurrentStore(st, f)
  PROVE  CurrentStore(st, f \o g)
<1>1. Len(f \o g) = Len(f) + Len(g) /\ Len(f) \in Nat /\ Len(g) \in Nat
  OBVIOUS
<1>2. CASE Len(g) = 0
  <2>1. f \o g = f
    BY <1>2
  <2> QED
    BY <2>1
<1>3. CASE Len(g) > 0
  BY <1>1, <1>3 DEF CurrentStore
<1> QED
  BY <1>1, <1>2, <1>3

LEMMA AppendedIsCurrent ==
  ASSUME file \in Seq(MemoryRecord), NEW g \in Seq(MemoryRecord), NEW st, CurrentStore(st, file)
  PROVE  CurrentStore(Appended(st, g), file \o g)
<1>1. Len(file \o g) = Len(file) + Len(g) /\ Len(file) \in Nat /\ Len(g) \in Nat
  OBVIOUS
<1>2. Appended(st, g).seen = Len(file) + Len(g)
  BY DEF Appended
<1>3. Appended(st, g).held =
        [i \in MemoryIds |-> IF Versions(g, i) = {} THEN Folded(file)[i] ELSE g[Max(Versions(g, i))]]
  BY EnsuredIsCurrent DEF Appended
<1>4. Folded(file \o g) = [i \in MemoryIds |-> Folded(file \o g)[i]]
  BY DEF Folded
<1>5. \A i \in MemoryIds : Folded(file \o g)[i] =
        IF Versions(g, i) = {} THEN Folded(file)[i] ELSE g[Max(Versions(g, i))]
  BY FoldedAppended
<1>6. Appended(st, g).held = Folded(file \o g)
  BY <1>3, <1>4, <1>5
<1> QED
  BY <1>1, <1>2, <1>6 DEF CurrentStore

LEMMA AdditionsAreFew ==
  ASSUME NEW adds \in Additions
  PROVE  /\ DOMAIN adds \in SUBSET (1 .. 2) /\ IsFiniteSet(DOMAIN adds)
         /\ \A n \in DOMAIN adds : adds[n] \in MemoryKinds \X Contents
<1>1. CASE adds = <<>>
  BY <1>1, FS_EmptySet
<1>2. ASSUME NEW x \in MemoryKinds \X Contents, adds = <<x>>
      PROVE  DOMAIN adds = 1 .. 1 /\ \A n \in DOMAIN adds : adds[n] \in MemoryKinds \X Contents
  BY <1>2
<1>3. ASSUME NEW x \in MemoryKinds \X Contents, NEW y \in MemoryKinds \X Contents, adds = <<x, y>>
      PROVE  DOMAIN adds = 1 .. 2 /\ \A n \in DOMAIN adds : adds[n] \in MemoryKinds \X Contents
  BY <1>3
<1>4. IsFiniteSet(1 .. 1) /\ IsFiniteSet(1 .. 2)
  <2>1. PICK k \in Int : k = 2
    OBVIOUS
  <2>2. IsFiniteSet(1 .. k)
    BY FS_Interval
  <2>3. 1 .. 1 \in SUBSET (1 .. k)
    BY <2>1
  <2>4. IsFiniteSet(1 .. 1)
    BY <2>2, <2>3, FS_Subset
  <2> QED
    BY <2>1, <2>2, <2>4
<1>5. CASE adds \in {<<x>> : x \in MemoryKinds \X Contents}
  <2>1. PICK x \in MemoryKinds \X Contents : adds = <<x>>
    BY <1>5
  <2> QED
    BY <1>2, <1>4, <2>1
<1>6. CASE adds \in (MemoryKinds \X Contents) \X (MemoryKinds \X Contents)
  <2>1. PICK x \in MemoryKinds \X Contents, y \in MemoryKinds \X Contents : adds = <<x, y>>
    BY <1>6
  <2> QED
    BY <1>3, <1>4, <2>1
<1> QED
  BY <1>1, <1>5, <1>6 DEF Additions

\* The new ones of an answer, in its order.
LEMMA NewOnesAreSorted ==
  ASSUME NEW s, NEW adds \in Additions
  PROVE  /\ NewOnes(s, adds) \in SUBSET Nat /\ NewOnes(s, adds) \in SUBSET DOMAIN adds
         /\ Cardinality(NewOnes(s, adds)) \in Nat
         /\ Sorts(InOrder(NewOnes(s, adds)), NewOnes(s, adds))
<1>1. NewOnes(s, adds) \in SUBSET DOMAIN adds
  BY DEF NewOnes
<1>2. IsFiniteSet(NewOnes(s, adds)) /\ NewOnes(s, adds) \in SUBSET Nat
  BY <1>1, AdditionsAreFew, FS_Subset
<1> QED
  BY <1>1, <1>2, InOrderSorts

\* Each is written under an identifier of its own, and none is like another one or like a
\* memory that is known when the answer is applied.
Fits(w, m, status) ==
  \E x \in MemoryKinds \X Contents : w[m] = Version(FreshId + m - 1, x[1], x[2], status)
Differ(v, w) == v.kind # w.kind \/ v.content # w.content

LEMMA WrittenIsNew ==
  ASSUME NEW s, NEW adds \in Additions, NEW status,
         file \in Seq(MemoryRecord), CurrentStore(store[s], file)
  PROVE  LET w == Written(s, adds, status) n == Cardinality(NewOnes(s, adds))
         IN /\ n \in Nat /\ DOMAIN w = 1 .. n
            /\ \A m \in 1 .. n : /\ Fits(w, m, status)
                                 /\ \A k \in 1 .. m - 1 : Differ(w[k], w[m])
                                 /\ \A i \in Known(Folded(file)) : Differ(Folded(file)[i], w[m])
<1> DEFINE N == NewOnes(s, adds)
           n == Cardinality(N)
           o == InOrder(N)
           w == Written(s, adds, status)
<1>1. n \in Nat /\ N \in SUBSET Nat /\ N \in SUBSET DOMAIN adds /\ Sorts(o, N)
  BY NewOnesAreSorted
<1>2. o \in [1 .. n -> N] /\ \A k, m \in 1 .. n : k < m => o[k] < o[m]
  BY <1>1 DEF Sorts
<1>3. /\ DOMAIN w = 1 .. n
      /\ \A m \in 1 .. n : w[m] = Version(FreshId + m - 1, adds[o[m]][1], adds[o[m]][2], status)
  BY <1>2 DEF Written
<1>4. \A m \in 1 .. n : o[m] \in DOMAIN adds /\ adds[o[m]] \in MemoryKinds \X Contents
  BY <1>1, <1>2, AdditionsAreFew
<1>5. \A m \in 1 .. n : w[m].kind = adds[o[m]][1] /\ w[m].content = adds[o[m]][2]
  BY <1>3 DEF Version
<1>6. \A p \in N : /\ ~Duplicate(adds[p][1], adds[p][2], Compared(s))
                   /\ \A m \in 1 .. p - 1 : adds[m] # adds[p]
  BY DEF NewOnes
<1>7. ASSUME NEW m \in 1 .. n
      PROVE  Fits(w, m, status)
  BY <1>3, <1>4 DEF Fits
<1>8. ASSUME NEW m \in 1 .. n, NEW k \in 1 .. m - 1
      PROVE  Differ(w[k], w[m])
  <2>1. k \in 1 .. n /\ o[k] \in Nat /\ o[m] \in Nat /\ o[m] \in N /\ o[k] < o[m]
    BY <1>1, <1>2
  <2>2. o[k] # 0
    BY <1>2, <2>1, <1>4, AdditionsAreFew
  <2>3. adds[o[k]] # adds[o[m]]
    BY <1>6, <2>1, <2>2
  <2> QED
    BY <1>4, <1>5, <2>1, <2>3 DEF Differ
<1>9. ASSUME NEW m \in 1 .. n, NEW i \in Known(Folded(file))
      PROVE  Differ(Folded(file)[i], w[m])
  <2> DEFINE held == Folded(file)
  <2>1. Compared(s) = Live(held) \union Rejected(held)
    BY EnsuredIsCurrent DEF Compared
  <2>2. held[i] \in Live(held) \union Rejected(held)
    <3>1. i \in Known(held)
      OBVIOUS
    <3> HIDE DEF held
    <3> QED
      BY <3>1 DEF Live, Rejected
  <2>3. o[m] \in N
    BY <1>2
  <2>4. ~Duplicate(adds[o[m]][1], adds[o[m]][2], Compared(s))
    BY <1>6, <2>3
  <2> HIDE DEF held
  <2>5. held[i].kind # adds[o[m]][1] \/ held[i].content # adds[o[m]][2]
    BY <2>1, <2>2, <2>4 DEF Duplicate
  <2> QED
    BY <1>5, <2>5 DEF Differ, held
<1> QED
  BY <1>1, <1>3, <1>7, <1>8, <1>9

\* A record that is appended, seen from those before it.
LEMMA PrefixOfAppended ==
  ASSUME NEW f \in Seq(MemoryRecord), NEW g \in Seq(MemoryRecord), NEW m \in 1 .. Len(g)
  PROVE  /\ SubSeq(g, 1, m - 1) \in Seq(MemoryRecord) /\ Len(SubSeq(g, 1, m - 1)) = m - 1
         /\ \A k \in 1 .. m - 1 : SubSeq(g, 1, m - 1)[k] = g[k]
         /\ SubSeq(f \o g, 1, Len(f) + m - 1) = f \o SubSeq(g, 1, m - 1)
         /\ (f \o g)[Len(f) + m] = g[m]
<1>1. Len(f) \in Nat /\ Len(g) \in Nat /\ Len(f \o g) = Len(f) + Len(g) /\ f \o g \in Seq(MemoryRecord)
  OBVIOUS
<1> DEFINE p == SubSeq(g, 1, m - 1)
           q == SubSeq(f \o g, 1, Len(f) + m - 1)
<1>2. p \in Seq(MemoryRecord) /\ Len(p) = m - 1 /\ \A k \in 1 .. m - 1 : p[k] = g[k]
  BY <1>1
<1>3. /\ q \in Seq(MemoryRecord) /\ Len(q) = Len(f) + m - 1
      /\ \A k \in 1 .. Len(f) + m - 1 : q[k] = (f \o g)[k]
  BY <1>1
<1>4. f \o p \in Seq(MemoryRecord) /\ Len(f \o p) = Len(f) + m - 1
  BY <1>1, <1>2
<1>5. ASSUME NEW k \in 1 .. Len(f) + m - 1
      PROVE  q[k] = (f \o p)[k]
  <2> HIDE DEF p, q
  <2>1. CASE k <= Len(f)
    BY <1>1, <1>2, <1>3, <2>1
  <2>2. CASE k > Len(f)
    <3>1. k - Len(f) \in 1 .. m - 1
      BY <1>1, <2>2
    <3>2. (f \o p)[k] = p[k - Len(f)] /\ (f \o g)[k] = g[k - Len(f)]
      BY <1>1, <1>2, <2>2, <3>1
    <3> QED
      BY <1>2, <1>3, <3>1, <3>2
  <2>3. k <= Len(f) \/ k > Len(f)
    BY <1>1
  <2> QED
    BY <2>1, <2>2, <2>3
<1>6. q = f \o p
  <2> HIDE DEF p, q
  <2>1. PICK r \in Seq(MemoryRecord) : r = f \o p
    BY <1>4
  <2>2. Len(q) = Len(r) /\ \A k \in 1 .. Len(q) : q[k] = r[k]
    BY <1>3, <1>4, <1>5, <2>1
  <2>3. q = r
    BY <1>3, <2>2, SeqEqual
  <2> QED
    BY <2>1, <2>3
<1>7. (f \o g)[Len(f) + m] = g[m]
  BY <1>1
<1> QED
  BY <1>2, <1>6, <1>7

LEMMA KnownStays ==
  ASSUME NEW f \in Seq(MemoryRecord), NEW g \in Seq(MemoryRecord), NEW i \in Known(Folded(f))
  PROVE  i \in Known(Folded(f \o g))
<1>1. PICK n \in 1 .. Len(f) : i \in MemoryIds /\ IsLast(f, i, n)
  BY KnownIsStored
<1>2. f \o g \in Seq(MemoryRecord)
  OBVIOUS
<1>3. CASE Versions(g, i) = {}
  <2>1. IsLast(f \o g, i, n)
    BY <1>1, <1>3, LastOfKept
  <2> QED
    BY <1>1, <1>2, <2>1, FoldedLast
<1>4. CASE Versions(g, i) # {}
  <2>1. PICK m \in 1 .. Len(g) : IsLast(g, i, m)
    BY <1>4, LastExists
  <2>2. IsLast(f \o g, i, Len(f) + m)
    BY <2>1, LastOfAppended
  <2> QED
    BY <1>1, <1>2, <2>2, FoldedLast
<1> QED
  BY <1>3, <1>4

LEMMA VersionOfKnown ==
  ASSUME NEW f \in Seq(MemoryRecord), NEW g \in Seq(MemoryRecord), NEW m \in 1 .. Len(g),
         g[m].id \in Known(Folded(f))
  PROVE  IsNewAt(f \o g, Len(f) + m)
<1>1. /\ SubSeq(f \o g, 1, Len(f) + m - 1) = f \o SubSeq(g, 1, m - 1)
      /\ SubSeq(g, 1, m - 1) \in Seq(MemoryRecord) /\ (f \o g)[Len(f) + m] = g[m]
  BY PrefixOfAppended
<1>2. g[m].id \in Known(Folded(f \o SubSeq(g, 1, m - 1)))
  BY <1>1, KnownStays
<1>3. PICK n, h : n = Len(f) + m /\ h = f \o g
  OBVIOUS
<1>4. SubSeq(h, 1, n - 1) = f \o SubSeq(g, 1, m - 1) /\ h[n] = g[m]
  BY <1>1, <1>3
<1>5. IsNewAt(h, n)
  BY <1>2, <1>4 DEF IsNewAt, Known
<1> QED
  BY <1>3, <1>5

LEMMA LikeNone ==
  ASSUME NEW f \in Seq(MemoryRecord), NEW g \in Seq(MemoryRecord), NEW m \in 1 .. Len(g),
         \A i \in Known(Folded(f)) : Differ(Folded(f)[i], g[m]),
         \A k \in 1 .. m - 1 : Differ(g[k], g[m])
  PROVE  IsNewAt(f \o g, Len(f) + m)
<1> DEFINE p == SubSeq(g, 1, m - 1)
<1>1. /\ SubSeq(f \o g, 1, Len(f) + m - 1) = f \o p
      /\ p \in Seq(MemoryRecord) /\ Len(p) = m - 1 /\ \A k \in 1 .. m - 1 : p[k] = g[k]
      /\ (f \o g)[Len(f) + m] = g[m]
  BY PrefixOfAppended
<1>2. ASSUME NEW i \in Known(Folded(f \o p))
      PROVE  Differ(Folded(f \o p)[i], g[m])
  <2> HIDE DEF p
  <2>1. i \in MemoryIds
    BY DEF Known
  <2>2. CASE Versions(p, i) = {}
    <3>1. Folded(f \o p)[i] = Folded(f)[i]
      BY <1>1, <2>1, <2>2, FoldedAppended
    <3>2. i \in Known(Folded(f))
      BY <3>1 DEF Known
    <3> QED
      BY <3>1, <3>2
  <2>3. CASE Versions(p, i) # {}
    <3>1. PICK k \in 1 .. Len(p) : IsLast(p, i, k)
      BY <1>1, <2>3, LastExists
    <3>2. Folded(f \o p)[i] = p[k]
      BY <1>1, <2>1, <2>3, <3>1, FoldedAppended, LastIsMax
    <3> QED
      BY <1>1, <3>1, <3>2
  <2> QED
    BY <2>2, <2>3
<1>3. PICK n, h : n = Len(f) + m /\ h = f \o g
  OBVIOUS
<1>4. SubSeq(h, 1, n - 1) = f \o p /\ h[n] = g[m]
  BY <1>1, <1>3
<1> HIDE DEF p
<1>5. IsNewAt(h, n)
  BY <1>2, <1>4 DEF IsNewAt, Differ
<1> QED
  BY <1>3, <1>5

-----------------------------------------------------------------------------
(* The steps on the memories *)

Learns == \A n \in DOMAIN file' \ DOMAIN file : IsNewAt(file', n)

LEMMA IdsAreFinite ==
  ASSUME NEW I \in SUBSET MemoryIds
  PROVE  IsFiniteSet(I) /\ Cardinality(I) \in Nat
<1>1. IsFiniteSet(MemoryIds)
  BY RecordsAssumption, FS_Interval DEF MemoryIds
<1> QED
  BY <1>1, FS_Subset, FS_CardinalityType

LEMMA WrittenAreRecords ==
  ASSUME NEW s, NEW adds \in Additions, NEW status \in {"candidate", "active"},
         file \in Seq(MemoryRecord), CurrentStore(store[s], file)
  PROVE  /\ Written(s, adds, status) \in Seq(MemoryRecord)
         /\ Len(Written(s, adds, status)) = Cardinality(NewOnes(s, adds))
<1> DEFINE w == Written(s, adds, status)
           n == Cardinality(NewOnes(s, adds))
<1>1. n \in Nat /\ DOMAIN w = 1 .. n /\ \A m \in 1 .. n : Fits(w, m, status)
  BY WrittenIsNew
<1>2. FreshId \in Nat \ {0}
  <2>1. Known(Folded(file)) \in SUBSET MemoryIds
    BY DEF Known
  <2> QED
    BY <2>1, IdsAreFinite DEF FreshId
<1>3. ASSUME NEW m \in 1 .. n
      PROVE  w[m] \in MemoryRecord
  <2>1. PICK x \in MemoryKinds \X Contents : w[m] = Version(FreshId + m - 1, x[1], x[2], status)
    BY <1>1 DEF Fits
  <2>2. FreshId + m - 1 \in Nat
    BY <1>1, <1>2
  <2>3. x[1] \in MemoryKinds /\ x[2] \in Contents
    OBVIOUS
  <2> HIDE DEF w
  <2> QED
    BY <2>1, <2>2, <2>3 DEF Version, MemoryRecord, MemoryStatuses
<1>4. w = [m \in 1 .. n |-> w[m]]
  <2>1. w = [m \in DOMAIN w |-> w[m]]
    BY DEF Written
  <2> QED
    BY <1>1, <2>1
<1> HIDE DEF w
<1>5. w \in Seq(MemoryRecord)
  BY <1>1, <1>3, <1>4
<1>6. Len(w) = n
  BY <1>1, <1>4
<1> QED
  BY <1>5, <1>6 DEF w

LEMMA KnownIsRecord ==
  ASSUME file \in Seq(MemoryRecord), NEW i \in Known(Folded(file))
  PROVE  Folded(file)[i] \in MemoryRecord /\ Folded(file)[i].id = i
<1>1. PICK n \in 1 .. Len(file) : IsLast(file, i, n) /\ Folded(file)[i] = file[n]
  BY KnownIsStored
<1> QED
  BY <1>1 DEF IsLast

LEMMA SnoozedAreKnown ==
  ASSUME NEW s, NEW z \in SUBSET Listed(s), Cardinality(z) <= 1,
         file \in Seq(MemoryRecord), CurrentStore(store[s], file)
  PROVE  LET g == [n \in 1 .. Cardinality(z) |-> Snoozed(s, CHOOSE i \in z : TRUE)]
         IN g \in Seq(MemoryRecord) /\ \A n \in 1 .. Len(g) : g[n].id \in Known(Folded(file))
<1> DEFINE i == CHOOSE j \in z : TRUE
           v == Snoozed(s, i)
           c == Cardinality(z)
           g == [n \in 1 .. c |-> v]
<1>1. Listed(s) \in SUBSET Known(Folded(file)) /\ Known(Folded(file)) \in SUBSET MemoryIds
  BY EnsuredIsCurrent DEF Listed, Known
<1>2. c \in Nat /\ IsFiniteSet(z)
  BY <1>1, IdsAreFinite
<1>3. ASSUME c # 0
      PROVE  v \in MemoryRecord /\ v.id \in Known(Folded(file))
  <2>1. z # {}
    BY <1>3, FS_EmptySet
  <2>2. i \in z /\ i \in Known(Folded(file))
    BY <1>1, <2>1
  <2> HIDE DEF i
  <2>3. PICK r \in MemoryRecord : r = Folded(file)[i] /\ r.id = i
    BY <2>2, KnownIsRecord
  <2>4. v = [r EXCEPT !.status = "snoozed"]
    BY <2>3, EnsuredIsCurrent DEF Snoozed
  <2>5. [r EXCEPT !.status = "snoozed"] \in MemoryRecord /\ [r EXCEPT !.status = "snoozed"].id = i
    BY <2>3 DEF MemoryRecord, MemoryStatuses
  <2> QED
    BY <2>2, <2>4, <2>5
<1> HIDE DEF v, c
<1>4. g \in Seq(MemoryRecord) /\ Len(g) = c
  BY <1>2, <1>3
<1>5. \A n \in 1 .. c : g[n].id \in Known(Folded(file))
  BY <1>2, <1>3
<1> QED
  BY <1>4, <1>5 DEF v, c

\* A step that only appends records g to the file, and what it does to the stores.
LEMMA AppendStep ==
  ASSUME MemoriesInv, NEW g \in Seq(MemoryRecord), file' = file \o g, UNCHANGED <<plans, index>>,
         DOMAIN store' = Solves,
         \A s \in Solves : store'[s] = store[s] \/ store'[s] = Appended(store[s], g),
         \A m \in 1 .. Len(g) : IsNewAt(file \o g, Len(file) + m)
  PROVE  MemoriesInv' /\ Learns
<1>1. /\ file \in Seq(MemoryRecord) /\ Len(file \o g) = Len(file) + Len(g)
      /\ Len(file) \in Nat /\ Len(g) \in Nat /\ file' \in Seq(MemoryRecord)
  BY DEF MemoriesInv
<1>2. ASSUME NEW s \in Solves
      PROVE  CurrentStore(store'[s], file')
  <2>1. CurrentStore(store[s], file)
    BY DEF MemoriesInv
  <2> QED
    BY <1>1, <2>1, StoreOutgrown, AppendedIsCurrent
<1>3. \A s \in Solves : CurrentPlans(index'[s], plans')
  BY DEF MemoriesInv
<1>4. MemoriesInv'
  BY <1>1, <1>2, <1>3 DEF MemoriesInv
<1>5. ASSUME NEW n \in DOMAIN file' \ DOMAIN file
      PROVE  IsNewAt(file', n)
  <2>1. n - Len(file) \in 1 .. Len(g) /\ n \in Nat
    BY <1>1
  <2>2. n = Len(file) + (n - Len(file))
    BY <1>1, <2>1
  <2> QED
    BY <2>1, <2>2
<1> QED
  BY <1>4, <1>5 DEF Learns

\* What an answer appends.
Answer(s, adds, status, z) ==
  Written(s, adds, status) \o [n \in 1 .. Cardinality(z) |-> Snoozed(s, CHOOSE i \in z : TRUE)]

LEMMA AnswerIsNew ==
  ASSUME NEW s, NEW adds \in Additions, NEW status \in {"candidate", "active"},
         NEW z \in SUBSET Listed(s), Cardinality(z) <= 1,
         file \in Seq(MemoryRecord), CurrentStore(store[s], file)
  PROVE  /\ Answer(s, adds, status, z) \in Seq(MemoryRecord)
         /\ \A m \in 1 .. Len(Answer(s, adds, status, z)) :
              IsNewAt(file \o Answer(s, adds, status, z), Len(file) + m)
<1> DEFINE w == Written(s, adds, status)
           g == [n \in 1 .. Cardinality(z) |-> Snoozed(s, CHOOSE i \in z : TRUE)]
           r == w \o g
<1>1. /\ w \in Seq(MemoryRecord)
      /\ \A m \in 1 .. Len(w) : /\ \A k \in 1 .. m - 1 : Differ(w[k], w[m])
                                /\ \A i \in Known(Folded(file)) : Differ(Folded(file)[i], w[m])
  <2>1. w \in Seq(MemoryRecord) /\ Len(w) = Cardinality(NewOnes(s, adds))
    BY WrittenAreRecords
  <2> QED
    BY <2>1, WrittenIsNew
<1>2. g \in Seq(MemoryRecord) /\ \A n \in 1 .. Len(g) : g[n].id \in Known(Folded(file))
  BY SnoozedAreKnown
<1> HIDE DEF w, g
<1>3. r \in Seq(MemoryRecord) /\ Len(r) = Len(w) + Len(g) /\ Len(w) \in Nat /\ Len(g) \in Nat
  BY <1>1, <1>2
<1>4. ASSUME NEW m \in 1 .. Len(r)
      PROVE  IsNewAt(file \o r, Len(file) + m)
  <2>1. CASE m <= Len(w)
    <3>1. m \in 1 .. Len(w) /\ r[m] = w[m] /\ \A k \in 1 .. m - 1 : r[k] = w[k]
      BY <1>1, <1>2, <1>3, <2>1
    <3>2. /\ \A k \in 1 .. m - 1 : Differ(r[k], r[m])
          /\ \A i \in Known(Folded(file)) : Differ(Folded(file)[i], r[m])
      BY <1>1, <3>1
    <3> HIDE DEF r
    <3> QED
      BY <1>3, <3>2, LikeNone
  <2>2. CASE m > Len(w)
    <3>1. m - Len(w) \in 1 .. Len(g) /\ r[m] = g[m - Len(w)]
      BY <1>1, <1>2, <1>3, <2>2
    <3>2. r[m].id \in Known(Folded(file))
      BY <1>2, <3>1
    <3> HIDE DEF r
    <3> QED
      BY <1>3, <3>2, VersionOfKnown
  <2>3. m <= Len(w) \/ m > Len(w)
    BY <1>3
  <2> QED
    BY <2>1, <2>2, <2>3
<1> QED
  BY <1>3, <1>4 DEF Answer, w, g

LEMMA ApplyKeepsMemories ==
  ASSUME MemoriesInv, NEW s \in Solves, Apply(s)
  PROVE  MemoriesInv' /\ Learns
<1>1. file \in Seq(MemoryRecord) /\ CurrentStore(store[s], file) /\ DOMAIN store = Solves
  BY DEF MemoriesInv
<1>2. PICK adds \in Additions, status \in {"candidate", "active"}, z \in SUBSET Listed(s) :
        /\ Cardinality(z) <= 1
        /\ file' = file \o Answer(s, adds, status, z)
        /\ store' = [store EXCEPT ![s] = Appended(@, Answer(s, adds, status, z))]
  BY DEF Apply, Answer
<1>3. PICK g \in Seq(MemoryRecord) : g = Answer(s, adds, status, z)
  BY <1>1, <1>2, AnswerIsNew
<1>4. \A m \in 1 .. Len(g) : IsNewAt(file \o g, Len(file) + m)
  BY <1>1, <1>2, <1>3, AnswerIsNew
<1>5. \A q \in Solves : store'[q] = store[q] \/ store'[q] = Appended(store[q], g)
  BY <1>1, <1>2, <1>3
<1>6. DOMAIN store' = Solves /\ UNCHANGED <<plans, index>> /\ file' = file \o g
  BY <1>1, <1>2, <1>3 DEF Apply
<1> QED
  BY <1>4, <1>5, <1>6, AppendStep

LEMMA RequestKeepsMemories ==
  ASSUME MemoriesInv, NEW r \in MemoryRecord, r.id \in Known(Folded(file)), Append1(r)
  PROVE  MemoriesInv' /\ Learns
<1> DEFINE g == <<r>>
<1>1. g \in Seq(MemoryRecord) /\ Len(g) = 1 /\ g[1] = r
  OBVIOUS
<1>2. file \in Seq(MemoryRecord) /\ file' = file \o g
  BY AppendIsConcat DEF MemoriesInv, Append1
<1> HIDE DEF g
<1>3. ASSUME NEW m \in 1 .. Len(g)
      PROVE  IsNewAt(file \o g, Len(file) + m)
  <2>1. g[m].id \in Known(Folded(file))
    BY <1>1
  <2> QED
    BY <1>1, <1>2, <2>1, VersionOfKnown
<1>4. DOMAIN store' = Solves /\ \A s \in Solves : store'[s] = store[s]
  BY DEF MemoriesInv, Append1
<1>5. UNCHANGED <<plans, index>>
  BY DEF Append1
<1>6. \A s \in Solves : store'[s] = store[s] \/ store'[s] = Appended(store[s], g)
  BY <1>4
<1>7. \A m \in 1 .. Len(g) : IsNewAt(file \o g, Len(file) + m)
  BY <1>3
<1> QED
  BY <1>1, <1>2, <1>4, <1>5, <1>6, <1>7, AppendStep

LEMMA QuietKeepsMemories ==
  ASSUME MemoriesInv, UNCHANGED file,
         DOMAIN store' = Solves, \A s \in Solves : CurrentStore(store'[s], file),
         plans' \in Seq(Solves), DOMAIN index' = Solves, \A s \in Solves : CurrentPlans(index'[s], plans')
  PROVE  MemoriesInv' /\ Learns
BY DEF MemoriesInv, Learns

LEMMA PlansOpenedAreCurrent ==
  ASSUME plans \in Seq(Solves)
  PROVE  CurrentPlans(PlansOpened, plans)
BY DEF PlansOpened, CurrentPlans

LEMMA OpenedIsCurrent ==
  ASSUME file \in Seq(MemoryRecord)
  PROVE  CurrentStore(Opened, file)
BY DEF Opened, CurrentStore

LEMMA RefreshedIsCurrent ==
  ASSUME plans \in Seq(Solves), NEW x, CurrentPlans(x, plans)
  PROVE  /\ CurrentPlans(Refreshed(x), plans) /\ Refreshed(x).held = plans
BY PlansOpenedAreCurrent DEF Refreshed, CurrentPlans, PlansOpened

LEMMA PlanKeepsMemories ==
  ASSUME MemoriesInv, NEW s \in Solves, Retrieve(s) \/ Record(s)
  PROVE  MemoriesInv' /\ Learns
<1>1. /\ plans \in Seq(Solves) /\ DOMAIN index = Solves /\ UNCHANGED <<file, store>>
      /\ \A q \in Solves : CurrentPlans(index[q], plans)
  BY DEF MemoriesInv, Retrieve, Record
<1>2. PICK x : x = Refreshed(index[s]) /\ CurrentPlans(x, plans) /\ x.held = plans
  BY <1>1, RefreshedIsCurrent
<1>3. CASE Retrieve(s)
  <2>1. index' = [index EXCEPT ![s] = [x EXCEPT !.ranked = Len(x.held)]] /\ plans' = plans
    BY <1>2, <1>3 DEF Retrieve
  <2>2. CurrentPlans([x EXCEPT !.ranked = Len(x.held)], plans)
    BY <1>2 DEF CurrentPlans
  <2>3. DOMAIN index' = Solves /\ \A q \in Solves : CurrentPlans(index'[q], plans)
    BY <1>1, <2>1, <2>2
  <2> QED
    BY <1>1, <2>1, <2>3, QuietKeepsMemories DEF MemoriesInv
<1>4. CASE Record(s)
  <2>1. PICK y : y = [x EXCEPT !.held = Append(@, s), !.seen = Len(plans) + 1]
    OBVIOUS
  <2>2. index' = [index EXCEPT ![s] = y] /\ plans' = Append(plans, s)
    BY <1>2, <1>4, <2>1 DEF Record, Recorded
  <2>3. plans' \in Seq(Solves) /\ Len(plans') = Len(plans) + 1 /\ Len(plans) \in Nat
    BY <1>1, <2>2
  <2>4. CurrentPlans(y, plans')
    BY <1>2, <2>1, <2>2, <2>3 DEF CurrentPlans
  <2>5. \A q \in Solves : CurrentPlans(index[q], plans')
    BY <1>1, <2>3 DEF CurrentPlans
  <2>6. DOMAIN index' = Solves /\ \A q \in Solves : CurrentPlans(index'[q], plans')
    BY <1>1, <2>2, <2>4, <2>5
  <2> QED
    BY <1>1, <2>3, <2>6, QuietKeepsMemories DEF MemoriesInv
<1> QED
  BY <1>3, <1>4

LEMMA StoreKeepsMemories ==
  ASSUME MemoriesInv, NEW s \in Solves, Ask(s) \/ Reopen(s)
  PROVE  MemoriesInv' /\ Learns
<1>1. /\ file \in Seq(MemoryRecord) /\ DOMAIN store = Solves /\ \A q \in Solves : CurrentStore(store[q], file)
      /\ plans \in Seq(Solves) /\ DOMAIN index = Solves /\ \A q \in Solves : CurrentPlans(index[q], plans)
      /\ UNCHANGED <<file, plans>>
  BY DEF MemoriesInv, Ask, Reopen
<1>2. PICK st : store' = [store EXCEPT ![s] = st] /\ CurrentStore(st, file)
  <2>1. CASE Ask(s)
    <3>1. CurrentStore(Ensured(store[s]), file)
      BY <1>1, OpenedIsCurrent DEF Ensured
    <3> QED
      BY <2>1, <3>1 DEF Ask
  <2>2. CASE Reopen(s)
    BY <1>1, <2>2, OpenedIsCurrent DEF Reopen
  <2> QED
    BY <2>1, <2>2
<1>3. DOMAIN store' = Solves /\ \A q \in Solves : CurrentStore(store'[q], file)
  BY <1>1, <1>2
<1>4. DOMAIN index' = Solves /\ \A q \in Solves : CurrentPlans(index'[q], plans')
  <2>1. CASE Ask(s)
    BY <1>1, <2>1 DEF Ask
  <2>2. CASE Reopen(s)
    <3>1. index' = [index EXCEPT ![s] = PlansOpened]
      BY <2>2 DEF Reopen
    <3> QED
      BY <1>1, <3>1, PlansOpenedAreCurrent
  <2> QED
    BY <2>1, <2>2
<1> QED
  BY <1>1, <1>3, <1>4, QuietKeepsMemories

\* A request of the user writes another version of a memory that is known.
LEMMA RequestsAreVersions ==
  ASSUME MemoriesInv, PatchStatus \/ PatchContent \/ Delete
  PROVE  \E r \in MemoryRecord : r.id \in Known(Folded(file)) /\ Append1(r)
<1>0. file \in Seq(MemoryRecord)
  BY DEF MemoriesInv
<1>1. CASE PatchStatus
  <2>1. PICK i \in Known(Folded(file)), x \in {"candidate", "active", "snoozed"} :
          Append1([Folded(file)[i] EXCEPT !.status = x])
    BY <1>1 DEF PatchStatus
  <2>2. PICK v \in MemoryRecord : v = Folded(file)[i] /\ v.id = i
    BY <1>0, KnownIsRecord
  <2>3. [v EXCEPT !.status = x] \in MemoryRecord /\ [v EXCEPT !.status = x].id = i
    BY <2>2 DEF MemoryRecord, MemoryStatuses
  <2> QED
    BY <2>1, <2>2, <2>3
<1>2. CASE PatchContent
  <2>1. PICK i \in Known(Folded(file)), c \in Contents :
          Append1([Folded(file)[i] EXCEPT !.content = c])
    BY <1>2 DEF PatchContent
  <2>2. PICK v \in MemoryRecord : v = Folded(file)[i] /\ v.id = i
    BY <1>0, KnownIsRecord
  <2>3. [v EXCEPT !.content = c] \in MemoryRecord /\ [v EXCEPT !.content = c].id = i
    BY <2>2 DEF MemoryRecord
  <2> QED
    BY <2>1, <2>2, <2>3
<1>3. CASE Delete
  <2>1. PICK i \in Known(Folded(file)) :
          Append1([Folded(file)[i] EXCEPT !.status = "rejected", !.tombstone = TRUE])
    BY <1>3 DEF Delete
  <2>2. PICK v \in MemoryRecord : v = Folded(file)[i] /\ v.id = i
    BY <1>0, KnownIsRecord
  <2>3. /\ [v EXCEPT !.status = "rejected", !.tombstone = TRUE] \in MemoryRecord
        /\ [v EXCEPT !.status = "rejected", !.tombstone = TRUE].id = i
    BY <2>2 DEF MemoryRecord, MemoryStatuses
  <2> QED
    BY <2>1, <2>2, <2>3
<1> QED
  BY <1>0, <1>1, <1>2, <1>3

LEMMA MemoryStep ==
  ASSUME MemoriesInv, [MemoryNext]_memoryVars
  PROVE  MemoriesInv' /\ [Learns]_memoryVars
<1>1. CASE PatchStatus \/ PatchContent \/ Delete
  BY <1>1, RequestsAreVersions, RequestKeepsMemories
<1>2. CASE UNCHANGED memoryVars
  BY <1>2 DEF memoryVars, MemoriesInv
<1> QED
  BY <1>1, <1>2, ApplyKeepsMemories, PlanKeepsMemories, StoreKeepsMemories DEF MemoryNext

LEMMA MemoriesAtFirst == MemoryInit => MemoriesInv
<1> SUFFICES ASSUME MemoryInit
             PROVE  MemoriesInv
  OBVIOUS
<1>1. file \in Seq(MemoryRecord) /\ plans \in Seq(Solves)
  BY DEF MemoryInit
<1>2. CurrentStore(Opened, file) /\ CurrentPlans(PlansOpened, plans)
  BY <1>1, OpenedIsCurrent, PlansOpenedAreCurrent
<1> QED
  BY <1>1, <1>2 DEF MemoryInit, MemoriesInv

LEMMA MemoriesHold == MemorySpec => []MemoriesInv
<1>1. MemoriesInv /\ [MemoryNext]_memoryVars => MemoriesInv'
  BY MemoryStep
<1> QED
  BY <1>1, MemoriesAtFirst, PTL DEF MemorySpec

\* A store whose view of the file has the length of the file holds every memory of it in its
\* last version, and likewise the plans, whatever the other solves and the user have written.
THEOREM CurrentIsWhole == MemorySpec => []CurrentMeansWhole
<1>1. MemoriesInv => CurrentMeansWhole
  BY DEF MemoriesInv, CurrentMeansWhole, CurrentStore, CurrentPlans
<1> QED
  BY <1>1, MemoriesHold, PTL

\* The additions are compared with what is known when they are applied, not with what the
\* prompt showed: what is learned is new, also beside the other additions of the answer.
THEOREM OnlyNewIsLearned == MemorySpec => LearnedIsNew
<1>1. MemoriesInv /\ [MemoryNext]_memoryVars => [Learns]_memoryVars
  BY MemoryStep
<1> QED
  BY <1>1, MemoriesHold, PTL DEF MemorySpec, LearnedIsNew, Learns
-----------------------------------------------------------------------------
(* Identifiers are counted *)

NumberedBy(f, m) == \A i \in Nat : (Versions(f, i) # {}) <=> i \in 1 .. m
NumbersInv ==
  /\ MemoriesInv /\ Len(file) <= MaxRecords
  /\ \E m \in 0 .. Len(file) : NumberedBy(file, m)

LEMMA KnownAreNumbered ==
  ASSUME NEW f \in Seq(MemoryRecord), NEW m \in Nat, m <= MaxRecords, NumberedBy(f, m)
  PROVE  Known(Folded(f)) = 1 .. m
<1>1. ASSUME NEW i \in MemoryIds
      PROVE  (i \in Known(Folded(f))) <=> Versions(f, i) # {}
  BY FoldedNever, LastExists, FoldedLast
<1>2. MaxRecords \in Nat
  BY RecordsAssumption
<1>3. ASSUME NEW i \in MemoryIds
      PROVE  (i \in Known(Folded(f))) <=> i \in 1 .. m
  BY <1>1, <1>2 DEF NumberedBy, MemoryIds
<1> QED
  BY <1>2, <1>3 DEF Known, MemoryIds

LEMMA NumbersGrow ==
  ASSUME NEW f \in Seq(MemoryRecord), NEW g \in Seq(MemoryRecord), NEW m \in Nat, NEW k \in Nat,
         NumberedBy(f, m), \A q \in 1 .. Len(g) : g[q].id \in 1 .. m + k,
         \A i \in m + 1 .. m + k : \E q \in 1 .. Len(g) : g[q].id = i
  PROVE  NumberedBy(f \o g, m + k)
<1> SUFFICES ASSUME NEW i \in Nat
             PROVE  (Versions(f \o g, i) # {}) <=> i \in 1 .. m + k
  BY DEF NumberedBy
<1>1. /\ f \o g \in Seq(MemoryRecord) /\ Len(f \o g) = Len(f) + Len(g)
      /\ Len(f) \in Nat /\ Len(g) \in Nat
  OBVIOUS
<1>2. ASSUME Versions(f \o g, i) # {}
      PROVE  i \in 1 .. m + k
  <2>1. PICK n \in 1 .. Len(f \o g) : (f \o g)[n].id = i
    BY <1>1, <1>2 DEF Versions
  <2>2. CASE n <= Len(f)
    <3>1. n \in DOMAIN f /\ (f \o g)[n] = f[n]
      BY <1>1, <2>2
    <3>2. Versions(f, i) # {}
      BY <2>1, <3>1 DEF Versions
    <3> QED
      BY <3>2 DEF NumberedBy
  <2>3. CASE n > Len(f)
    <3>1. n - Len(f) \in 1 .. Len(g) /\ (f \o g)[n] = g[n - Len(f)]
      BY <1>1, <2>3
    <3> QED
      BY <2>1, <3>1
  <2>4. n <= Len(f) \/ n > Len(f)
    BY <1>1
  <2> QED
    BY <2>2, <2>3, <2>4
<1>3. ASSUME i \in 1 .. m
      PROVE  Versions(f \o g, i) # {}
  <2>1. PICK n \in DOMAIN f : f[n].id = i
    BY <1>3 DEF NumberedBy, Versions
  <2>2. n \in DOMAIN (f \o g) /\ (f \o g)[n] = f[n]
    BY <1>1, <2>1
  <2> QED
    BY <2>1, <2>2 DEF Versions
<1>4. ASSUME i \in m + 1 .. m + k
      PROVE  Versions(f \o g, i) # {}
  <2>1. PICK q \in 1 .. Len(g) : g[q].id = i
    BY <1>4
  <2>2. Len(f) + q \in DOMAIN (f \o g) /\ (f \o g)[Len(f) + q] = g[q]
    BY <1>1, <2>1
  <2> QED
    BY <2>1, <2>2 DEF Versions
<1> QED
  BY <1>2, <1>3, <1>4

LEMMA FreshIsNext ==
  ASSUME file \in Seq(MemoryRecord), NEW m \in Nat, m <= MaxRecords, NumberedBy(file, m)
  PROVE  FreshId = m + 1 /\ Known(Folded(file)) = 1 .. m
<1>1. Known(Folded(file)) = 1 .. m
  BY KnownAreNumbered
<1>2. Cardinality(1 .. m) = m
  BY FS_Interval
<1> QED
  BY <1>1, <1>2 DEF FreshId

\* An answer numbers its additions one after the other from the first free number.
LEMMA ApplyKeepsNumbers ==
  ASSUME NumbersInv, NEW s \in Solves, Apply(s)
  PROVE  Len(file') <= MaxRecords /\ \E m \in 0 .. Len(file') : NumberedBy(file', m)
<1>1. file \in Seq(MemoryRecord) /\ CurrentStore(store[s], file)
  BY DEF NumbersInv, MemoriesInv
<1>2. PICK m \in 0 .. Len(file) : NumberedBy(file, m)
  BY DEF NumbersInv
<1>3. m \in Nat /\ m <= MaxRecords /\ Len(file) \in Nat
  BY <1>1, <1>2, RecordsAssumption DEF NumbersInv
<1>4. FreshId = m + 1 /\ Known(Folded(file)) = 1 .. m
  BY <1>1, <1>2, <1>3, FreshIsNext
<1>5. PICK adds \in Additions, status \in {"candidate", "active"}, z \in SUBSET Listed(s) :
        /\ Cardinality(z) <= 1
        /\ file' = file \o Answer(s, adds, status, z)
        /\ Len(file) + Len(Answer(s, adds, status, z)) <= MaxRecords
  BY DEF Apply, Answer
<1> DEFINE w == Written(s, adds, status)
           k == Cardinality(NewOnes(s, adds))
           x == [n \in 1 .. Cardinality(z) |-> Snoozed(s, CHOOSE i \in z : TRUE)]
           g == w \o x
<1>6. w \in Seq(MemoryRecord) /\ Len(w) = k /\ k \in Nat /\ \A q \in 1 .. k : Fits(w, q, status)
  BY <1>1, WrittenAreRecords, WrittenIsNew
<1>7. x \in Seq(MemoryRecord) /\ \A n \in 1 .. Len(x) : x[n].id \in 1 .. m
  <2>1. x \in Seq(MemoryRecord) /\ \A n \in 1 .. Len(x) : x[n].id \in Known(Folded(file))
    BY <1>1, <1>5, SnoozedAreKnown
  <2> HIDE DEF x
  <2> QED
    BY <1>4, <2>1
<1>8. g = Answer(s, adds, status, z)
  BY DEF Answer
<1> HIDE DEF w, k, x
<1>9. g \in Seq(MemoryRecord) /\ Len(g) = k + Len(x) /\ Len(x) \in Nat
  <2>1. w \in Seq(MemoryRecord) /\ x \in Seq(MemoryRecord) /\ Len(w) = k
    BY <1>6, <1>7
  <2>2. g \in Seq(MemoryRecord) /\ Len(g) = Len(w) + Len(x) /\ Len(x) \in Nat
    BY <2>1
  <2> QED
    BY <2>1, <2>2
<1>10. \A q \in 1 .. k : g[q] = w[q] /\ g[q].id = m + q
  <2> SUFFICES ASSUME NEW q \in 1 .. k
               PROVE  g[q] = w[q] /\ g[q].id = m + q
    OBVIOUS
  <2>1. g[q] = w[q]
    BY <1>6, <1>7
  <2>2. w[q].id = m + 1 + q - 1
    BY <1>4, <1>6 DEF Fits, Version
  <2> QED
    BY <1>3, <1>6, <2>1, <2>2
<1>11. ASSUME NEW q \in 1 .. Len(g)
       PROVE  g[q].id \in 1 .. m + k
  <2>1. CASE q <= k
    BY <1>3, <1>6, <1>10, <2>1
  <2>2. CASE q > k
    <3>1. q - k \in 1 .. Len(x) /\ g[q] = x[q - k]
      BY <1>6, <1>7, <1>9, <2>2
    <3>2. g[q].id \in 1 .. m
      BY <1>7, <3>1
    <3> QED
      BY <1>3, <1>6, <3>2
  <2>3. q <= k \/ q > k
    BY <1>6, <1>9
  <2> QED
    BY <2>1, <2>2, <2>3
<1>12. ASSUME NEW i \in m + 1 .. m + k
       PROVE  \E q \in 1 .. Len(g) : g[q].id = i
  <2>1. i - m \in 1 .. k /\ i - m \in 1 .. Len(g) /\ m + (i - m) = i
    BY <1>3, <1>6, <1>9
  <2> QED
    BY <1>10, <2>1
<1> HIDE DEF g
<1>13. NumberedBy(file \o g, m + k)
  BY <1>1, <1>2, <1>3, <1>6, <1>9, <1>11, <1>12, NumbersGrow
<1>14. /\ file' = file \o g /\ Len(file') = Len(file) + Len(g)
       /\ Len(file) + Len(g) <= MaxRecords /\ m + k \in 0 .. Len(file')
  <2>1. file' = file \o g /\ Len(file) + Len(g) <= MaxRecords
    BY <1>5, <1>8
  <2>2. Len(file \o g) = Len(file) + Len(g)
    BY <1>1, <1>9
  <2> QED
    BY <1>2, <1>3, <1>6, <1>9, <2>1, <2>2
<1> QED
  BY <1>13, <1>14

LEMMA RequestKeepsNumbers ==
  ASSUME NumbersInv, NEW r \in MemoryRecord, r.id \in Known(Folded(file)), Append1(r)
  PROVE  Len(file') <= MaxRecords /\ \E m \in 0 .. Len(file') : NumberedBy(file', m)
<1> DEFINE g == <<r>>
<1>1. g \in Seq(MemoryRecord) /\ Len(g) = 1 /\ g[1] = r
  OBVIOUS
<1>2. file \in Seq(MemoryRecord) /\ file' = file \o g
  BY AppendIsConcat DEF NumbersInv, MemoriesInv, Append1
<1> HIDE DEF g
<1>3. PICK m \in 0 .. Len(file) : NumberedBy(file, m)
  BY DEF NumbersInv
<1>4. m \in Nat /\ m <= MaxRecords /\ Len(file) \in Nat
  BY <1>2, <1>3, RecordsAssumption DEF NumbersInv
<1>5. \A q \in 1 .. Len(g) : g[q].id \in 1 .. m + 0
  BY <1>1, <1>2, <1>3, <1>4, FreshIsNext
<1>6. NumberedBy(file \o g, m + 0)
  <2>1. \A i \in m + 1 .. m + 0 : \E q \in 1 .. Len(g) : g[q].id = i
    BY <1>4
  <2> QED
    BY <1>1, <1>2, <1>3, <1>4, <1>5, <2>1, NumbersGrow
<1>7. Len(file') = Len(file) + 1 /\ Len(file') <= MaxRecords /\ m \in 0 .. Len(file')
  <2>1. Len(file \o g) = Len(file) + Len(g)
    <3>1. file \in Seq(MemoryRecord) /\ g \in Seq(MemoryRecord)
      BY <1>1, <1>2
    <3> QED
      BY <3>1
  <2>2. Len(file) < MaxRecords /\ MaxRecords \in Nat
    BY RecordsAssumption DEF Append1
  <2> QED
    BY <1>1, <1>2, <1>3, <1>4, <2>1, <2>2
<1> QED
  BY <1>2, <1>4, <1>6, <1>7

FreshIsUnused == \A i \in Known(Folded(file)) : i < FreshId

\* The number that follows the count of the known memories is never one of theirs, so that an
\* addition cannot pass for a version of another memory.
THEOREM FreshIdsAreFresh == MemorySpec => []FreshIsUnused
<1>1. MemoryInit => NumbersInv
  <2> SUFFICES ASSUME MemoryInit, MemoriesInv
               PROVE  NumbersInv
    BY MemoriesAtFirst
  <2>1. file = <<>> /\ Len(file) = 0
    BY DEF MemoryInit
  <2>2. NumberedBy(file, 0)
    BY <2>1 DEF NumberedBy, Versions
  <2> QED
    BY <2>1, <2>2, RecordsAssumption DEF NumbersInv
<1>2. NumbersInv /\ [MemoryNext]_memoryVars => NumbersInv'
  <2> SUFFICES ASSUME NumbersInv, [MemoryNext]_memoryVars
               PROVE  NumbersInv'
    OBVIOUS
  <2>1. MemoriesInv /\ MemoriesInv'
    BY MemoryStep DEF NumbersInv
  <2>2. CASE UNCHANGED file
    BY <2>1, <2>2 DEF NumbersInv
  <2>3. ASSUME NEW s \in Solves, Apply(s)
        PROVE  NumbersInv'
    BY <2>1, <2>3, ApplyKeepsNumbers DEF NumbersInv
  <2>4. CASE PatchStatus \/ PatchContent \/ Delete
    <3>1. PICK r \in MemoryRecord : r.id \in Known(Folded(file)) /\ Append1(r)
      BY <2>1, <2>4, RequestsAreVersions
    <3> QED
      BY <2>1, <3>1, RequestKeepsNumbers DEF NumbersInv
  <2> QED
    BY <2>2, <2>3, <2>4 DEF MemoryNext, memoryVars, Retrieve, Record, Ask, Reopen
<1>3. NumbersInv => FreshIsUnused
  <2> SUFFICES ASSUME NumbersInv, NEW i \in Known(Folded(file))
               PROVE  i < FreshId
    BY DEF FreshIsUnused
  <2>1. file \in Seq(MemoryRecord)
    BY DEF NumbersInv, MemoriesInv
  <2>2. PICK m \in 0 .. Len(file) : NumberedBy(file, m)
    BY DEF NumbersInv
  <2>3. m \in Nat /\ m <= MaxRecords
    BY <2>1, <2>2, RecordsAssumption DEF NumbersInv
  <2> QED
    BY <2>1, <2>2, <2>3, FreshIsNext
<1> QED
  BY <1>1, <1>2, <1>3, PTL DEF MemorySpec

-----------------------------------------------------------------------------
(* The lemma executor: its tasks *)

Phases == {"level", "rescue", "main", "assembled", "succeeded", "refused", "failed",
           "timeout", "raised"}
Declaration == [name : Seq(Nat), uses : SUBSET Seq(Nat)]
Task == [step : TaskSteps, tries : Nat, routes : Nat,
         frames : Seq(Frame), codes : Seq(Declaration)]

\* The path of a declaration: the lemma, then the sub-lemma in turn of each rescue.
Address(i, fr, n) == [q \in 1 .. n |-> IF q = 1 THEN i ELSE fr[q - 1].next]
\* Each rescue is of the sub-lemma that the one around it has in turn.
Stacked(i, fr) == \A m \in 1 .. Len(fr) : fr[m].parent = Address(i, fr, m)
\* A declaration below a sub-lemma that some rescue has passed.
PassedAt(i, fr, c, m) ==
  /\ Len(c) > m /\ c[1] = i
  /\ \A q \in 1 .. m - 1 : c[q + 1] = fr[q].next
  /\ c[m + 1] < fr[m].next
Passed(i, fr, c) == \E m \in 1 .. Len(fr) : PassedAt(i, fr, c, m)
NamesBefore(codes, k) == {codes[j].name : j \in 1 .. k - 1}
\* Each declaration of a block uses what stands before it, and is new to the block.
Chained(codes, known) ==
  \A k \in 1 .. Len(codes) : /\ codes[k].uses \subseteq known \union NamesBefore(codes, k)
                             /\ codes[k].name \notin NamesBefore(codes, k)
InTurn(fr) == fr = <<>> \/ fr[Len(fr)].next <= fr[Len(fr)].subs
Topmost(fr) == fr = <<>> \/ (Len(fr) = 1 /\ fr[1].next > fr[1].subs)

\* What holds of the proof of lemma i above a file that declares the names known.
TaskFits(i, t, known) ==
  /\ t \in Task
  /\ Stacked(i, t.frames) /\ (t.frames = <<>> => t.codes = <<>>)
  /\ \A k \in 1 .. Len(t.codes) : Passed(i, t.frames, t.codes[k].name)
  /\ Chained(t.codes, known)
  /\ t.step = "decomposing" => InTurn(t.frames)
  /\ t.step = "proved" => Topmost(t.frames)

Idle(i) == tasks[i].step \notin Busy \union {"queued"}

\* The file holds the lemmas of the earlier levels, and all of them if the plan is in order.
Earlier ==
  /\ \A c \in Declared(verified) : Len(c) >= 1 /\ c[1] \in Lemmas /\ LevelOf(c[1]) < level
  /\ Schedulable => \A d \in Lemmas : LevelOf(d) < level => <<d>> \in Declared(verified)

\* The lemma that failed last has failed; or it is being rescued, and the declaration that
\* failed is not proved when it is given up again.
Blamed(j, d) ==
  /\ d \in Seq(Nat) /\ Len(d) >= 1 /\ d[1] = j
  /\ tasks[j].step \in {"failed", "decomposing"} => d \notin Declared(tasks[j].codes)
  /\ tasks[j].step = "proved" => tasks[j].frames # <<>>
Blame ==
  /\ phase = "level" =>
       /\ \A i \in Level : tasks[i].frames = <<>> /\ tasks[i].step # "decomposing"
       /\ Failed # {} => \E j \in Failed : failure = FailureOf(<<j>>)
  /\ phase = "rescue" =>
       /\ \A i \in Level : tasks[i].step \in {"queued", "asking", "checking", "repairing"} =>
                             tasks[i].frames # <<>>
       /\ \E j \in Level, d \in {failure.lemma} : failure = FailureOf(d) /\ Blamed(j, d)

LevelInv ==
  /\ \A i \in DOMAIN tasks \ Level : Idle(i)
  /\ \A i \in Level : TaskFits(i, tasks[i], Declared(verified))
  /\ Earlier /\ Blame
MainInv ==
  /\ \A i \in DOMAIN tasks \ {Main} : Idle(i)
  /\ tasks[Main] \in Task /\ tasks[Main].frames = <<>> /\ tasks[Main].step # "decomposing"
  /\ tasks[Main].step = "failed" => failure = FailureOf(<<>>)
  /\ \A c \in Declared(verified) : Len(c) >= 1
Diagnosed ==
  (\A i \in Level \ Failed : tasks[i].frames = <<>>) =>
     failure.kind = "lemma" /\ failure.lemma \notin Declared(verified)

ExecutionInv ==
  /\ plan \in Plans /\ phase \in Phases /\ level \in Nat
  /\ DOMAIN tasks = Lemmas \union {Main}
  /\ verified \in Seq(Declaration) /\ FileIsOrdered
  /\ phase \in {"level", "rescue"} => LevelInv
  /\ phase = "main" => MainInv
  /\ phase \in {"assembled", "succeeded", "refused", "failed", "timeout"} =>
       \A i \in DOMAIN tasks : Idle(i)
  /\ phase = "timeout" => failure = OutOfTime
  /\ phase = "failed" => Diagnosed

-----------------------------------------------------------------------------
(* The declaration in turn *)

Here(fr) == IF fr = <<>> THEN 1
            ELSE IF fr[Len(fr)].next > fr[Len(fr)].subs THEN Len(fr) ELSE Len(fr) + 1

LEMMA FramesAre ==
  ASSUME NEW fr \in Seq(Frame), NEW q \in 1 .. Len(fr)
  PROVE  /\ fr[q] = [parent |-> fr[q].parent, subs |-> fr[q].subs, next |-> fr[q].next]
         /\ fr[q].parent \in Seq(Nat) /\ fr[q].subs \in Nat /\ fr[q].next \in Nat
<1>1. fr[q] \in Frame
  OBVIOUS
<1> QED
  BY <1>1 DEF Frame

LEMMA AddressIs ==
  ASSUME NEW i \in Nat, NEW fr \in Seq(Frame), NEW n \in Nat, n <= Len(fr) + 1
  PROVE  /\ Address(i, fr, n) \in Seq(Nat) /\ Len(Address(i, fr, n)) = n
         /\ n > 0 => Address(i, fr, n)[1] = i
         /\ \A q \in 1 .. n - 1 : Address(i, fr, n)[q + 1] = fr[q].next
<1> DEFINE a == Address(i, fr, n)
<1>1. Len(fr) \in Nat /\ n \in Nat /\ n <= Len(fr) + 1
  OBVIOUS
<1>2. \A q \in 1 .. Len(fr) : fr[q].next \in Nat
  BY FramesAre
<1>3. \A q \in 1 .. n : (IF q = 1 THEN i ELSE fr[q - 1].next) \in Nat
  <2> TAKE q \in 1 .. n
  <2>1. CASE q = 1
    BY <2>1
  <2>2. CASE q # 1
    <3>1. q - 1 \in 1 .. Len(fr)
      BY <1>1, <2>2
    <3> QED
      BY <1>2, <2>2, <3>1
  <2> QED
    BY <2>1, <2>2
<1>4. a \in [1 .. n -> Nat]
  BY <1>3 DEF Address
<1>5. a \in Seq(Nat)
  BY <1>1, <1>4, IsASeq
<1>6. Len(a) = n
  BY <1>1, <1>4, <1>5, LenProperties
<1>7. n > 0 => a[1] = i
  BY <1>1 DEF Address
<1>8. ASSUME NEW q \in 1 .. n - 1
      PROVE  a[q + 1] = fr[q].next
  <2>1. q + 1 \in 1 .. n /\ q + 1 # 1 /\ (q + 1) - 1 = q
    BY <1>1
  <2> QED
    BY <2>1 DEF Address
<1> QED
  BY <1>5, <1>6, <1>7, <1>8

LEMMA OneIsSeq == \A i \in Nat : <<i>> \in Seq(Nat) /\ Len(<<i>>) = 1 /\ <<i>>[1] = i
  OBVIOUS

\* Two sequences of numbers with the same members are the same.
LEMMA SamePath ==
  ASSUME NEW c \in Seq(Nat), NEW d \in Seq(Nat), Len(c) = Len(d),
         \A q \in 1 .. Len(c) : c[q] = d[q]
  PROVE  c = d
  BY SeqEqual

\* The path grows by the sub-lemma in turn.
LEMMA AddressGrows ==
  ASSUME NEW i \in Nat, NEW fr \in Seq(Frame), NEW n \in 1 .. Len(fr)
  PROVE  Append(Address(i, fr, n), fr[n].next) = Address(i, fr, n + 1)
<1>1. /\ Len(fr) \in Nat /\ n \in Nat /\ n <= Len(fr) + 1 /\ n > 0
      /\ n + 1 \in Nat /\ n + 1 <= Len(fr) + 1 /\ n + 1 > 0 /\ (n + 1) - 1 = n
  OBVIOUS
<1>2. PICK a \in Seq(Nat) : a = Address(i, fr, n)
  BY <1>1, AddressIs
<1>3. Len(a) = n
  BY <1>1, <1>2, AddressIs
<1>4. a[1] = i
  BY <1>1, <1>2, AddressIs
<1>5. \A q \in 1 .. n - 1 : a[q + 1] = fr[q].next
  BY <1>1, <1>2, AddressIs
<1>6. PICK k \in Nat : k = n + 1
  BY <1>1
<1>7. k <= Len(fr) + 1 /\ k > 0 /\ k - 1 = n
  BY <1>1, <1>6
<1>8. PICK b \in Seq(Nat) : b = Address(i, fr, k)
  BY <1>7, AddressIs
<1>9. Len(b) = k
  BY <1>7, <1>8, AddressIs
<1>10. b[1] = i
  BY <1>7, <1>8, AddressIs
<1>11. \A q \in 1 .. k - 1 : b[q + 1] = fr[q].next
  BY <1>7, <1>8, AddressIs
<1>12. PICK e \in Nat : e = fr[n].next
  BY FramesAre
<1>13. Append(a, e) \in Seq(Nat) /\ Len(Append(a, e)) = k /\ Append(a, e)[k] = e
       /\ \A q \in 1 .. n : Append(a, e)[q] = a[q]
  BY <1>3, <1>6, AppendProperties
<1>14. ASSUME NEW q \in 1 .. k
       PROVE  Append(a, e)[q] = b[q]
  <2>1. CASE q = k
    <3>1. n \in 1 .. k - 1
      BY <1>1, <1>7
    <3>2. b[n + 1] = fr[n].next
      BY <1>11, <3>1
    <3> QED
      BY <1>6, <1>12, <1>13, <2>1, <3>2
  <2>2. CASE q \in 1 .. n
    <3>1. Append(a, e)[q] = a[q]
      BY <1>13, <2>2
    <3>2. CASE q = 1
      BY <1>4, <1>10, <3>1, <3>2
    <3>3. CASE q # 1
      <4>1. PICK p \in 1 .. n - 1 : q = p + 1
        BY <1>1, <2>2, <3>3
      <4>2. a[p + 1] = fr[p].next /\ p \in 1 .. k - 1
        BY <1>1, <1>5, <1>7
      <4>3. b[p + 1] = fr[p].next
        BY <1>11, <4>2
      <4> QED
        BY <3>1, <4>1, <4>2, <4>3
    <3> QED
      BY <3>2, <3>3
  <2>3. q = k \/ q \in 1 .. n
    BY <1>1, <1>6
  <2> QED
    BY <2>1, <2>2, <2>3
<1>15. Append(a, e) = b
  BY <1>9, <1>13, <1>14, SamePath
<1> QED
  BY <1>2, <1>6, <1>8, <1>12, <1>15

\* The declaration in turn is at the end of the path of its rescues.
LEMMA DeclIs ==
  ASSUME NEW i \in Nat \ {0}, tasks[i].frames \in Seq(Frame), Stacked(i, tasks[i].frames)
  PROVE  /\ Decl(i) = Address(i, tasks[i].frames, Here(tasks[i].frames))
         /\ Here(tasks[i].frames) \in 1 .. Len(tasks[i].frames) + 1
         /\ Topmost(tasks[i].frames) => Decl(i) = <<i>>
<1> DEFINE fr == tasks[i].frames
           n == Len(fr)
<1>1. n \in Nat /\ (fr # <<>> => n \in 1 .. n) /\ n <= n + 1 /\ i \in Nat
  OBVIOUS
<1>2. Address(i, fr, 1) = <<i>>
  <2>1. PICK k \in Nat : k = 1
    OBVIOUS
  <2>2. k <= n + 1 /\ k > 0 /\ i \in Nat
    BY <1>1, <2>1
  <2>3. Address(i, fr, k) \in Seq(Nat) /\ Len(Address(i, fr, k)) = k /\ Address(i, fr, k)[1] = i
    BY <2>2, AddressIs
  <2> HIDE DEF fr, n
  <2> QED
    BY <2>1, <2>3, OneIsSeq, SamePath
<1>3. CASE fr = <<>>
  BY <1>1, <1>2, <1>3 DEF Decl, Main, Here
<1>4. CASE fr # <<>> /\ fr[n].next > fr[n].subs
  <2>1. Decl(i) = fr[n].parent /\ Here(fr) = n
    BY <1>4 DEF Decl, Main, Here
  <2>2. fr[n].parent = Address(i, fr, n)
    BY <1>1, <1>4 DEF Stacked
  <2>3. Topmost(fr) => n = 1
    BY <1>4 DEF Topmost
  <2> QED
    BY <1>1, <1>2, <1>4, <2>1, <2>2, <2>3
<1>5. CASE fr # <<>> /\ ~ (fr[n].next > fr[n].subs)
  <2>1. Decl(i) = Append(fr[n].parent, fr[n].next) /\ Here(fr) = n + 1
    BY <1>5 DEF Decl, Main, Here
  <2>2. fr[n].parent = Address(i, fr, n) /\ fr[n].next \in Nat
    BY <1>1, <1>5, FramesAre DEF Stacked
  <2>3. ~ Topmost(fr)
    BY <1>5 DEF Topmost
  <2>4. Append(Address(i, fr, n), fr[n].next) = Address(i, fr, n + 1)
    <3>1. fr \in Seq(Frame) /\ n \in 1 .. Len(fr)
      BY <1>1, <1>5
    <3> HIDE DEF fr, n
    <3> QED
      BY <1>1, <3>1, AddressGrows
  <2> QED
    BY <1>1, <1>5, <2>1, <2>2, <2>3, <2>4
<1> QED
  BY <1>3, <1>4, <1>5

\* What a rescue has passed is not in turn.
LEMMA PassedIsNotInTurn ==
  ASSUME NEW i \in Nat, NEW fr \in Seq(Frame), NEW h \in 1 .. Len(fr) + 1, NEW c,
         Passed(i, fr, c)
  PROVE  c # Address(i, fr, h)
<1>1. PICK m \in 1 .. Len(fr) : PassedAt(i, fr, c, m)
  BY DEF Passed
<1>2. SUFFICES ASSUME c = Address(i, fr, h) PROVE FALSE
  OBVIOUS
<1>3. Len(c) = h /\ \A q \in 1 .. h - 1 : c[q + 1] = fr[q].next
  <2>1. h \in Nat /\ h <= Len(fr) + 1
    OBVIOUS
  <2> QED
    BY <1>2, <2>1, AddressIs
<1>4. h > m /\ c[m + 1] < fr[m].next
  BY <1>1, <1>3 DEF PassedAt
<1>5. c[m + 1] = fr[m].next /\ fr[m].next \in Nat
  <2>1. m \in 1 .. h - 1
    BY <1>4
  <2> QED
    BY <1>3, <2>1, FramesAre
<1> QED
  BY <1>4, <1>5

\* A path depends on the rescues above its end.
LEMMA SameAddress ==
  ASSUME NEW i \in Nat, NEW fr \in Seq(Frame), NEW g \in Seq(Frame), NEW n \in Nat,
         \A q \in 1 .. n - 1 : fr[q].next = g[q].next
  PROVE  Address(i, fr, n) = Address(i, g, n)
<1>1. ASSUME NEW q \in 1 .. n
      PROVE  (IF q = 1 THEN i ELSE fr[q - 1].next) = (IF q = 1 THEN i ELSE g[q - 1].next)
  <2>1. CASE q = 1
    BY <2>1
  <2>2. CASE q # 1
    <3>1. q - 1 \in 1 .. n - 1
      BY <2>2
    <3>2. fr[q - 1].next = g[q - 1].next
      BY <3>1
    <3> QED
      BY <2>2, <3>2
  <2> QED
    BY <2>1, <2>2
<1> QED
  BY <1>1 DEF Address

\* A rescue is begun.
LEMMA RescueBegins ==
  ASSUME NEW i \in Nat, NEW fr \in Seq(Frame), NEW k \in Nat, NEW f \in Frame,
         Stacked(i, fr), f.parent = Address(i, fr, Len(fr) + 1)
  PROVE  /\ Append(fr, f) \in Seq(Frame) /\ Append(fr, f) # <<>>
         /\ Stacked(i, Append(fr, f))
         /\ \A c : Passed(i, fr, c) => Passed(i, Append(fr, f), c)
<1> DEFINE g == Append(fr, f)
           n == Len(fr)
<1>1. n \in Nat
  OBVIOUS
<1>2. /\ g \in Seq(Frame) /\ Len(g) = n + 1 /\ g[n + 1] = f
      /\ \A q \in 1 .. n : g[q] = fr[q]
  BY AppendProperties
<1>3. g # <<>>
  BY <1>1, <1>2
<1> HIDE DEF g
<1>4. ASSUME NEW m \in 1 .. n + 1
      PROVE  Address(i, fr, m) = Address(i, g, m)
  <2>1. m \in Nat /\ \A q \in 1 .. m - 1 : q \in 1 .. n
    BY <1>1
  <2>2. \A q \in 1 .. m - 1 : fr[q].next = g[q].next
    BY <1>2, <2>1
  <2> QED
    BY <1>2, <2>1, <2>2, SameAddress
<1>5. ASSUME NEW m \in 1 .. n + 1
      PROVE  g[m].parent = Address(i, g, m)
  <2>1. CASE m = n + 1
    BY <1>2, <1>4, <2>1
  <2>2. CASE m \in 1 .. n
    <3>1. g[m].parent = fr[m].parent
      BY <1>2, <2>2
    <3>2. fr[m].parent = Address(i, fr, m)
      BY <2>2 DEF Stacked
    <3> QED
      BY <1>4, <3>1, <3>2
  <2>3. m = n + 1 \/ m \in 1 .. n
    BY <1>1
  <2> QED
    BY <2>1, <2>2, <2>3
<1>6. Stacked(i, g)
  BY <1>2, <1>5 DEF Stacked
<1>7. ASSUME NEW c, NEW m \in 1 .. n, PassedAt(i, fr, c, m)
      PROVE  PassedAt(i, g, c, m)
  <2>1. \A q \in 1 .. m - 1 : q \in 1 .. n
    BY <1>1
  <2> QED
    BY <1>2, <1>7, <2>1 DEF PassedAt
<1>8. \A m \in 1 .. n : m \in 1 .. Len(g)
  BY <1>1, <1>2
<1>9. \A c : Passed(i, fr, c) => Passed(i, g, c)
  BY <1>7, <1>8 DEF Passed
<1> QED
  BY <1>2, <1>3, <1>6, <1>9 DEF g

\* The rescues after the declaration in turn was proved, as Advanced has it.
Moved(fr) ==
  LET n == Len(fr)
      outer == IF fr[n].next > fr[n].subs THEN SubSeq(fr, 1, n - 1) ELSE fr
  IN [outer EXCEPT ![Len(outer)].next = @ + 1]

LEMMA MovedIs ==
  ASSUME NEW fr \in Seq(Frame), ~ Topmost(fr)
  PROVE  \E p \in 1 .. Len(fr) :
           /\ Moved(fr) \in Seq(Frame) /\ Len(Moved(fr)) = p /\ Here(fr) = p + 1
           /\ Len(fr) <= p + 1
           /\ \A q \in 1 .. p - 1 : Moved(fr)[q] = fr[q]
           /\ Moved(fr)[p].parent = fr[p].parent /\ Moved(fr)[p].next = fr[p].next + 1
<1> DEFINE n == Len(fr)
           done == fr[n].next > fr[n].subs
           outer == IF done THEN SubSeq(fr, 1, n - 1) ELSE fr
<1>1. n \in Nat /\ n >= 1 /\ fr # <<>> /\ (done => n # 1)
  <2>1. fr # <<>> /\ (done => n # 1)
    BY DEF Topmost
  <2> QED
    BY <2>1
<1>2. PICK p \in 1 .. n : p = (IF done THEN n - 1 ELSE n)
  <2>1. CASE done
    <3>1. n # 1
      BY <1>1, <2>1, Zenon
    <3>2. PICK k \in Nat : k = n
      BY <1>1
    <3>3. k >= 1 /\ k # 1
      BY <1>1, <3>1, <3>2
    <3>4. k - 1 \in 1 .. k
      BY <3>3
    <3>5. n - 1 \in 1 .. n
      BY <3>2, <3>4
    <3> QED
      BY <2>1, <3>5
  <2>2. CASE ~ done
    <3>1. n \in 1 .. n
      BY <1>1
    <3> QED
      BY <2>2, <3>1
  <2> QED
    BY <2>1, <2>2
<1>3. outer \in Seq(Frame) /\ Len(outer) = p /\ \A q \in 1 .. p : outer[q] = fr[q]
  <2>1. CASE done
    BY <1>1, <1>2, <2>1, SubSeqProperties
  <2>2. CASE ~ done
    BY <1>1, <1>2, <2>2
  <2> QED
    BY <2>1, <2>2
<1>4. Here(fr) = p + 1 /\ n <= p + 1
  BY <1>1, <1>2 DEF Here
<1>5. Moved(fr) = [outer EXCEPT ![p] = [outer[p] EXCEPT !.next = @ + 1]]
  BY <1>3 DEF Moved
<1> HIDE DEF outer
<1>6. PICK f \in Frame : /\ f = [outer[p] EXCEPT !.next = @ + 1]
                         /\ f.parent = fr[p].parent /\ f.next = fr[p].next + 1
  <2>1. PICK h \in Frame : h = fr[p]
    OBVIOUS
  <2>2. outer[p] = h
    BY <1>2, <1>3, <2>1
  <2>3. [h EXCEPT !.next = @ + 1] \in Frame
        /\ [h EXCEPT !.next = @ + 1].parent = h.parent
        /\ [h EXCEPT !.next = @ + 1].next = h.next + 1
    <3>1. PICK a \in Seq(Nat), b \in Nat, e \in Nat :
            h = [parent |-> a, subs |-> b, next |-> e]
      BY DEF Frame
    <3>2. PICK d \in Nat : d = e + 1
      OBVIOUS
    <3>3. [h EXCEPT !.next = @ + 1] = [parent |-> a, subs |-> b, next |-> d]
      BY <3>1, <3>2
    <3> QED
      BY <3>1, <3>2, <3>3 DEF Frame
  <2> QED
    BY <2>1, <2>2, <2>3
<1>7. Moved(fr) = [outer EXCEPT ![p] = f]
  BY <1>5, <1>6
<1>8. /\ [outer EXCEPT ![p] = f] \in Seq(Frame) /\ Len([outer EXCEPT ![p] = f]) = Len(outer)
      /\ \A q \in 1 .. Len(outer) : [outer EXCEPT ![p] = f][q] = IF q = p THEN f ELSE outer[q]
  <2>1. p \in 1 .. Len(outer)
    BY <1>2, <1>3
  <2> QED
    BY <1>3, <2>1, ExceptSeq
<1>9. \A q \in 1 .. p - 1 : q \in 1 .. p /\ q # p
  BY <1>1
<1>10. \A q \in 1 .. p - 1 : Moved(fr)[q] = fr[q]
  BY <1>3, <1>7, <1>8, <1>9
<1>11. Moved(fr)[p] = f
  BY <1>2, <1>3, <1>7, <1>8
<1> QED
  BY <1>2, <1>3, <1>4, <1>6, <1>7, <1>8, <1>10, <1>11

\* The next declaration of a rescue, after the one in turn was proved.
LEMMA RescueMovesOn ==
  ASSUME NEW i \in Nat, NEW fr \in Seq(Frame), Stacked(i, fr), ~ Topmost(fr)
  PROVE  /\ Moved(fr) \in Seq(Frame) /\ Moved(fr) # <<>> /\ Stacked(i, Moved(fr))
         /\ \A c \in Seq(Nat) : Passed(i, fr, c) => Passed(i, Moved(fr), c)
         /\ Passed(i, Moved(fr), Address(i, fr, Here(fr)))
<1> DEFINE n == Len(fr)
<1>1. PICK p \in 1 .. n, g \in Seq(Frame) :
        /\ g = Moved(fr) /\ Len(g) = p /\ Here(fr) = p + 1 /\ n <= p + 1
        /\ \A q \in 1 .. p - 1 : g[q] = fr[q]
        /\ g[p].parent = fr[p].parent /\ g[p].next = fr[p].next + 1
  BY MovedIs
<1>2. n \in Nat /\ p \in Nat /\ p >= 1 /\ p <= n
  OBVIOUS
<1>3. g # <<>>
  BY <1>1, <1>2
<1>4. ASSUME NEW m \in 1 .. p
      PROVE  g[m].parent = Address(i, g, m)
  <2>1. m \in Nat /\ m \in 1 .. n /\ \A q \in 1 .. m - 1 : q \in 1 .. p - 1
    BY <1>2
  <2>2. \A q \in 1 .. m - 1 : fr[q].next = g[q].next
    BY <1>1, <2>1
  <2>3. Address(i, fr, m) = Address(i, g, m)
    BY <2>1, <2>2, SameAddress
  <2>4. fr[m].parent = Address(i, fr, m)
    BY <2>1 DEF Stacked
  <2>5. CASE m = p
    BY <1>1, <2>3, <2>4, <2>5
  <2>6. CASE m \in 1 .. p - 1
    BY <1>1, <2>3, <2>4, <2>6
  <2>7. m = p \/ m \in 1 .. p - 1
    BY <1>2
  <2> QED
    BY <2>5, <2>6, <2>7
<1>5. Stacked(i, g)
  BY <1>1, <1>4 DEF Stacked
<1>6. \A m \in 1 .. n : fr[m].next \in Nat
  BY FramesAre
<1>7. ASSUME NEW c \in Seq(Nat), NEW m \in 1 .. n, PassedAt(i, fr, c, m)
      PROVE  \E k \in 1 .. p : PassedAt(i, g, c, k)
  <2>1. Len(c) > m /\ c[1] = i /\ c[m + 1] < fr[m].next
        /\ \A q \in 1 .. m - 1 : c[q + 1] = fr[q].next
    BY <1>7 DEF PassedAt
  <2>2. CASE m \in 1 .. p - 1
    <3>1. \A q \in 1 .. m - 1 : q \in 1 .. p - 1
      BY <1>2, <2>2
    <3>2. \A q \in 1 .. m - 1 : c[q + 1] = g[q].next
      BY <1>1, <2>1, <3>1
    <3>3. c[m + 1] < g[m].next
      BY <1>1, <2>1, <2>2
    <3>4. m \in 1 .. p
      BY <1>2, <2>2
    <3> QED
      BY <2>1, <3>2, <3>3, <3>4 DEF PassedAt
  <2>3. CASE m = p
    <3>1. \A q \in 1 .. p - 1 : c[q + 1] = g[q].next
      BY <1>1, <2>1, <2>3
    <3>2. p + 1 \in 1 .. Len(c)
      BY <1>2, <2>1, <2>3
    <3>3. c[p + 1] \in Nat /\ fr[p].next \in Nat /\ c[p + 1] < fr[p].next
      BY <1>6, <2>1, <2>3, <3>2
    <3>4. c[p + 1] < g[p].next
      BY <1>1, <3>3
    <3>5. p \in 1 .. p
      BY <1>2
    <3> QED
      BY <2>1, <2>3, <3>1, <3>4, <3>5 DEF PassedAt
  <2>4. CASE m = p + 1
    <3>1. \A q \in 1 .. p - 1 : q \in 1 .. m - 1
      BY <1>2, <2>4
    <3>2. \A q \in 1 .. p - 1 : c[q + 1] = g[q].next
      BY <1>1, <2>1, <3>1
    <3>3. p \in 1 .. m - 1 /\ p \in 1 .. p /\ Len(c) > p
      BY <1>2, <2>1, <2>4
    <3>4. c[p + 1] = fr[p].next
      BY <2>1, <3>3
    <3>5. fr[p].next < fr[p].next + 1
      BY <1>6
    <3>6. c[p + 1] < g[p].next
      BY <1>1, <3>4, <3>5
    <3> QED
      BY <2>1, <3>2, <3>3, <3>6 DEF PassedAt
  <2>5. m \in 1 .. p - 1 \/ m = p \/ m = p + 1
    BY <1>1, <1>2
  <2> QED
    BY <2>2, <2>3, <2>4, <2>5
<1>8. \A c \in Seq(Nat) : Passed(i, fr, c) => Passed(i, g, c)
  BY <1>1, <1>7 DEF Passed
<1>9. Passed(i, g, Address(i, fr, Here(fr)))
  <2>1. PICK k \in Nat : k = p + 1
    BY <1>2
  <2>2. k <= Len(fr) + 1 /\ k > 0 /\ k > p /\ p \in 1 .. k - 1
    BY <1>2, <2>1
  <2>3. PICK a \in Seq(Nat) : a = Address(i, fr, k)
    BY <2>2, AddressIs
  <2>4. Len(a) = k
    BY <2>2, <2>3, AddressIs
  <2>5. a[1] = i
    BY <2>2, <2>3, AddressIs
  <2>6. \A q \in 1 .. k - 1 : a[q + 1] = fr[q].next
    BY <2>2, <2>3, AddressIs
  <2>7. \A q \in 1 .. p - 1 : q \in 1 .. k - 1
    BY <1>2, <2>1
  <2>8. \A q \in 1 .. p - 1 : a[q + 1] = g[q].next
    BY <1>1, <2>6, <2>7
  <2>9. a[p + 1] = fr[p].next
    BY <2>2, <2>6
  <2>10. a[p + 1] < g[p].next
    BY <1>1, <1>6, <2>9
  <2>11. PassedAt(i, g, a, p)
    BY <2>2, <2>4, <2>5, <2>8, <2>10 DEF PassedAt
  <2> QED
    BY <1>1, <1>2, <2>1, <2>3, <2>11 DEF Passed
<1> QED
  BY <1>1, <1>3, <1>5, <1>8, <1>9

-----------------------------------------------------------------------------
(* The steps of a task *)

LEMMA DeclarationsAre ==
  ASSUME NEW codes \in Seq(Declaration), NEW k \in 1 .. Len(codes)
  PROVE  /\ codes[k] \in Declaration /\ codes[k].name \in Seq(Nat)
         /\ codes[k].uses \in SUBSET Seq(Nat)
<1>1. codes[k] \in Declaration
  OBVIOUS
<1> QED
  BY <1>1 DEF Declaration

LEMMA DeclaredAre ==
  ASSUME NEW codes \in Seq(Declaration)
  PROVE  /\ Declared(codes) \in SUBSET Seq(Nat)
         /\ Declared(codes) = {codes[k].name : k \in 1 .. Len(codes)}
<1>1. DOMAIN codes = 1 .. Len(codes)
  OBVIOUS
<1>2. \A k \in 1 .. Len(codes) : codes[k].name \in Seq(Nat)
  BY DeclarationsAre
<1> QED
  BY <1>1, <1>2 DEF Declared

\* A task, field by field.
LEMMA TaskIs ==
  ASSUME NEW t \in Task
  PROVE  \E s \in TaskSteps, n \in Nat, r \in Nat, fr \in Seq(Frame), c \in Seq(Declaration) :
           t = [step |-> s, tries |-> n, routes |-> r, frames |-> fr, codes |-> c]
  BY DEF Task

LEMMA TaskMakes ==
  ASSUME NEW s \in TaskSteps, NEW n \in Nat, NEW r \in Nat, NEW fr \in Seq(Frame),
         NEW c \in Seq(Declaration), NEW t,
         t = [step |-> s, tries |-> n, routes |-> r, frames |-> fr, codes |-> c]
  PROVE  /\ t \in Task /\ t.step = s /\ t.tries = n /\ t.routes = r
         /\ t.frames = fr /\ t.codes = c
  BY DEF Task

\* An edit that leaves the rescues and the proved declarations alone.
Resembles(u, t) == u \in Task /\ u.frames = t.frames /\ u.codes = t.codes

\* A block is extended by a new declaration that uses what stands before it.
LEMMA ChainedAppend ==
  ASSUME NEW codes \in Seq(Declaration), NEW known, NEW d \in Declaration,
         Chained(codes, known), d.uses \in SUBSET (known \union Declared(codes)),
         d.name \notin Declared(codes)
  PROVE  Append(codes, d) \in Seq(Declaration) /\ Chained(Append(codes, d), known)
<1> DEFINE n == Len(codes)
           b == Append(codes, d)
<1>1. n \in Nat
  OBVIOUS
<1>2. /\ b \in Seq(Declaration) /\ Len(b) = n + 1 /\ b[n + 1] = d
      /\ \A q \in 1 .. n : b[q] = codes[q]
  BY AppendProperties
<1>3. Declared(codes) = {codes[k].name : k \in 1 .. n}
  BY DeclaredAre
<1> HIDE DEF b
<1>4. ASSUME NEW k \in 1 .. n + 1
      PROVE  NamesBefore(b, k) = NamesBefore(codes, k)
  <2>1. \A j \in 1 .. k - 1 : j \in 1 .. n
    BY <1>1
  <2>2. \A j \in 1 .. k - 1 : b[j].name = codes[j].name
    BY <1>2, <2>1
  <2> QED
    BY <2>2 DEF NamesBefore
<1>5. NamesBefore(codes, n + 1) = Declared(codes)
  <2>1. (n + 1) - 1 = n
    BY <1>1
  <2> QED
    BY <1>3, <2>1 DEF NamesBefore
<1>6. ASSUME NEW k \in 1 .. n + 1
      PROVE  /\ b[k].uses \subseteq known \union NamesBefore(b, k)
             /\ b[k].name \notin NamesBefore(b, k)
  <2>1. CASE k = n + 1
    BY <1>2, <1>4, <1>5, <2>1
  <2>2. CASE k \in 1 .. n
    <3>1. b[k] = codes[k] /\ NamesBefore(b, k) = NamesBefore(codes, k)
      BY <1>2, <1>4, <2>2
    <3> QED
      BY <2>2, <3>1 DEF Chained
  <2>3. k = n + 1 \/ k \in 1 .. n
    BY <1>1
  <2> QED
    BY <2>1, <2>2, <2>3
<1>7. Chained(b, known)
  BY <1>2, <1>6 DEF Chained
<1> QED
  BY <1>2, <1>7 DEF b

\* The declaration in turn is the lemma's own, and is not proved yet.
LEMMA InTurnIsNew ==
  ASSUME NEW i \in Nat \ {0}, NEW known, TaskFits(i, tasks[i], known)
  PROVE  /\ Decl(i) \in Seq(Nat) /\ Len(Decl(i)) >= 1 /\ Decl(i)[1] = i
         /\ Decl(i) \notin Declared(tasks[i].codes)
         /\ Topmost(tasks[i].frames) => Decl(i) = <<i>>
<1>1. tasks[i].frames \in Seq(Frame) /\ tasks[i].codes \in Seq(Declaration)
      /\ Stacked(i, tasks[i].frames)
  BY DEF TaskFits, Task
<1>2. PICK fr \in Seq(Frame) : fr = tasks[i].frames
  BY <1>1
<1>3. PICK codes \in Seq(Declaration) : codes = tasks[i].codes
  BY <1>1
<1>4. PICK h \in 1 .. Len(fr) + 1 : h = Here(fr) /\ Decl(i) = Address(i, fr, h)
  BY <1>1, <1>2, DeclIs
<1>5. Topmost(fr) => Decl(i) = <<i>>
  BY <1>1, <1>2, DeclIs
<1>6. h \in Nat /\ h <= Len(fr) + 1 /\ h > 0 /\ i \in Nat
  OBVIOUS
<1>7. Decl(i) \in Seq(Nat)
  BY <1>4, <1>6, AddressIs
<1>8. Len(Decl(i)) >= 1
  BY <1>4, <1>6, AddressIs
<1>9. Decl(i)[1] = i
  BY <1>4, <1>6, AddressIs
<1>10. ASSUME NEW k \in 1 .. Len(codes)
       PROVE  codes[k].name # Decl(i)
  <2>1. Passed(i, fr, codes[k].name)
    BY <1>2, <1>3 DEF TaskFits
  <2> QED
    BY <1>4, <1>6, <2>1, PassedIsNotInTurn
<1>11. Decl(i) \notin Declared(codes)
  BY <1>10, DeclaredAre
<1> QED
  BY <1>2, <1>3, <1>5, <1>7, <1>8, <1>9, <1>11

\* A step that leaves the rescues and the proved declarations alone.
LEMMA StepFits ==
  ASSUME NEW i, NEW t, NEW u, NEW known, TaskFits(i, t, known), Resembles(u, t),
         u.step = "decomposing" => InTurn(t.frames),
         u.step = "proved" => Topmost(t.frames)
  PROVE  TaskFits(i, u, known)
  BY DEF TaskFits, Resembles

LEMMA CodeIs ==
  ASSUME NEW i \in Nat \ {0}, verified \in Seq(Declaration),
         TaskFits(i, tasks[i], Declared(verified))
  PROVE  /\ Code(i) \in Declaration /\ Code(i).name = Decl(i)
         /\ Code(i).uses = Declared(verified) \union Declared(tasks[i].codes)
<1>1. tasks[i].codes \in Seq(Declaration)
  BY DEF TaskFits, Task
<1>2. Declared(verified) \in SUBSET Seq(Nat) /\ Declared(tasks[i].codes) \in SUBSET Seq(Nat)
  BY <1>1, DeclaredAre
<1>3. Context(i) = Declared(verified) \union Declared(tasks[i].codes)
      /\ Context(i) \in SUBSET Seq(Nat)
  BY <1>2 DEF Context
<1>4. Decl(i) \in Seq(Nat)
  BY InTurnIsNew
<1> QED
  BY <1>3, <1>4 DEF Code, Declaration

LEMMA AdvancedFits ==
  ASSUME NEW i \in Nat \ {0}, verified \in Seq(Declaration),
         TaskFits(i, tasks[i], Declared(verified)), ~ Outermost(i)
  PROVE  /\ TaskFits(i, Advanced(i), Declared(verified))
         /\ Advanced(i).step = "asking" /\ Advanced(i).frames # <<>>
<1>1. tasks[i] \in Task /\ Stacked(i, tasks[i].frames)
  BY DEF TaskFits
<1>2. PICK fr \in Seq(Frame), codes \in Seq(Declaration), d \in Declaration :
        /\ fr = tasks[i].frames /\ codes = tasks[i].codes /\ d = Code(i)
  BY <1>1, CodeIs DEF Task
<1>3. ~ Topmost(fr)
  BY <1>2 DEF Outermost, Topmost
<1>4. d.name = Decl(i) /\ d.uses = Declared(verified) \union Declared(codes)
  BY <1>2, CodeIs
<1>5. d.name \notin Declared(codes)
  BY <1>2, <1>4, InTurnIsNew
<1>6. Chained(codes, Declared(verified))
  BY <1>2 DEF TaskFits
<1>7. Append(codes, d) \in Seq(Declaration) /\ Chained(Append(codes, d), Declared(verified))
  BY <1>4, <1>5, <1>6, ChainedAppend
<1>8. /\ Moved(fr) \in Seq(Frame) /\ Moved(fr) # <<>> /\ Stacked(i, Moved(fr))
      /\ \A c \in Seq(Nat) : Passed(i, fr, c) => Passed(i, Moved(fr), c)
      /\ Passed(i, Moved(fr), Address(i, fr, Here(fr)))
  BY <1>1, <1>2, <1>3, RescueMovesOn
<1>9. PICK g \in Seq(Frame), b \in Seq(Declaration) : g = Moved(fr) /\ b = Append(codes, d)
  BY <1>7, <1>8
<1>10. Advanced(i) = [tasks[i] EXCEPT !.step = "asking", !.tries = 0, !.routes = 0,
                                      !.codes = b, !.frames = g]
  BY <1>2, <1>9 DEF Advanced, Moved
<1>11. /\ Advanced(i) \in Task /\ Advanced(i).step = "asking"
       /\ Advanced(i).frames = g /\ Advanced(i).codes = b
  <2>1. PICK s \in TaskSteps, n \in Nat, r \in Nat, fs \in Seq(Frame),
             cs \in Seq(Declaration) :
          tasks[i] = [step |-> s, tries |-> n, routes |-> r, frames |-> fs, codes |-> cs]
    BY <1>1, TaskIs
  <2>2. Advanced(i) = [step |-> "asking", tries |-> 0, routes |-> 0, frames |-> g, codes |-> b]
    BY <1>10, <2>1
  <2>3. "asking" \in TaskSteps /\ 0 \in Nat
    BY DEF TaskSteps
  <2> QED
    BY <2>2, <2>3, TaskMakes
<1>12. ASSUME NEW k \in 1 .. Len(b)
       PROVE  Passed(i, g, b[k].name)
  <2>1. Len(codes) \in Nat /\ Len(b) = Len(codes) + 1 /\ b[Len(codes) + 1] = d
        /\ \A q \in 1 .. Len(codes) : b[q] = codes[q]
    BY <1>9, AppendProperties
  <2>2. CASE k = Len(codes) + 1
    <3>1. d.name = Address(i, fr, Here(fr))
      BY <1>1, <1>2, <1>4, DeclIs
    <3> QED
      BY <1>8, <1>9, <2>1, <2>2, <3>1
  <2>3. CASE k \in 1 .. Len(codes)
    <3>1. Passed(i, fr, codes[k].name) /\ codes[k].name \in Seq(Nat)
      BY <1>2, <2>3, DeclarationsAre DEF TaskFits
    <3> QED
      BY <1>8, <1>9, <2>1, <2>3, <3>1
  <2>4. k = Len(codes) + 1 \/ k \in 1 .. Len(codes)
    BY <2>1
  <2> QED
    BY <2>2, <2>3, <2>4
<1>13. TaskFits(i, Advanced(i), Declared(verified))
  BY <1>7, <1>8, <1>9, <1>11, <1>12 DEF TaskFits
<1> QED
  BY <1>8, <1>9, <1>11, <1>13

\* The task when a decomposition was found.
Decomposed(i, n) ==
  [tasks[i] EXCEPT !.step = "asking", !.tries = 0,
                   !.frames = Append(@, [parent |-> Decl(i), subs |-> n, next |-> 1])]
LEMMA DecomposedFits ==
  ASSUME NEW i \in Nat \ {0}, NEW known, TaskFits(i, tasks[i], known),
         tasks[i].step = "decomposing", NEW n \in Nat
  PROVE  /\ TaskFits(i, Decomposed(i, n), known)
         /\ Decomposed(i, n).step = "asking" /\ Decomposed(i, n).frames # <<>>
<1>1. tasks[i] \in Task /\ Stacked(i, tasks[i].frames) /\ InTurn(tasks[i].frames)
  BY DEF TaskFits
<1>2. PICK fr \in Seq(Frame), codes \in Seq(Declaration), d \in Seq(Nat) :
        /\ fr = tasks[i].frames /\ codes = tasks[i].codes /\ d = Decl(i)
  BY <1>1, InTurnIsNew DEF Task
<1>3. d = Address(i, fr, Len(fr) + 1)
  <2>1. Here(fr) = Len(fr) + 1
    <3>1. CASE fr = <<>>
      BY <3>1 DEF Here
    <3>2. CASE fr # <<>>
      <4>1. Len(fr) \in 1 .. Len(fr)
        BY <3>2
      <4>2. fr[Len(fr)].next \in Nat /\ fr[Len(fr)].subs \in Nat
        BY <4>1, FramesAre
      <4> QED
        BY <1>1, <1>2, <3>2, <4>2 DEF Here, InTurn
    <3> QED
      BY <3>1, <3>2
  <2> QED
    BY <1>1, <1>2, <2>1, DeclIs
<1>4. PICK f \in Frame : f = [parent |-> d, subs |-> n, next |-> 1]
  BY DEF Frame
<1>5. f.parent = d
  BY <1>4
<1>6. /\ Append(fr, f) \in Seq(Frame) /\ Append(fr, f) # <<>>
      /\ Stacked(i, Append(fr, f))
      /\ \A c : Passed(i, fr, c) => Passed(i, Append(fr, f), c)
  BY <1>1, <1>2, <1>3, <1>5, RescueBegins
<1>7. PICK g \in Seq(Frame) : g = Append(fr, f)
  BY <1>6
<1>8. Decomposed(i, n) = [tasks[i] EXCEPT !.step = "asking", !.tries = 0, !.frames = g]
  BY <1>2, <1>4, <1>7 DEF Decomposed
<1>9. /\ Decomposed(i, n) \in Task /\ Decomposed(i, n).step = "asking"
      /\ Decomposed(i, n).frames = g /\ Decomposed(i, n).codes = codes
  <2>1. PICK t \in Task : t = tasks[i] /\ t.codes = codes
    BY <1>1, <1>2
  <2>2. PICK s \in TaskSteps, z \in Nat : s = "asking" /\ z = 0
    BY DEF TaskSteps
  <2>3. PICK u : u = [t EXCEPT !.step = s, !.tries = z, !.frames = g]
    OBVIOUS
  <2>4. Decomposed(i, n) = u
    BY <1>8, <2>1, <2>2, <2>3
  <2>5. u \in Task /\ u.step = s /\ u.frames = g /\ u.codes = t.codes
    BY <2>3 DEF Task
  <2> QED
    BY <2>1, <2>2, <2>4, <2>5
<1>10. \A k \in 1 .. Len(codes) : Passed(i, g, codes[k].name)
  BY <1>2, <1>6, <1>7 DEF TaskFits
<1>11. Chained(codes, known)
  BY <1>2 DEF TaskFits
<1> QED
  BY <1>6, <1>7, <1>9, <1>10, <1>11 DEF TaskFits

-----------------------------------------------------------------------------
(* One task moves *)

LEMMA SamePlan ==
  ASSUME plan' = plan
  PROVE  /\ Lemmas' = Lemmas /\ (Schedulable' <=> Schedulable)
         /\ \A i : LevelOf(i)' = LevelOf(i)
<1>1. Lemmas' = Lemmas /\ (Schedulable' <=> Schedulable)
  BY DEF Lemmas, Schedulable
<1>2. Depth' = Depth
  BY DEF Depth, Lemmas
<1>3. \A i : LevelOf(i)' = LevelOf(i)
  BY <1>1, <1>2 DEF LevelOf
<1> QED
  BY <1>1, <1>3

LEMMA SameLevel ==
  ASSUME plan' = plan, level' = level
  PROVE  Level' = Level
  BY SamePlan DEF Level

LEMMA SameFile ==
  ASSUME plan' = plan, verified' = verified, FileIsOrdered
  PROVE  FileIsOrdered'
  BY SamePlan DEF FileIsOrdered

LEMMA SameEarlier ==
  ASSUME plan' = plan, level' = level, verified' = verified, Earlier
  PROVE  Earlier'
<1>1. Declared(verified') = Declared(verified)
  BY DEF Declared
<1>2. Lemmas' = Lemmas /\ (Schedulable' <=> Schedulable)
  BY SamePlan
<1>3. \A i : LevelOf(i)' = LevelOf(i)
  BY SamePlan
<1> QED
  BY <1>1, <1>2, <1>3 DEF Earlier

\* Of whom the declaration that failed last is, after a step that makes u the task of i.
BlameMoves(i, u) ==
  \/ /\ failure' = FailureOf(Decl(i))
     /\ u.step \in {"failed", "decomposing"} /\ u.codes = tasks[i].codes
  \/ failure' = failure /\ u.step \in {"asking", "checking", "repairing"}
  \/ /\ failure' = failure /\ tasks[i].step = "checking" /\ u.step = "proved"
     /\ u.frames = tasks[i].frames
  \/ /\ failure' = failure /\ tasks[i].step = "decomposing" /\ u.step = "failed"
     /\ u.codes = tasks[i].codes

\* What a step that makes u the task of i must not do.
BlameAllows(u) ==
  /\ phase = "level" => u.frames = <<>> /\ u.step # "decomposing"
  /\ phase = "rescue" /\ u.step \in {"queued", "asking", "checking", "repairing"} =>
       u.frames # <<>>

LEMMA BlameFollows ==
  ASSUME DOMAIN tasks = Lemmas \union {Main},
         LevelInv, phase \in {"level", "rescue"}, NEW i \in Level, i \in Nat \ {0}, NEW u, ~ Idle(i),
         tasks' = [tasks EXCEPT ![i] = u], UNCHANGED <<plan, phase, level, verified>>,
         BlameMoves(i, u), BlameAllows(u)
  PROVE  Blame'
<1>1. Level' = Level /\ i \in DOMAIN tasks
  BY SameLevel DEF Level, Lemmas
<1>2. tasks'[i] = u /\ \A j \in Level \ {i} : tasks'[j] = tasks[j]
  BY <1>1 DEF Level
<1>3. Blame /\ tasks[i].step # "failed"
  BY DEF LevelInv, Idle, Busy
<1>4. PICK d : /\ d = Decl(i) /\ d \in Seq(Nat) /\ Len(d) >= 1 /\ d[1] = i
               /\ d \notin Declared(tasks[i].codes)
               /\ Topmost(tasks[i].frames) => d = <<i>>
  BY InTurnIsNew DEF LevelInv
<1>5. CASE phase = "level"
  <2>1. \A j \in Level : tasks[j].frames = <<>> /\ tasks[j].step # "decomposing"
    BY <1>3, <1>5 DEF Blame
  <2>2. \A j \in Level : tasks'[j].frames = <<>> /\ tasks'[j].step # "decomposing"
    BY <1>2, <1>5, <2>1 DEF BlameAllows
  <2>3. ASSUME Failed' # {}
        PROVE  \E j \in Failed' : failure' = FailureOf(<<j>>)
    <3>1. CASE failure' = FailureOf(Decl(i)) /\ u.step \in {"failed", "decomposing"}
      <4>1. u.step = "failed" /\ Topmost(tasks[i].frames)
        BY <1>2, <2>1, <2>2, <3>1 DEF Topmost
      <4>2. i \in Failed'
        BY <1>1, <1>2, <4>1 DEF Failed
      <4> QED
        BY <1>4, <3>1, <4>1, <4>2
    <3>2. CASE failure' = failure /\ u.step # "failed"
      <4>1. Failed' = Failed
        BY <1>1, <1>2, <1>3, <3>2 DEF Failed
      <4> QED
        BY <1>3, <1>5, <2>3, <3>2, <4>1 DEF Blame
    <3>3. tasks[i].step # "decomposing"
      BY <2>1
    <3> QED
      BY <3>1, <3>2, <3>3 DEF BlameMoves
  <2> QED
    BY <1>1, <1>5, <2>2, <2>3 DEF Blame
<1>6. CASE phase = "rescue"
  <2>1. \A j \in Level : tasks[j].step \in {"queued", "asking", "checking", "repairing"} =>
                           tasks[j].frames # <<>>
    BY <1>3, <1>6 DEF Blame
  <2>2. \A j \in Level : tasks'[j].step \in {"queued", "asking", "checking", "repairing"} =>
                           tasks'[j].frames # <<>>
    BY <1>2, <1>6, <2>1 DEF BlameAllows
  <2>3. PICK j \in Level, e \in {failure.lemma} : failure = FailureOf(e) /\ Blamed(j, e)
    BY <1>3, <1>6 DEF Blame
  <2>4. ASSUME failure' = failure, j # i \/ Blamed(j, e)'
        PROVE  \E k \in Level, c \in {failure'.lemma} : failure' = FailureOf(c) /\ Blamed(k, c)'
    <3>1. CASE j = i
      BY <2>3, <2>4, <3>1
    <3>2. CASE j # i
      <4>1. Blamed(j, e)'
        BY <1>2, <2>3, <3>2 DEF Blamed, Declared
      <4> QED
        BY <2>3, <2>4, <4>1
    <3> QED
      BY <3>1, <3>2
  <2>5. ASSUME j = i, failure' = failure
        PROVE  Blamed(j, e)'
    <3>1. e \in Seq(Nat) /\ Len(e) >= 1 /\ e[1] = i
          /\ (tasks[i].step \in {"failed", "decomposing"} => e \notin Declared(tasks[i].codes))
      BY <2>3, <2>5 DEF Blamed
    <3>2. CASE u.step \in {"asking", "checking", "repairing"}
      BY <1>2, <2>5, <3>1, <3>2 DEF Blamed
    <3>3. CASE tasks[i].step = "checking" /\ u.step = "proved" /\ u.frames = tasks[i].frames
      BY <1>2, <2>1, <2>5, <3>1, <3>3 DEF Blamed
    <3>4. CASE tasks[i].step = "decomposing" /\ u.step = "failed" /\ u.codes = tasks[i].codes
      BY <1>2, <2>5, <3>1, <3>4 DEF Blamed, Declared
    <3>5. CASE u.step \in {"failed", "decomposing"} /\ failure' = FailureOf(Decl(i))
               /\ u.codes = tasks[i].codes
      <4>1. e = d
        BY <1>4, <2>3, <2>5, <3>5 DEF FailureOf
      <4> QED
        BY <1>2, <1>4, <2>5, <3>1, <3>5, <4>1 DEF Blamed, Declared
    <3> QED
      BY <3>2, <3>3, <3>4, <3>5 DEF BlameMoves
  <2>6. CASE failure' = failure
    <3>1. \E k \in Level, c \in {failure'.lemma} : failure' = FailureOf(c) /\ Blamed(k, c)'
      BY <2>4, <2>5, <2>6
    <3> QED
      BY <1>1, <1>6, <2>2, <3>1 DEF Blame
  <2>7. CASE failure' = FailureOf(Decl(i)) /\ u.step \in {"failed", "decomposing"}
             /\ u.codes = tasks[i].codes
    <3>1. Blamed(i, d)'
      BY <1>2, <1>4, <2>7 DEF Blamed, Declared
    <3>2. failure' = FailureOf(d) /\ d \in {failure'.lemma}
      BY <1>4, <2>7 DEF FailureOf
    <3>3. \E k \in Level, c \in {failure'.lemma} : failure' = FailureOf(c) /\ Blamed(k, c)'
      BY <3>1, <3>2
    <3> QED
      BY <1>1, <1>6, <2>2, <3>3 DEF Blame
  <2> QED
    BY <2>6, <2>7 DEF BlameMoves
<1> QED
  BY <1>5, <1>6

LEMMA LemmasAre ==
  ASSUME plan \in Plans
  PROVE  Lemmas = 1 .. Len(plan) /\ Len(plan) \in Nat /\ Level \in SUBSET Lemmas
         /\ \A i \in Lemmas : i \in Nat \ {0} /\ i # Main
  BY PlansAssumption DEF Lemmas, Level, Main

\* Who may move: a lemma of the level, or the main theorem.
LEMMA MoversAre ==
  ASSUME ExecutionInv, NEW i \in DOMAIN tasks, ~ Idle(i)
  PROVE  /\ phase \in {"level", "rescue"} => i \in Level /\ i \in Nat \ {0}
         /\ phase = "main" => i = Main
<1>1. \A j \in Level : j \in Nat \ {0}
  BY LemmasAre DEF ExecutionInv
<1> QED
  BY <1>1 DEF ExecutionInv, LevelInv, MainInv

\* A step of one task during a level.
LEMMA LevelMoves ==
  ASSUME ExecutionInv, phase \in {"level", "rescue"}, NEW i \in DOMAIN tasks, ~ Idle(i), NEW u,
         tasks' = [tasks EXCEPT ![i] = u], UNCHANGED <<plan, phase, level, verified>>,
         TaskFits(i, u, Declared(verified)), BlameMoves(i, u), BlameAllows(u)
  PROVE  ExecutionInv'
<1>1. LevelInv /\ i \in Level /\ i \in Nat \ {0} /\ DOMAIN tasks = Lemmas \union {Main}
  BY MoversAre DEF ExecutionInv
<1>2. Level' = Level /\ Lemmas' = Lemmas /\ DOMAIN tasks' = DOMAIN tasks
  BY SameLevel, SamePlan
<1>3. \A j \in DOMAIN tasks \ Level : Idle(j)'
  BY <1>1, <1>2 DEF LevelInv, Idle
<1>4. Declared(verified') = Declared(verified)
  BY DEF Declared
<1>5. \A j \in Level : TaskFits(j, tasks'[j], Declared(verified'))
  <2> TAKE j \in Level
  <2>1. TaskFits(j, tasks[j], Declared(verified)) /\ j \in DOMAIN tasks
    BY <1>1 DEF LevelInv, Level
  <2>2. CASE j = i
    BY <1>4, <2>1, <2>2
  <2>3. CASE j # i
    BY <1>4, <2>1, <2>3
  <2> QED
    BY <2>2, <2>3
<1>6. Earlier'
  BY <1>1, SameEarlier DEF LevelInv
<1>7. Blame'
  BY <1>1, BlameFollows
<1>8. LevelInv'
  BY <1>2, <1>3, <1>5, <1>6, <1>7 DEF LevelInv
<1>9. FileIsOrdered'
  BY SameFile DEF ExecutionInv
<1> QED
  BY <1>1, <1>2, <1>8, <1>9 DEF ExecutionInv, Main

\* A step of the main theorem.
LEMMA MainMoves ==
  ASSUME ExecutionInv, phase = "main", NEW u, u \in Task, u.frames = <<>>,
         u.step # "decomposing", u.step = "failed" => failure' = FailureOf(<<>>),
         tasks' = [tasks EXCEPT ![Main] = u], UNCHANGED <<plan, phase, level, verified>>
  PROVE  ExecutionInv'
<1>1. MainInv /\ Main \in DOMAIN tasks
  BY DEF ExecutionInv
<1>2. DOMAIN tasks' = DOMAIN tasks /\ Lemmas' = Lemmas /\ Main' = Main
  BY SamePlan DEF Main
<1>3. \A j \in DOMAIN tasks \ {Main} : Idle(j)'
  BY <1>1 DEF MainInv, Idle
<1>4. tasks'[Main] = u
  BY <1>1
<1>5. MainInv'
  BY <1>1, <1>2, <1>3, <1>4 DEF MainInv, Declared
<1>6. FileIsOrdered'
  BY SameFile DEF ExecutionInv
<1> QED
  BY <1>2, <1>5, <1>6 DEF ExecutionInv

\* Whatever moves when a lemma has raised an exception, the file is as it was.
LEMMA RaisedMoves ==
  ASSUME ExecutionInv, phase' = "raised", DOMAIN tasks' = DOMAIN tasks,
         UNCHANGED <<plan, level, verified>>
  PROVE  ExecutionInv'
<1>1. Lemmas' = Lemmas /\ Main' = Main
  BY SamePlan DEF Main
<1>2. FileIsOrdered'
  BY SameFile DEF ExecutionInv
<1> QED
  BY <1>1, <1>2 DEF ExecutionInv, Phases

\* A step that only takes the present declaration further.
LEMMA QuietStep ==
  ASSUME ExecutionInv, Working, NEW i \in DOMAIN tasks, ~ Idle(i), NEW u,
         tasks[i].step # "decomposing", u.step \in {"asking", "checking", "repairing"},
         tasks[i] \in Task => Resembles(u, tasks[i]),
         tasks' = [tasks EXCEPT ![i] = u], UNCHANGED <<plan, phase, level, verified, failure>>
  PROVE  ExecutionInv'
<1>1. CASE phase \in {"level", "rescue"}
  <2>1. i \in Level /\ i \in Nat \ {0} /\ LevelInv
    BY <1>1, MoversAre DEF ExecutionInv
  <2>2. TaskFits(i, tasks[i], Declared(verified))
    BY <2>1 DEF LevelInv
  <2>3. Resembles(u, tasks[i])
    BY <2>2 DEF TaskFits
  <2>4. TaskFits(i, u, Declared(verified))
    BY <2>2, <2>3, StepFits DEF Resembles
  <2>5. tasks[i].step \in {"queued", "asking", "checking", "repairing"}
    BY DEF Idle, Busy
  <2>6. BlameMoves(i, u)
    BY DEF BlameMoves
  <2>7. BlameAllows(u)
    BY <2>1, <2>3, <2>5 DEF BlameAllows, LevelInv, Blame, Resembles
  <2> QED
    BY <1>1, <2>4, <2>6, <2>7, LevelMoves
<1>2. CASE phase = "main"
  <2>1. i = Main /\ MainInv
    BY <1>2, MoversAre DEF ExecutionInv
  <2>2. u \in Task /\ u.frames = <<>>
    BY <2>1 DEF MainInv, Resembles
  <2> QED
    BY <1>2, <2>1, <2>2, MainMoves
<1>3. CASE phase = "raised"
  BY <1>3, RaisedMoves
<1> QED
  BY <1>1, <1>2, <1>3 DEF Working

\* The declaration in turn is given up.
LEMMA GivenUpStep ==
  ASSUME ExecutionInv, Working, NEW i \in DOMAIN tasks, NEW last \in {"failed", "decomposing"},
         tasks[i].step \in {"checking", "repairing"}, GivenUp(i, last),
         last = "decomposing" => MayDeepen(i), UNCHANGED <<plan, phase, level, verified>>
  PROVE  ExecutionInv'
<1>1. ~ Idle(i)
  BY DEF Idle, Busy
<1>2. PICK u : u = [tasks[i] EXCEPT !.step = last, !.routes = 0]
  OBVIOUS
<1>3. tasks' = [tasks EXCEPT ![i] = u] /\ failure' = FailureOf(Decl(i))
  BY <1>2 DEF GivenUp, Set
<1>4. ASSUME tasks[i] \in Task
      PROVE  Resembles(u, tasks[i]) /\ u.step = last
  <2>1. PICK t \in Task : t = tasks[i]
    BY <1>4
  <2>2. u = [t EXCEPT !.step = last, !.routes = 0]
    BY <1>2, <2>1
  <2>3. last \in TaskSteps
    BY DEF TaskSteps
  <2>4. Resembles(u, t) /\ u.step = last
    BY <2>2, <2>3 DEF Task, Resembles
  <2> QED
    BY <2>1, <2>4
<1>5. CASE phase \in {"level", "rescue"}
  <2>1. i \in Level /\ i \in Nat \ {0} /\ LevelInv
    BY <1>1, <1>5, MoversAre DEF ExecutionInv
  <2>2. TaskFits(i, tasks[i], Declared(verified))
    BY <2>1 DEF LevelInv
  <2>3. Resembles(u, tasks[i]) /\ u.step = last
    BY <1>4, <2>2 DEF TaskFits
  <2>4. last = "decomposing" => InTurn(tasks[i].frames) /\ tasks[i].frames # <<>>
    BY DEF MayDeepen, InTurn
  <2>5. TaskFits(i, u, Declared(verified))
    BY <2>2, <2>3, <2>4, StepFits DEF Resembles
  <2>6. BlameMoves(i, u)
    BY <1>3, <2>3 DEF BlameMoves, Resembles
  <2>7. BlameAllows(u)
    BY <2>1, <2>3, <2>4 DEF BlameAllows, LevelInv, Blame, Resembles
  <2> QED
    BY <1>1, <1>3, <1>5, <2>5, <2>6, <2>7, LevelMoves
<1>6. CASE phase = "main"
  <2>1. i = Main /\ MainInv
    BY <1>1, <1>6, MoversAre DEF ExecutionInv
  <2>2. u \in Task /\ u.frames = <<>> /\ u.step = last
    BY <1>4, <2>1 DEF MainInv, Resembles
  <2>3. last # "decomposing"
    BY <2>1 DEF MainInv, MayDeepen
  <2>4. Decl(i) = <<>>
    BY <2>1 DEF Decl
  <2> QED
    BY <1>3, <1>6, <2>1, <2>2, <2>3, <2>4, MainMoves
<1>7. CASE phase = "raised"
  BY <1>3, <1>7, RaisedMoves
<1> QED
  BY <1>5, <1>6, <1>7 DEF Working

LEMMA AcquireKeeps ==
  ASSUME ExecutionInv, NEW i \in DOMAIN tasks, Acquire(i)
  PROVE  ExecutionInv'
<1>1. Working /\ tasks[i].step = "queued" /\ ~ Idle(i)
  BY DEF Acquire, Idle
<1>2. PICK u : u = [tasks[i] EXCEPT !.step = "asking"]
  OBVIOUS
<1>3. tasks' = [tasks EXCEPT ![i] = u] /\ UNCHANGED <<plan, phase, level, verified, failure>>
  BY <1>2 DEF Acquire, Set
<1>4. tasks[i] \in Task => Resembles(u, tasks[i])
  <2>1. ASSUME NEW t \in Task, u = [t EXCEPT !.step = "asking"]
        PROVE  Resembles(u, t)
    BY <2>1 DEF Task, TaskSteps, Resembles
  <2> QED
    BY <1>2, <2>1
<1>5. u.step = "asking"
  BY <1>2
<1> QED
  BY <1>1, <1>3, <1>4, <1>5, QuietStep

LEMMA SampleKeeps ==
  ASSUME ExecutionInv, NEW i \in DOMAIN tasks, Sample(i)
  PROVE  ExecutionInv'
<1>1. Working /\ tasks[i].step = "asking" /\ ~ Idle(i)
  BY DEF Sample, Idle, Busy
<1>2. PICK r \in 1 .. (IF i = Main THEN 1 ELSE MaxRoutes) :
        Set(i, [tasks[i] EXCEPT !.step = "checking", !.routes = r])
  BY DEF Sample
<1>3. r \in Nat
  OBVIOUS
<1>4. PICK u : u = [tasks[i] EXCEPT !.step = "checking", !.routes = r]
  OBVIOUS
<1>5. tasks' = [tasks EXCEPT ![i] = u] /\ UNCHANGED <<plan, phase, level, verified, failure>>
  BY <1>2, <1>4 DEF Sample, Set
<1>6. tasks[i] \in Task => Resembles(u, tasks[i])
  <2>1. ASSUME NEW t \in Task, u = [t EXCEPT !.step = "checking", !.routes = r]
        PROVE  Resembles(u, t)
    BY <1>3, <2>1 DEF Task, TaskSteps, Resembles
  <2> QED
    BY <1>4, <2>1
<1>7. u.step = "checking"
  BY <1>4
<1> QED
  BY <1>1, <1>5, <1>6, <1>7, QuietStep

LEMMA CheckFailsKeeps ==
  ASSUME ExecutionInv, NEW i \in DOMAIN tasks, CheckFails(i)
  PROVE  ExecutionInv'
<1>1. /\ Working /\ tasks[i].step = "checking" /\ ~ Idle(i)
      /\ UNCHANGED <<plan, phase, level, verified>>
  BY DEF CheckFails, Idle, Busy
<1>2. CASE tasks[i].routes > 1 /\ Set(i, [tasks[i] EXCEPT !.routes = @ - 1])
           /\ UNCHANGED failure
  <2>1. PICK u : u = [tasks[i] EXCEPT !.routes = @ - 1]
    OBVIOUS
  <2>2. tasks' = [tasks EXCEPT ![i] = u]
    BY <1>2, <2>1 DEF Set
  <2>3. tasks[i] \in Task => Resembles(u, tasks[i])
    <3>1. ASSUME NEW t \in Task, t.routes > 1, u = [t EXCEPT !.routes = @ - 1]
          PROVE  Resembles(u, t)
      <4>1. PICK r \in Nat : r = t.routes - 1
        BY <3>1 DEF Task
      <4>2. u = [t EXCEPT !.routes = r]
        BY <3>1, <4>1
      <4> QED
        BY <4>2 DEF Task, Resembles
    <3> QED
      BY <1>2, <2>1, <3>1
  <2>4. u.step = "checking"
    BY <1>1, <2>1
  <2> QED
    BY <1>1, <1>2, <2>2, <2>3, <2>4, QuietStep
<1>3. CASE Set(i, [tasks[i] EXCEPT !.step = "repairing", !.routes = 0]) /\ UNCHANGED failure
  <2>1. PICK u : u = [tasks[i] EXCEPT !.step = "repairing", !.routes = 0]
    OBVIOUS
  <2>2. tasks' = [tasks EXCEPT ![i] = u]
    BY <1>3, <2>1 DEF Set
  <2>3. tasks[i] \in Task => Resembles(u, tasks[i])
    <3>1. ASSUME NEW t \in Task, u = [t EXCEPT !.step = "repairing", !.routes = 0]
          PROVE  Resembles(u, t)
      BY <3>1 DEF Task, TaskSteps, Resembles
    <3> QED
      BY <2>1, <3>1
  <2>4. u.step = "repairing"
    BY <2>1
  <2> QED
    BY <1>1, <1>3, <2>2, <2>3, <2>4, QuietStep
<1>4. CASE GivenUp(i, "failed")
  BY <1>1, <1>4, GivenUpStep
<1>5. CASE MayDeepen(i) /\ GivenUp(i, "decomposing")
  BY <1>1, <1>5, GivenUpStep
<1> QED
  BY <1>2, <1>3, <1>4, <1>5 DEF CheckFails

LEMMA RepairKeeps ==
  ASSUME ExecutionInv, NEW i \in DOMAIN tasks, Repair(i)
  PROVE  ExecutionInv'
<1>1. /\ Working /\ tasks[i].step = "repairing" /\ ~ Idle(i)
      /\ UNCHANGED <<plan, phase, level, verified>>
  BY DEF Repair, Idle, Busy
<1>2. CASE \E r \in 1 .. (IF i = Main THEN 1 ELSE 2) :
             /\ Set(i, [tasks[i] EXCEPT !.step = "checking", !.routes = r, !.tries = @ + 1])
             /\ UNCHANGED failure
  <2>1. PICK r \in 1 .. (IF i = Main THEN 1 ELSE 2) :
          /\ Set(i, [tasks[i] EXCEPT !.step = "checking", !.routes = r, !.tries = @ + 1])
          /\ UNCHANGED failure
    BY <1>2
  <2>9. r \in Nat
    OBVIOUS
  <2>2. PICK u : u = [tasks[i] EXCEPT !.step = "checking", !.routes = r, !.tries = @ + 1]
    OBVIOUS
  <2>3. tasks' = [tasks EXCEPT ![i] = u]
    BY <2>1, <2>2 DEF Set
  <2>4. tasks[i] \in Task => Resembles(u, tasks[i])
    <3>1. ASSUME NEW t \in Task,
                 u = [t EXCEPT !.step = "checking", !.routes = r, !.tries = @ + 1]
          PROVE  Resembles(u, t)
      <4>1. PICK n \in Nat : n = t.tries + 1
        BY DEF Task
      <4>2. u = [t EXCEPT !.step = "checking", !.routes = r, !.tries = n]
        BY <3>1, <4>1
      <4> QED
        BY <2>9, <4>2 DEF Task, TaskSteps, Resembles
    <3> QED
      BY <2>2, <3>1
  <2>5. u.step = "checking"
    BY <2>2
  <2> QED
    BY <1>1, <2>1, <2>3, <2>4, <2>5, QuietStep
<1>3. CASE Set(i, [tasks[i] EXCEPT !.tries = @ + 1]) /\ UNCHANGED failure
  <2>1. PICK u : u = [tasks[i] EXCEPT !.tries = @ + 1]
    OBVIOUS
  <2>2. tasks' = [tasks EXCEPT ![i] = u]
    BY <1>3, <2>1 DEF Set
  <2>3. tasks[i] \in Task => Resembles(u, tasks[i])
    <3>1. ASSUME NEW t \in Task, u = [t EXCEPT !.tries = @ + 1]
          PROVE  Resembles(u, t)
      <4>1. PICK n \in Nat : n = t.tries + 1
        BY DEF Task
      <4>2. u = [t EXCEPT !.tries = n]
        BY <3>1, <4>1
      <4> QED
        BY <4>2 DEF Task, Resembles
    <3> QED
      BY <2>1, <3>1
  <2>4. u.step = "repairing"
    BY <1>1, <2>1
  <2> QED
    BY <1>1, <1>3, <2>2, <2>3, <2>4, QuietStep
<1>4. CASE GivenUp(i, "failed")
  BY <1>1, <1>4, GivenUpStep
<1>5. CASE MayDeepen(i) /\ GivenUp(i, "decomposing")
  BY <1>1, <1>5, GivenUpStep
<1> QED
  BY <1>2, <1>3, <1>4, <1>5 DEF Repair

LEMMA CheckPassesKeeps ==
  ASSUME ExecutionInv, NEW i \in DOMAIN tasks, CheckPasses(i)
  PROVE  ExecutionInv'
<1>1. /\ Working /\ tasks[i].step = "checking" /\ ~ Idle(i)
      /\ UNCHANGED <<plan, phase, level, verified, failure>>
  BY DEF CheckPasses, Idle, Busy
<1>2. PICK u : u = IF Outermost(i) THEN [tasks[i] EXCEPT !.step = "proved", !.routes = 0]
                   ELSE Advanced(i)
  OBVIOUS
<1>3. tasks' = [tasks EXCEPT ![i] = u]
  BY <1>2 DEF CheckPasses, Set
<1>4. ASSUME Outermost(i), tasks[i] \in Task
      PROVE  Resembles(u, tasks[i]) /\ u.step = "proved"
  <2>1. PICK t \in Task : t = tasks[i]
    BY <1>4
  <2>2. u = [t EXCEPT !.step = "proved", !.routes = 0]
    BY <1>2, <1>4, <2>1
  <2>3. Resembles(u, t) /\ u.step = "proved"
    BY <2>2 DEF Task, TaskSteps, Resembles
  <2> QED
    BY <2>1, <2>3
<1>5. CASE phase \in {"level", "rescue"}
  <2>1. i \in Level /\ i \in Nat \ {0} /\ LevelInv /\ verified \in Seq(Declaration)
    BY <1>1, <1>5, MoversAre DEF ExecutionInv
  <2>2. TaskFits(i, tasks[i], Declared(verified))
    BY <2>1 DEF LevelInv
  <2>3. CASE Outermost(i)
    <3>1. Resembles(u, tasks[i]) /\ u.step = "proved"
      BY <1>4, <2>2, <2>3 DEF TaskFits
    <3>2. Topmost(tasks[i].frames)
      BY <2>3 DEF Outermost, Topmost
    <3>3. TaskFits(i, u, Declared(verified))
      BY <2>2, <3>1, <3>2, StepFits
    <3>4. BlameMoves(i, u)
      BY <1>1, <3>1 DEF BlameMoves, Resembles
    <3>5. BlameAllows(u)
      BY <2>1, <3>1 DEF BlameAllows, LevelInv, Blame, Resembles
    <3> QED
      BY <1>1, <1>3, <1>5, <3>3, <3>4, <3>5, LevelMoves
  <2>4. CASE ~ Outermost(i)
    <3>1. u = Advanced(i)
      BY <1>2, <2>4
    <3>2. TaskFits(i, u, Declared(verified)) /\ u.step = "asking" /\ u.frames # <<>>
      BY <2>1, <2>2, <2>4, <3>1, AdvancedFits
    <3>3. phase # "level"
      BY <2>1, <2>4 DEF LevelInv, Blame, Outermost
    <3>4. BlameMoves(i, u) /\ BlameAllows(u)
      BY <1>1, <3>2, <3>3 DEF BlameMoves, BlameAllows
    <3> QED
      BY <1>1, <1>3, <1>5, <3>2, <3>4, LevelMoves
  <2> QED
    BY <2>3, <2>4
<1>6. CASE phase = "main"
  <2>1. i = Main /\ MainInv
    BY <1>1, <1>6, MoversAre DEF ExecutionInv
  <2>2. Outermost(i)
    BY <2>1 DEF MainInv, Outermost
  <2>3. u \in Task /\ u.frames = <<>> /\ u.step = "proved"
    BY <1>4, <2>1, <2>2 DEF MainInv, Resembles
  <2> QED
    BY <1>1, <1>3, <1>6, <2>1, <2>3, MainMoves
<1>7. CASE phase = "raised"
  BY <1>1, <1>3, <1>7, RaisedMoves
<1> QED
  BY <1>1, <1>5, <1>6, <1>7 DEF Working

LEMMA DecomposeKeeps ==
  ASSUME ExecutionInv, NEW i \in DOMAIN tasks, Decompose(i)
  PROVE  ExecutionInv'
<1>1. /\ Working /\ tasks[i].step = "decomposing" /\ ~ Idle(i)
      /\ UNCHANGED <<plan, phase, level, verified, failure>>
  BY DEF Decompose, Idle, Busy
<1>2. PICK u : /\ tasks' = [tasks EXCEPT ![i] = u]
               /\ \/ \E n \in Nat : u = Decomposed(i, n)
                  \/ u = [tasks[i] EXCEPT !.step = "failed"]
  <2>1. CASE \E n \in 1 .. MaxSubs : Set(i, Decomposed(i, n))
    <3>1. PICK n \in 1 .. MaxSubs : Set(i, Decomposed(i, n))
      BY <2>1
    <3>2. PICK u : u = Decomposed(i, n)
      OBVIOUS
    <3>3. n \in Nat /\ tasks' = [tasks EXCEPT ![i] = u]
      BY <3>1, <3>2 DEF Set
    <3> QED
      BY <3>2, <3>3
  <2>2. CASE Set(i, [tasks[i] EXCEPT !.step = "failed"])
    BY <2>2 DEF Set
  <2> QED
    BY <2>1, <2>2 DEF Decompose, Decomposed
<1>3. CASE phase \in {"level", "rescue"}
  <2>1. i \in Level /\ i \in Nat \ {0} /\ LevelInv
    BY <1>1, <1>3, MoversAre DEF ExecutionInv
  <2>2. TaskFits(i, tasks[i], Declared(verified)) /\ phase = "rescue"
    BY <1>1, <1>3, <2>1 DEF LevelInv, Blame
  <2>3. CASE \E n \in Nat : u = Decomposed(i, n)
    <3>1. PICK n \in Nat : u = Decomposed(i, n)
      BY <2>3
    <3>2. TaskFits(i, u, Declared(verified)) /\ u.step = "asking" /\ u.frames # <<>>
      BY <1>1, <2>1, <2>2, <3>1, DecomposedFits
    <3>3. BlameMoves(i, u) /\ BlameAllows(u)
      BY <1>1, <2>2, <3>2 DEF BlameMoves, BlameAllows
    <3> QED
      BY <1>1, <1>2, <1>3, <3>2, <3>3, LevelMoves
  <2>4. CASE u = [tasks[i] EXCEPT !.step = "failed"]
    <3>1. PICK t \in Task : t = tasks[i]
      BY <2>2 DEF TaskFits
    <3>2. u = [t EXCEPT !.step = "failed"]
      BY <2>4, <3>1
    <3>3. Resembles(u, t) /\ u.step = "failed"
      BY <3>2 DEF Task, TaskSteps, Resembles
    <3>4. TaskFits(i, u, Declared(verified))
      BY <2>2, <3>1, <3>3, StepFits
    <3>5. BlameMoves(i, u) /\ BlameAllows(u)
      BY <1>1, <2>2, <3>1, <3>3 DEF BlameMoves, BlameAllows, Resembles
    <3> QED
      BY <1>1, <1>2, <1>3, <3>4, <3>5, LevelMoves
  <2> QED
    BY <1>2, <2>3, <2>4
<1>4. CASE phase = "main"
  BY <1>1, <1>4, MoversAre DEF ExecutionInv, MainInv
<1>5. CASE phase = "raised"
  BY <1>1, <1>2, <1>5, RaisedMoves
<1> QED
  BY <1>1, <1>3, <1>4, <1>5 DEF Working

LEMMA RaiseKeeps ==
  ASSUME ExecutionInv, NEW i \in DOMAIN tasks, Raise(i)
  PROVE  ExecutionInv'
<1>1. phase' = "raised" /\ DOMAIN tasks' = DOMAIN tasks /\ UNCHANGED <<plan, level, verified>>
  BY DEF Raise, Set
<1> QED
  BY <1>1, RaisedMoves

-----------------------------------------------------------------------------
(* The whole execution moves *)

LEMMA EmptyIs == Declared(<<>>) = {} /\ <<>> \in Seq(Declaration) /\ <<>> \in Seq(Frame)
  BY DEF Declared

LEMMA FreshIs ==
  ASSUME NEW s \in TaskSteps
  PROVE  /\ Fresh(s) \in Task /\ Fresh(s).step = s
         /\ Fresh(s).frames = <<>> /\ Fresh(s).codes = <<>>
<1>1. <<>> \in Seq(Frame) /\ <<>> \in Seq(Declaration)
  BY EmptyIs
<1> QED
  BY <1>1 DEF Fresh, Task

LEMMA FreshFits ==
  ASSUME NEW i, NEW s \in TaskSteps, NEW known
  PROVE  TaskFits(i, Fresh(s), known)
<1>1. PICK t \in Task : t = Fresh(s) /\ t.step = s /\ t.frames = <<>> /\ t.codes = <<>>
  BY FreshIs
<1>2. Stacked(i, <<>>) /\ Chained(<<>>, known) /\ InTurn(<<>>) /\ Topmost(<<>>)
  BY DEF Stacked, Chained, InTurn, Topmost
<1>3. Len(t.codes) = 0
  BY <1>1
<1>4. \A k \in 1 .. Len(t.codes) : Passed(i, t.frames, t.codes[k].name)
  BY <1>3
<1>5. TaskFits(i, t, known)
  BY <1>1, <1>2, <1>4 DEF TaskFits
<1> QED
  BY <1>1, <1>5

LEMMA RescueKeeps ==
  ASSUME ExecutionInv, Rescue
  PROVE  ExecutionInv'
<1>1. /\ phase = "level" /\ Finished /\ Failed # {} /\ phase' = "rescue"
      /\ UNCHANGED <<plan, level, verified, failure>> /\ DOMAIN tasks' = DOMAIN tasks
      /\ \A i \in DOMAIN tasks :
           tasks'[i] = IF i \in Failed THEN Fresh("decomposing") ELSE tasks[i]
  BY DEF Rescue
<1>2. LevelInv /\ DOMAIN tasks = Lemmas \union {Main} /\ Level' = Level /\ Lemmas' = Lemmas
  BY <1>1, SameLevel, SamePlan DEF ExecutionInv
<1>3. \A i \in Level : i \in DOMAIN tasks
  BY <1>2 DEF Level
<1>4. PICK u : u = Fresh("decomposing") /\ u.step = "decomposing" /\ u.codes = <<>>
               /\ \A i : TaskFits(i, u, Declared(verified))
  BY FreshFits, FreshIs DEF TaskSteps
<1>5. Declared(verified') = Declared(verified)
  BY <1>1 DEF Declared
<1>6. \A i \in DOMAIN tasks \ Level : Idle(i)'
  BY <1>1, <1>2 DEF LevelInv, Idle, Failed
<1>7. \A i \in Level : TaskFits(i, tasks'[i], Declared(verified'))
  <2> TAKE i \in Level
  <2>1. CASE i \in Failed
    BY <1>1, <1>3, <1>4, <1>5, <2>1
  <2>2. CASE i \notin Failed
    BY <1>1, <1>2, <1>3, <1>5, <2>2 DEF LevelInv
  <2> QED
    BY <2>1, <2>2
<1>8. Earlier'
  BY <1>1, <1>2, SameEarlier DEF LevelInv
<1>9. Blame'
  <2>1. \A i \in Level : tasks'[i].step \in {"proved", "decomposing"}
    BY <1>1, <1>3, <1>4 DEF Finished, Failed
  <2>2. PICK j \in Failed : failure = FailureOf(<<j>>)
    BY <1>1, <1>2 DEF LevelInv, Blame
  <2>3. j \in Level /\ j \in Nat /\ tasks'[j] = u
    BY <1>1, <1>3, <1>4, LemmasAre DEF Failed, ExecutionInv
  <2>4. Blamed(j, <<j>>)'
    BY <1>4, <2>3, EmptyIs, OneIsSeq DEF Blamed
  <2>5. failure' = FailureOf(<<j>>) /\ <<j>> \in {failure'.lemma}
    BY <1>1, <2>2 DEF FailureOf
  <2>6. \E i \in Level, d \in {failure'.lemma} : failure' = FailureOf(d) /\ Blamed(i, d)'
    BY <2>3, <2>4, <2>5
  <2> QED
    BY <1>1, <1>2, <2>1, <2>6 DEF Blame
<1>10. LevelInv'
  BY <1>1, <1>2, <1>6, <1>7, <1>8, <1>9 DEF LevelInv
<1>11. FileIsOrdered'
  BY <1>1, SameFile DEF ExecutionInv
<1> QED
  BY <1>1, <1>2, <1>10, <1>11 DEF ExecutionInv, Phases, Main

LEMMA EndMainKeeps ==
  ASSUME ExecutionInv, EndMain
  PROVE  ExecutionInv'
<1>1. /\ phase = "main" /\ tasks[Main].step \in {"proved", "failed"}
      /\ phase' = (IF tasks[Main].step = "proved" THEN "assembled" ELSE "failed")
      /\ UNCHANGED <<plan, level, tasks, verified, failure>>
  BY DEF EndMain
<1>2. MainInv /\ DOMAIN tasks = Lemmas \union {Main}
  BY <1>1 DEF ExecutionInv
<1>3. Lemmas' = Lemmas /\ Main' = Main /\ FileIsOrdered'
  BY <1>1, SamePlan, SameFile DEF Main, ExecutionInv
<1>4. \A i \in DOMAIN tasks : Idle(i)'
  BY <1>1, <1>2 DEF MainInv, Idle, Busy
<1>5. ASSUME phase' = "failed"
      PROVE  Diagnosed'
  <2>1. failure' = FailureOf(<<>>)
    BY <1>1, <1>2, <1>5 DEF MainInv
  <2>2. failure'.kind = "lemma" /\ failure'.lemma = <<>>
    BY <2>1 DEF FailureOf
  <2>3. \A c \in Declared(verified) : c # <<>>
    BY <1>2 DEF MainInv
  <2>4. Declared(verified') = Declared(verified)
    BY <1>1 DEF Declared
  <2> QED
    BY <2>2, <2>3, <2>4 DEF Diagnosed
<1>6. phase' \in {"assembled", "failed"}
  BY <1>1
<1> QED
  BY <1>1, <1>2, <1>3, <1>4, <1>5, <1>6 DEF ExecutionInv, Phases

LEMMA ReportKeeps ==
  ASSUME ExecutionInv, Report
  PROVE  ExecutionInv'
<1>1. /\ phase = "assembled" /\ phase' \in {"succeeded", "refused"}
      /\ UNCHANGED <<plan, level, tasks, verified, failure>>
  BY DEF Report
<1>2. Lemmas' = Lemmas /\ Main' = Main /\ FileIsOrdered'
  BY <1>1, SamePlan, SameFile DEF Main, ExecutionInv
<1>3. \A i \in DOMAIN tasks : Idle(i)'
  BY <1>1 DEF ExecutionInv, Idle
<1> QED
  BY <1>1, <1>2, <1>3 DEF ExecutionInv, Phases

LEMMA TimeoutKeeps ==
  ASSUME ExecutionInv, Timeout
  PROVE  ExecutionInv'
<1>1. /\ phase \in {"level", "rescue", "main"} /\ phase' = "timeout" /\ failure' = OutOfTime
      /\ UNCHANGED <<plan, level, verified>> /\ DOMAIN tasks' = DOMAIN tasks
      /\ \A i \in DOMAIN tasks :
           tasks'[i] = IF i \in Cancels \/ tasks[i].step = "queued"
                       THEN [tasks[i] EXCEPT !.step = "cancelled", !.routes = 0] ELSE tasks[i]
  BY DEF Timeout
<1>2. Lemmas' = Lemmas /\ Main' = Main /\ FileIsOrdered'
  BY <1>1, SamePlan, SameFile DEF Main, ExecutionInv
<1>3. \A i \in DOMAIN tasks : Idle(i)'
  <2> TAKE i \in DOMAIN tasks
  <2>1. CASE tasks[i].step \in Busy \union {"queued"}
    <3>1. tasks'[i] = [tasks[i] EXCEPT !.step = "cancelled", !.routes = 0]
      BY <1>1, <2>1 DEF Cancels, Active
    <3>2. tasks[i] \in Task
      BY <1>1, <2>1, MoversAre DEF ExecutionInv, LevelInv, MainInv, TaskFits, Idle
    <3>3. PICK t \in Task : t = tasks[i]
      BY <3>2
    <3>4. [t EXCEPT !.step = "cancelled", !.routes = 0].step = "cancelled"
      BY DEF Task
    <3> QED
      BY <3>1, <3>3, <3>4 DEF Idle, Busy
  <2>2. CASE tasks[i].step \notin Busy \union {"queued"}
    BY <1>1, <2>2 DEF Cancels, Active, Idle
  <2> QED
    BY <2>1, <2>2
<1> QED
  BY <1>1, <1>2, <1>3 DEF ExecutionInv, Phases

-----------------------------------------------------------------------------
(* What a level leaves: blocks of declarations *)

LEMMA ChainedMore ==
  ASSUME NEW codes \in Seq(Declaration), NEW known, NEW more, Chained(codes, known)
  PROVE  Chained(codes, known \union more)
<1>1. \A k \in 1 .. Len(codes) : /\ codes[k].uses \subseteq known \union NamesBefore(codes, k)
                                 /\ codes[k].name \notin NamesBefore(codes, k)
  BY DEF Chained
<1>2. \A k \in 1 .. Len(codes) :
        codes[k].uses \subseteq (known \union more) \union NamesBefore(codes, k)
  BY <1>1
<1> QED
  BY <1>1, <1>2 DEF Chained

\* A block is put after another that it does not repeat.
LEMMA BlocksJoin ==
  ASSUME NEW v \in Seq(Declaration), NEW b \in Seq(Declaration), NEW known,
         Chained(v, known), Chained(b, known \union Declared(v)),
         Declared(v) \intersect Declared(b) = {}
  PROVE  /\ v \o b \in Seq(Declaration) /\ Chained(v \o b, known)
         /\ Declared(v \o b) = Declared(v) \union Declared(b)
<1> DEFINE n == Len(v)
           m == Len(b)
           s == v \o b
<1>1. n \in Nat /\ m \in Nat
  OBVIOUS
<1>2. /\ s \in Seq(Declaration) /\ Len(s) = n + m
      /\ \A q \in 1 .. n : s[q] = v[q]
      /\ \A q \in 1 .. m : s[n + q] = b[q]
  <2>1. s \in Seq(Declaration) /\ Len(s) = n + m
    BY ConcatProperties
  <2>2. \A q \in 1 .. n + m : s[q] = IF q <= n THEN v[q] ELSE b[q - n]
    BY ConcatProperties
  <2>3. ASSUME NEW q \in 1 .. n
        PROVE  s[q] = v[q]
    <3>1. q \in 1 .. n + m /\ q <= n
      BY <1>1
    <3> QED
      BY <2>2, <3>1
  <2>4. ASSUME NEW q \in 1 .. m
        PROVE  s[n + q] = b[q]
    <3>1. n + q \in 1 .. n + m /\ ~ (n + q <= n) /\ (n + q) - n = q
      BY <1>1
    <3> QED
      BY <2>2, <3>1
  <2> QED
    BY <2>1, <2>3, <2>4
<1>3. Declared(v) = {v[k].name : k \in 1 .. n} /\ Declared(b) = {b[k].name : k \in 1 .. m}
  BY DeclaredAre
<1>4. Declared(s) = {s[k].name : k \in 1 .. n + m}
  BY <1>2, DeclaredAre
<1> HIDE DEF s
<1>5. ASSUME NEW k \in 1 .. n
      PROVE  NamesBefore(s, k) = NamesBefore(v, k)
  <2>1. \A j \in 1 .. k - 1 : j \in 1 .. n
    BY <1>1
  <2>2. \A j \in 1 .. k - 1 : s[j].name = v[j].name
    BY <1>2, <2>1
  <2> QED
    BY <2>2 DEF NamesBefore
<1>6. ASSUME NEW q \in 1 .. m
      PROVE  NamesBefore(s, n + q) = Declared(v) \union NamesBefore(b, q)
  <2>1. ASSUME NEW j \in 1 .. (n + q) - 1
        PROVE  s[j].name \in Declared(v) \union NamesBefore(b, q)
    <3>1. CASE j <= n
      <4>1. j \in 1 .. n
        BY <1>1, <3>1
      <4> QED
        BY <1>2, <1>3, <4>1
    <3>2. CASE ~ (j <= n)
      <4>1. PICK p \in 1 .. q - 1 : j = n + p
        BY <1>1, <3>2
      <4>2. p \in 1 .. m
        BY <1>1
      <4>3. s[j].name = b[p].name
        BY <1>2, <4>1, <4>2
      <4> QED
        BY <4>3 DEF NamesBefore
    <3> QED
      BY <3>1, <3>2
  <2>2. ASSUME NEW j \in 1 .. n
        PROVE  v[j].name \in NamesBefore(s, n + q)
    <3>1. j \in 1 .. (n + q) - 1
      BY <1>1
    <3>2. s[j].name = v[j].name
      BY <1>2
    <3> QED
      BY <3>1, <3>2 DEF NamesBefore
  <2>3. ASSUME NEW j \in 1 .. q - 1
        PROVE  b[j].name \in NamesBefore(s, n + q)
    <3>1. n + j \in 1 .. (n + q) - 1 /\ j \in 1 .. m
      BY <1>1
    <3>2. s[n + j].name = b[j].name
      BY <1>2, <3>1
    <3> QED
      BY <3>1, <3>2 DEF NamesBefore
  <2>4. NamesBefore(s, n + q) \subseteq Declared(v) \union NamesBefore(b, q)
    BY <2>1 DEF NamesBefore
  <2>5. Declared(v) \subseteq NamesBefore(s, n + q)
    BY <1>3, <2>2
  <2>6. NamesBefore(b, q) \subseteq NamesBefore(s, n + q)
    <3>1. \A x \in NamesBefore(b, q) : \E j \in 1 .. q - 1 : x = b[j].name
      BY DEF NamesBefore
    <3> QED
      BY <2>3, <3>1
  <2> QED
    BY <2>4, <2>5, <2>6
<1>7. ASSUME NEW k \in 1 .. n + m
      PROVE  k \in 1 .. n \/ \E q \in 1 .. m : k = n + q
  <2>1. CASE k <= n
    BY <1>1, <2>1
  <2>2. CASE ~ (k <= n)
    <3>1. k - n \in 1 .. m /\ k = n + (k - n)
      BY <1>1, <2>2
    <3> QED
      BY <3>1
  <2> QED
    BY <2>1, <2>2
<1>8. ASSUME NEW k \in 1 .. n + m
      PROVE  /\ s[k].uses \subseteq known \union NamesBefore(s, k)
             /\ s[k].name \notin NamesBefore(s, k)
  <2>1. CASE k \in 1 .. n
    <3>1. s[k] = v[k] /\ NamesBefore(s, k) = NamesBefore(v, k)
      BY <1>2, <1>5, <2>1
    <3> QED
      BY <2>1, <3>1 DEF Chained
  <2>2. ASSUME NEW q \in 1 .. m, k = n + q
        PROVE  /\ s[k].uses \subseteq known \union NamesBefore(s, k)
               /\ s[k].name \notin NamesBefore(s, k)
    <3>1. s[k] = b[q] /\ NamesBefore(s, k) = Declared(v) \union NamesBefore(b, q)
      BY <1>2, <1>6, <2>2
    <3>2. /\ b[q].uses \subseteq (known \union Declared(v)) \union NamesBefore(b, q)
          /\ b[q].name \notin NamesBefore(b, q)
      BY DEF Chained
    <3>3. b[q].name \notin Declared(v)
      BY <1>3
    <3> QED
      BY <3>1, <3>2, <3>3
  <2> QED
    BY <1>7, <2>1, <2>2
<1>9. Chained(s, known)
  BY <1>2, <1>8 DEF Chained
<1>10. Declared(s) = Declared(v) \union Declared(b)
  <2>1. ASSUME NEW k \in 1 .. n + m
        PROVE  s[k].name \in Declared(v) \union Declared(b)
    <3>1. CASE k \in 1 .. n
      BY <1>2, <1>3, <3>1
    <3>2. ASSUME NEW q \in 1 .. m, k = n + q
          PROVE  s[k].name \in Declared(b)
      BY <1>2, <1>3, <3>2
    <3> QED
      BY <1>7, <3>1, <3>2
  <2>2. ASSUME NEW k \in 1 .. n
        PROVE  v[k].name \in Declared(s)
    <3>1. k \in 1 .. n + m
      BY <1>1
    <3> QED
      BY <1>2, <1>4, <3>1
  <2>3. ASSUME NEW q \in 1 .. m
        PROVE  b[q].name \in Declared(s)
    <3>1. n + q \in 1 .. n + m
      BY <1>1
    <3> QED
      BY <1>2, <1>4, <3>1
  <2>4. Declared(s) \subseteq Declared(v) \union Declared(b)
    BY <1>4, <2>1
  <2>5. Declared(v) \subseteq Declared(s) /\ Declared(b) \subseteq Declared(s)
    BY <1>3, <2>2, <2>3
  <2> QED
    BY <2>4, <2>5
<1> QED
  BY <1>2, <1>9, <1>10 DEF s

\* Blocks that stand above the same file and declare different names.
Blocks(B, known) ==
  /\ B \in Seq(Seq(Declaration))
  /\ \A k \in 1 .. Len(B) : Chained(B[k], known)
  /\ \A j, k \in 1 .. Len(B) : j # k => Declared(B[j]) \intersect Declared(B[k]) = {}

\* The joins of the first blocks, one by one, as FlattenSeq has them.
Joins(f, B, n) == f = [k \in 1 .. n |-> IF k = 1 THEN B[k] ELSE f[k - 1] \o B[k]]

LEMMA JoinsExist ==
  ASSUME NEW B, NEW n \in Nat
  PROVE  \E f : Joins(f, B, n)
<1> DEFINE T == {k \in Nat : ~ \E f : Joins(f, B, k)}
<1>1. SUFFICES ASSUME T # {} PROVE FALSE
  OBVIOUS
<1>2. PICK m \in T : \A k \in T : m <= k
  <2>1. T \subseteq Nat
    OBVIOUS
  <2> HIDE DEF T
  <2> QED
    BY <1>1, <2>1, LeastExists
<1>3. m \in Nat /\ ~ \E f : Joins(f, B, m)
  OBVIOUS
<1>4. m # 0
  <2>1. \E f : f = [k \in 1 .. 0 |-> IF k = 1 THEN B[k] ELSE f[k - 1] \o B[k]]
    <3>1. PICK f : f = [k \in 1 .. 0 |-> 0]
      OBVIOUS
    <3>2. f = [k \in 1 .. 0 |-> IF k = 1 THEN B[k] ELSE f[k - 1] \o B[k]]
      BY <3>1
    <3> QED
      BY <3>2
  <2> QED
    BY <1>3, <2>1 DEF Joins
<1>5. PICK p \in Nat : m = p + 1
  BY <1>3, <1>4
<1>6. p \notin T
  BY <1>2, <1>5
<1>7. PICK f : Joins(f, B, p)
  BY <1>6
<1>8. \A k \in 1 .. p : f[k] = IF k = 1 THEN B[k] ELSE f[k - 1] \o B[k]
  BY <1>7 DEF Joins
<1> DEFINE g == [k \in 1 .. m |-> IF k = m THEN (IF k = 1 THEN B[k] ELSE f[p] \o B[k]) ELSE f[k]]
<1>9. ASSUME NEW k \in 1 .. m
      PROVE  g[k] = IF k = 1 THEN B[k] ELSE g[k - 1] \o B[k]
  <2>1. CASE k = m
    <3>1. CASE k = 1
      BY <2>1, <3>1
    <3>2. CASE k # 1
      <4>1. k - 1 = p /\ p \in 1 .. m /\ p # m
        BY <1>5, <2>1, <3>2
      <4>2. g[k - 1] = f[p]
        BY <4>1
      <4> QED
        BY <2>1, <3>2, <4>2
    <3> QED
      BY <3>1, <3>2
  <2>2. CASE k # m
    <3>1. k \in 1 .. p
      BY <1>5, <2>2
    <3>2. g[k] = f[k]
      BY <2>2
    <3>3. CASE k = 1
      BY <1>8, <3>1, <3>2, <3>3
    <3>4. CASE k # 1
      <4>1. k - 1 \in 1 .. m /\ k - 1 # m
        BY <1>5, <3>1, <3>4
      <4>2. g[k - 1] = f[k - 1]
        BY <4>1
      <4> QED
        BY <1>8, <3>1, <3>2, <3>4, <4>2
    <3> QED
      BY <3>3, <3>4
  <2> QED
    BY <2>1, <2>2
<1>10. Joins(g, B, m)
  <2>1. g = [k \in 1 .. m |-> g[k]]
    OBVIOUS
  <2> HIDE DEF g
  <2>2. [k \in 1 .. m |-> g[k]] = [k \in 1 .. m |-> IF k = 1 THEN B[k] ELSE g[k - 1] \o B[k]]
    BY <1>9
  <2> QED
    BY <2>1, <2>2 DEF Joins
<1> QED
  BY <1>3, <1>10

LEMMA FlattenIs ==
  ASSUME NEW B, Len(B) \in Nat, Len(B) # 0
  PROVE  \E f : Joins(f, B, Len(B)) /\ FlattenSeq(B) = f[Len(B)]
<1> DEFINE f == CHOOSE g : Joins(g, B, Len(B))
<1>1. Joins(f, B, Len(B))
  BY JoinsExist
<1>2. FlattenSeq(B) = f[Len(B)]
  BY DEF FlattenSeq, Joins
<1> QED
  BY <1>1, <1>2

\* The first blocks, joined.
Joined(f, B, known, k) ==
  /\ f[k] \in Seq(Declaration) /\ Chained(f[k], known)
  /\ Declared(f[k]) = UNION {Declared(B[j]) : j \in 1 .. k}

LEMMA BlocksFlatten ==
  ASSUME NEW B, NEW known, Blocks(B, known)
  PROVE  /\ FlattenSeq(B) \in Seq(Declaration) /\ Chained(FlattenSeq(B), known)
         /\ Declared(FlattenSeq(B)) = UNION {Declared(B[k]) : k \in 1 .. Len(B)}
<1>1. /\ B \in Seq(Seq(Declaration)) /\ Len(B) \in Nat
      /\ \A k \in 1 .. Len(B) : B[k] \in Seq(Declaration) /\ Chained(B[k], known)
      /\ \A j, k \in 1 .. Len(B) : j # k => Declared(B[j]) \intersect Declared(B[k]) = {}
  <2>1. B \in Seq(Seq(Declaration))
    BY DEF Blocks
  <2>2. Len(B) \in Nat /\ \A k \in 1 .. Len(B) : B[k] \in Seq(Declaration)
    BY <2>1, LenProperties, ElementOfSeq
  <2>3. \A k \in 1 .. Len(B) : Chained(B[k], known)
    BY DEF Blocks
  <2>4. \A j, k \in 1 .. Len(B) : j # k => Declared(B[j]) \intersect Declared(B[k]) = {}
    BY DEF Blocks
  <2> QED
    BY <2>1, <2>2, <2>3, <2>4
<1>2. CASE Len(B) = 0
  <2>1. FlattenSeq(B) = B /\ B = <<>>
    BY <1>1, <1>2 DEF FlattenSeq
  <2>2. Chained(<<>>, known) /\ Declared(<<>>) = {} /\ <<>> \in Seq(Declaration)
    BY EmptyIs DEF Chained
  <2>3. UNION {Declared(B[k]) : k \in 1 .. Len(B)} = {}
    BY <1>2
  <2> QED
    BY <2>1, <2>2, <2>3
<1>3. CASE Len(B) # 0
  <2>1. PICK f : Joins(f, B, Len(B)) /\ FlattenSeq(B) = f[Len(B)]
    BY <1>1, <1>3, FlattenIs
  <2>2. \A k \in 1 .. Len(B) : f[k] = IF k = 1 THEN B[k] ELSE f[k - 1] \o B[k]
    BY <2>1 DEF Joins
  <2> DEFINE T == {k \in 1 .. Len(B) : ~ Joined(f, B, known, k)}
  <2>3. ASSUME T # {}
        PROVE  FALSE
    <3>1. PICK k \in T : \A j \in T : k <= j
      <4>1. T \subseteq Nat
        OBVIOUS
      <4> HIDE DEF T
      <4> QED
        BY <2>3, <4>1, LeastExists
    <3>2. k \in 1 .. Len(B) /\ ~ Joined(f, B, known, k)
      OBVIOUS
    <3>3. CASE k = 1
      <4>1. f[k] = B[k] /\ UNION {Declared(B[j]) : j \in 1 .. k} = Declared(B[k])
        BY <2>2, <3>2, <3>3
      <4> QED
        BY <1>1, <3>2, <4>1 DEF Joined
    <3>4. CASE k # 1
      <4>1. PICK p \in 1 .. Len(B) : k = p + 1
        BY <1>1, <3>2, <3>4
      <4>2. p \notin T
        BY <3>1, <4>1
      <4>3. Joined(f, B, known, p)
        BY <4>2
      <4>4. f[k] = f[p] \o B[k]
        <5>1. k - 1 = p
          BY <4>1
        <5> QED
          BY <2>2, <3>2, <3>4, <5>1
      <4>5. f[p] \in Seq(Declaration) /\ Chained(f[p], known)
            /\ Declared(f[p]) = UNION {Declared(B[j]) : j \in 1 .. p}
        BY <4>3 DEF Joined
      <4>6. Chained(B[k], known \union Declared(f[p]))
        BY <1>1, <3>2, ChainedMore
      <4>7. Declared(f[p]) \intersect Declared(B[k]) = {}
        <5>1. \A j \in 1 .. p : j \in 1 .. Len(B) /\ j # k
          BY <1>1, <4>1
        <5>2. \A j \in 1 .. p : Declared(B[j]) \intersect Declared(B[k]) = {}
          BY <1>1, <3>2, <5>1
        <5> QED
          BY <4>5, <5>2
      <4>8. /\ f[p] \o B[k] \in Seq(Declaration) /\ Chained(f[p] \o B[k], known)
            /\ Declared(f[p] \o B[k]) = Declared(f[p]) \union Declared(B[k])
        BY <1>1, <3>2, <4>5, <4>6, <4>7, BlocksJoin
      <4> DEFINE Upto(n) == UNION {Declared(B[j]) : j \in 1 .. n}
      <4>9. Upto(k) = Upto(p) \union Declared(B[k])
        <5>1. \A j : j \in 1 .. k <=> (j \in 1 .. p \/ j = k)
          BY <4>1
        <5>2. \A j \in 1 .. p : Declared(B[j]) \subseteq Upto(p)
          OBVIOUS
        <5>3. ASSUME NEW x \in Upto(k)
              PROVE  x \in Upto(p) \union Declared(B[k])
          <6>1. PICK j \in 1 .. k : x \in Declared(B[j])
            OBVIOUS
          <6>2. CASE j \in 1 .. p
            BY <5>2, <6>1, <6>2
          <6>3. CASE j = k
            BY <6>1, <6>3
          <6> QED
            BY <5>1, <6>2, <6>3
        <5>4. Upto(p) \subseteq Upto(k)
          BY <5>1
        <5>5. Declared(B[k]) \subseteq Upto(k)
          BY <3>2, <5>1
        <5> HIDE DEF Upto
        <5> QED
          BY <5>3, <5>4, <5>5
      <4>10. Declared(f[p] \o B[k]) = Upto(k)
        <5>1. Declared(f[p]) = Upto(p)
          BY <4>5
        <5> HIDE DEF Upto
        <5> QED
          BY <4>8, <4>9, <5>1
      <4>11. Joined(f, B, known, k)
        BY <4>4, <4>8, <4>10 DEF Joined
      <4> QED
        BY <3>2, <4>11
    <3> QED
      BY <3>3, <3>4
  <2>4. Joined(f, B, known, Len(B))
    <3>1. Len(B) \in 1 .. Len(B)
      BY <1>1, <1>3
    <3> QED
      BY <2>3, <3>1
  <2> QED
    BY <2>1, <2>4 DEF Joined
<1> QED
  BY <1>2, <1>3

-----------------------------------------------------------------------------
(* The levels of a plan *)

LEMMA MaxIs ==
  ASSUME NEW n \in Nat, NEW S \in SUBSET (0 .. n), S # {}
  PROVE  Max(S) \in S /\ \A k \in S : k <= Max(S)
<1> DEFINE T == {k + 1 : k \in S}
<1>1. T \in SUBSET (1 .. n + 1) /\ T # {}
  <2>1. \A k \in S : k + 1 \in 1 .. n + 1
    OBVIOUS
  <2> QED
    BY <2>1
<1>2. PICK m \in T : \A k \in T : k <= m
  <2> HIDE DEF T
  <2>1. n + 1 \in Nat
    OBVIOUS
  <2> QED
    BY <1>1, <2>1, LargestExists
<1>3. PICK x \in S : m = x + 1
  OBVIOUS
<1>4. \A k \in S : x >= k
  <2> TAKE k \in S
  <2>1. k + 1 \in T /\ k \in Nat /\ x \in Nat
    OBVIOUS
  <2>2. k + 1 <= x + 1
    BY <1>2, <1>3, <2>1
  <2> QED
    BY <2>1, <2>2
<1>5. Max(S) \in S /\ \A k \in S : Max(S) >= k
  BY <1>4 DEF Max
<1>6. \A k \in S : k \in Nat
  OBVIOUS
<1> QED
  BY <1>5, <1>6

\* A dependency's depth is the number of declarations it has to wait for.
Deep(d, n) == d = [i \in 1 .. n |-> IF plan[i] = {} THEN 0 ELSE 1 + Max({d[j] : j \in plan[i]})]

LEMMA DeepExists ==
  ASSUME Schedulable, plan \in Plans, NEW n \in 0 .. Len(plan)
  PROVE  \E d : Deep(d, n)
<1> DEFINE T == {k \in 0 .. Len(plan) : ~ \E d : Deep(d, k)}
<1>1. SUFFICES ASSUME T # {} PROVE FALSE
  OBVIOUS
<1>2. PICK m \in T : \A k \in T : m <= k
  <2>1. T \subseteq Nat
    OBVIOUS
  <2> HIDE DEF T
  <2> QED
    BY <1>1, <2>1, LeastExists
<1>3. m \in Nat /\ m <= Len(plan) /\ ~ (\E d : Deep(d, m)) /\ Len(plan) \in Nat
  BY LemmasAre
<1>4. m # 0
  <2>1. \E d : d = [i \in 1 .. 0 |-> IF plan[i] = {} THEN 0 ELSE 1 + Max({d[j] : j \in plan[i]})]
    <3>1. PICK d : d = [i \in 1 .. 0 |-> 0]
      OBVIOUS
    <3>2. d = [i \in 1 .. 0 |-> IF plan[i] = {} THEN 0 ELSE 1 + Max({d[j] : j \in plan[i]})]
      BY <3>1
    <3> QED
      BY <3>2
  <2> QED
    BY <1>3, <2>1 DEF Deep
<1>5. PICK p \in Nat : m = p + 1
  BY <1>3, <1>4
<1>6. p \notin T /\ p \in 0 .. Len(plan)
  BY <1>2, <1>3, <1>5
<1>7. PICK d : Deep(d, p)
  BY <1>6
<1>8. \A i \in 1 .. p : d[i] = IF plan[i] = {} THEN 0 ELSE 1 + Max({d[j] : j \in plan[i]})
  BY <1>7 DEF Deep
<1>9. \A i \in 1 .. m : plan[i] \subseteq 1 .. (i - 1)
  BY <1>3, LemmasAre DEF Schedulable
<1> DEFINE V(i) == IF plan[i] = {} THEN 0 ELSE 1 + Max({d[j] : j \in plan[i]})
           g == [i \in 1 .. m |-> IF i = m THEN V(i) ELSE d[i]]
<1>10. ASSUME NEW i \in 1 .. m
       PROVE  g[i] = IF plan[i] = {} THEN 0 ELSE 1 + Max({g[j] : j \in plan[i]})
  <2>1. \A j \in plan[i] : j \in 1 .. m /\ j # m
    BY <1>3, <1>9
  <2>2. \A j \in plan[i] : g[j] = d[j]
    BY <2>1
  <2>3. {g[j] : j \in plan[i]} = {d[j] : j \in plan[i]}
    BY <2>2
  <2>4. g[i] = V(i)
    <3>1. CASE i = m
      BY <3>1
    <3>2. CASE i # m
      <4>1. i \in 1 .. p
        BY <1>5, <3>2
      <4> QED
        BY <1>8, <3>2, <4>1
    <3> QED
      BY <3>1, <3>2
  <2> HIDE DEF g
  <2> QED
    BY <2>3, <2>4
<1>11. Deep(g, m)
  <2>1. g = [i \in 1 .. m |-> g[i]]
    OBVIOUS
  <2> HIDE DEF g
  <2>2. [i \in 1 .. m |-> g[i]]
          = [i \in 1 .. m |-> IF plan[i] = {} THEN 0 ELSE 1 + Max({g[j] : j \in plan[i]})]
    BY <1>10
  <2> QED
    BY <2>1, <2>2 DEF Deep
<1> QED
  BY <1>3, <1>11

\* A lemma is deeper than what it depends on.
DepthFits(i) == Depth[i] \in 0 .. i - 1 /\ \A j \in plan[i] : Depth[j] < Depth[i]

LEMMA DepthsFit ==
  ASSUME Schedulable, plan \in Plans, NEW i \in Lemmas
  PROVE  DepthFits(i)
<1>1. Lemmas = 1 .. Len(plan) /\ Len(plan) \in Nat
  BY LemmasAre
<1>2. Deep(Depth, Len(plan))
  <2>1. \E d : Deep(d, Len(plan))
    BY <1>1, DeepExists
  <2> QED
    BY <1>1, <2>1 DEF Depth, Deep
<1>3. \A k \in Lemmas : Depth[k] = IF plan[k] = {} THEN 0 ELSE 1 + Max({Depth[j] : j \in plan[k]})
  BY <1>1, <1>2 DEF Deep
<1> DEFINE T == {k \in Lemmas : ~ DepthFits(k)}
<1>4. SUFFICES ASSUME T # {} PROVE FALSE
  OBVIOUS
<1>5. PICK k \in T : \A j \in T : k <= j
  <2>1. T \subseteq Nat
    BY <1>1
  <2> HIDE DEF T
  <2> QED
    BY <1>4, <2>1, LeastExists
<1>6. k \in Lemmas /\ ~ DepthFits(k) /\ k \in Nat /\ k >= 1
  BY <1>1
<1>7. \A j \in plan[k] : j \in Lemmas /\ j < k /\ j \in Nat
  BY <1>1, <1>6 DEF Schedulable
<1>8. \A j \in plan[k] : DepthFits(j)
  BY <1>5, <1>6, <1>7
<1>9. \A j \in plan[k] : Depth[j] \in 0 .. k - 2
  BY <1>6, <1>7, <1>8 DEF DepthFits
<1>10. CASE plan[k] = {}
  <2>1. Depth[k] = 0
    BY <1>3, <1>6, <1>10
  <2> QED
    BY <1>6, <1>10, <2>1 DEF DepthFits
<1>11. CASE plan[k] # {}
  <2> DEFINE S == {Depth[j] : j \in plan[k]}
  <2>1. Depth[k] = 1 + Max(S)
    BY <1>3, <1>6, <1>11
  <2>2. k - 2 \in Nat /\ S \in SUBSET (0 .. k - 2) /\ S # {}
    <3>1. PICK j \in plan[k] : TRUE
      BY <1>11
    <3>2. Depth[j] \in 0 .. k - 2
      BY <1>9
    <3> QED
      BY <1>6, <1>9, <1>11, <3>2
  <2>3. \A j \in plan[k] : Depth[j] \in S
    OBVIOUS
  <2> HIDE DEF S
  <2>4. PICK n \in Nat : n = k - 2
    BY <2>2
  <2>5. Max(S) \in S /\ \A x \in S : x <= Max(S)
    BY <2>2, <2>4, MaxIs
  <2>6. Max(S) \in 0 .. k - 2
    BY <2>2, <2>5
  <2>7. Depth[k] \in 0 .. k - 1
    BY <1>6, <2>1, <2>6
  <2>8. ASSUME NEW j \in plan[k]
        PROVE  Depth[j] < Depth[k]
    <3>1. Depth[j] <= Max(S) /\ Depth[j] \in 0 .. k - 2
      BY <1>9, <2>3, <2>5
    <3> QED
      BY <1>6, <2>1, <2>6, <3>1
  <2> QED
    BY <1>6, <2>7, <2>8 DEF DepthFits
<1> QED
  BY <1>10, <1>11

\* A lemma's level is a number, and above those of its dependencies if the plan is in order.
LEMMA LevelsAre ==
  ASSUME plan \in Plans, NEW i \in Lemmas
  PROVE  /\ LevelOf(i) \in Nat
         /\ Schedulable => \A j \in plan[i] : j \in Lemmas /\ LevelOf(j) < LevelOf(i)
<1>1. Lemmas = 1 .. Len(plan) /\ Len(plan) \in Nat
  BY LemmasAre
<1>2. CASE Schedulable
  <2>1. DepthFits(i)
    BY <1>2, DepthsFit
  <2>2. plan[i] \subseteq 1 .. (i - 1)
    BY <1>2 DEF Schedulable
  <2>3. \A j \in plan[i] : j \in Lemmas
    BY <1>1, <2>2
  <2> QED
    BY <1>1, <1>2, <2>1, <2>3 DEF DepthFits, LevelOf
<1>3. CASE ~ Schedulable
  BY <1>1, <1>3 DEF LevelOf
<1> QED
  BY <1>2, <1>3

-----------------------------------------------------------------------------
(* The end of a level *)

\* A file in which each lemma of the plan stands with all it depends on.
Complete(v) ==
  \A k \in 1 .. Len(v) :
    Len(v[k].name) = 1 /\ Schedulable => \A d \in plan[v[k].name[1]] : <<d>> \in v[k].uses

LEMMA OrderedIs ==
  ASSUME verified \in Seq(Declaration)
  PROVE  FileIsOrdered <=> Chained(verified, {}) /\ Complete(verified)
<1>1. DOMAIN verified = 1 .. Len(verified)
  OBVIOUS
<1> QED
  BY <1>1 DEF FileIsOrdered, Chained, Complete, NamesBefore

LEMMA CompleteJoins ==
  ASSUME NEW v \in Seq(Declaration), NEW b \in Seq(Declaration), Complete(v), Complete(b)
  PROVE  Complete(v \o b)
<1> DEFINE n == Len(v)
           m == Len(b)
           s == v \o b
<1>1. n \in Nat /\ m \in Nat
  OBVIOUS
<1>2. Len(s) = n + m /\ \A q \in 1 .. n + m : s[q] = IF q <= n THEN v[q] ELSE b[q - n]
  BY ConcatProperties
<1> HIDE DEF s
<1>3. ASSUME NEW k \in 1 .. n + m
      PROVE  (\E q \in 1 .. n : s[k] = v[q]) \/ (\E q \in 1 .. m : s[k] = b[q])
  <2>1. CASE k <= n
    <3>1. k \in 1 .. n /\ s[k] = v[k]
      BY <1>1, <1>2, <2>1
    <3> QED
      BY <3>1
  <2>2. CASE ~ (k <= n)
    <3>1. k - n \in 1 .. m /\ s[k] = b[k - n]
      BY <1>1, <1>2, <2>2
    <3> QED
      BY <3>1
  <2> QED
    BY <2>1, <2>2
<1>4. Complete(s)
  BY <1>2, <1>3 DEF Complete
<1> QED
  BY <1>4 DEF s

\* The lemmas of a level, or some of them, in the order of the plan.
LEMMA InOrderIs ==
  ASSUME plan \in Plans, NEW S \in SUBSET Level
  PROVE  \E n \in Nat :
           /\ InOrder(S) \in [1 .. n -> S]
           /\ \A j, k \in 1 .. n : j # k => InOrder(S)[j] # InOrder(S)[k]
           /\ \A i \in S : \E k \in 1 .. n : InOrder(S)[k] = i
<1>1. S \in SUBSET (1 .. Len(plan)) /\ Len(plan) \in Nat
  BY LemmasAre
<1>2. IsFiniteSet(1 .. Len(plan))
  <2>1. PICK n \in Nat : n = Len(plan)
    BY <1>1
  <2>2. PICK a \in Int : a = 1
    OBVIOUS
  <2>3. IsFiniteSet(a .. n)
    BY FS_Interval
  <2> QED
    BY <2>1, <2>2, <2>3
<1>3. S \in SUBSET Nat /\ IsFiniteSet(S)
  <2>1. S \in SUBSET Nat
    BY <1>1
  <2>2. IsFiniteSet(S)
    BY <1>1, <1>2, FS_Subset
  <2> QED
    BY <2>1, <2>2
<1>4. Cardinality(S) \in Nat /\ Sorts(InOrder(S), S)
  BY <1>3, InOrderSorts
<1>0. PICK f : f = InOrder(S)
  OBVIOUS
<1>5. PICK n \in Nat : /\ n = Cardinality(S) /\ f \in [1 .. n -> S]
                       /\ \A k, m \in 1 .. n : k < m => f[k] < f[m]
                       /\ \A i \in S : \E k \in 1 .. n : f[k] = i
  BY <1>4, <1>0 DEF Sorts
<1>6. ASSUME NEW j \in 1 .. n, NEW k \in 1 .. n, j # k
      PROVE  f[j] # f[k]
  <2>1. f[j] \in S /\ f[k] \in S
    BY <1>5
  <2>2. f[j] \in Nat /\ f[k] \in Nat /\ (j < k \/ k < j)
    <3>1. f[j] \in Nat /\ f[k] \in Nat
      BY <1>3, <2>1
    <3>2. j \in Int /\ k \in Int
      OBVIOUS
    <3>3. j < k \/ k < j
      BY <1>6, <3>2
    <3> QED
      BY <3>1, <3>3
  <2>3. CASE j < k
    BY <1>5, <2>2, <2>3
  <2>4. CASE k < j
    BY <1>5, <2>2, <2>4
  <2> QED
    BY <2>2, <2>3, <2>4
<1> QED
  BY <1>0, <1>5, <1>6

\* A sub-lemma's name is longer than its lemma's, and begins with it.
LEMMA SubNamesAre ==
  ASSUME NEW i, NEW t, NEW known, TaskFits(i, t, known), NEW c \in Declared(t.codes)
  PROVE  c \in Seq(Nat) /\ Len(c) >= 2 /\ c[1] = i
<1>1. PICK codes \in Seq(Declaration) : codes = t.codes
  BY DEF TaskFits, Task
<1>2. PICK k \in 1 .. Len(codes) : c = codes[k].name
  BY <1>1, DeclaredAre
<1>3. Passed(i, t.frames, c) /\ c \in Seq(Nat)
  BY <1>1, <1>2, DeclarationsAre DEF TaskFits
<1>4. PICK m \in 1 .. Len(t.frames) : PassedAt(i, t.frames, c, m)
  BY <1>3 DEF Passed
<1>5. t.frames \in Seq(Frame)
  BY DEF TaskFits, Task
<1>6. m \in Nat /\ m >= 1 /\ Len(c) \in Nat
  BY <1>3, <1>5
<1> QED
  BY <1>3, <1>4, <1>6 DEF PassedAt

SubNames == UNION {Declared(tasks[i].codes) : i \in Level}
SubCodes ==
  LET subs == InOrder({i \in Level : tasks[i].frames # <<>>})
  IN FlattenSeq([k \in DOMAIN subs |-> tasks[subs[k]].codes])

LEMMA SubCodesAre ==
  ASSUME plan \in Plans, \A i \in Level : TaskFits(i, tasks[i], Declared(verified))
  PROVE  /\ SubCodes \in Seq(Declaration) /\ Chained(SubCodes, Declared(verified))
         /\ Declared(SubCodes) = SubNames
<1> DEFINE S == {i \in Level : tasks[i].frames # <<>>}
<1>0. PICK f : f = InOrder(S)
  OBVIOUS
<1>1. PICK n \in Nat : /\ f \in [1 .. n -> S]
                       /\ \A j, k \in 1 .. n : j # k => f[j] # f[k]
                       /\ \A i \in S : \E k \in 1 .. n : f[k] = i
  <2>1. S \in SUBSET Level
    OBVIOUS
  <2> HIDE DEF S
  <2> QED
    BY <1>0, <2>1, InOrderIs
<1>2. PICK B : B = [k \in 1 .. n |-> tasks[f[k]].codes]
  OBVIOUS
<1>3. SubCodes = FlattenSeq(B)
  <2>1. DOMAIN f = 1 .. n
    BY <1>1
  <2> QED
    BY <1>0, <1>2, <2>1 DEF SubCodes
<1>4. \A i \in Level : tasks[i].codes \in Seq(Declaration)
  BY DEF TaskFits, Task
<1>5. \A k \in 1 .. n : f[k] \in Level /\ B[k] = tasks[f[k]].codes /\ B[k] \in Seq(Declaration)
  BY <1>1, <1>2, <1>4
<1>6. B \in Seq(Seq(Declaration)) /\ Len(B) = n
  <2>1. B \in [1 .. n -> Seq(Declaration)]
    BY <1>2, <1>5
  <2>2. B \in Seq(Seq(Declaration))
    BY <2>1, IsASeq
  <2> QED
    BY <2>1, <2>2, LenProperties
<1>7. \A k \in 1 .. n : Chained(B[k], Declared(verified))
  BY <1>5 DEF TaskFits
<1>8. ASSUME NEW j \in 1 .. n, NEW k \in 1 .. n, j # k, NEW c \in Declared(B[j]),
             c \in Declared(B[k])
      PROVE  FALSE
  <2>1. c[1] = f[j]
    BY <1>5, <1>8, SubNamesAre
  <2>2. c[1] = f[k]
    BY <1>5, <1>8, SubNamesAre
  <2> QED
    BY <1>1, <1>8, <2>1, <2>2
<1>9. Blocks(B, Declared(verified))
  BY <1>6, <1>7, <1>8 DEF Blocks
<1>10. /\ FlattenSeq(B) \in Seq(Declaration) /\ Chained(FlattenSeq(B), Declared(verified))
       /\ Declared(FlattenSeq(B)) = UNION {Declared(B[k]) : k \in 1 .. Len(B)}
  BY <1>9, BlocksFlatten
<1>11. UNION {Declared(B[k]) : k \in 1 .. n} = SubNames
  <2>1. ASSUME NEW x \in UNION {Declared(B[k]) : k \in 1 .. n}
        PROVE  x \in SubNames
    BY <1>5 DEF SubNames
  <2>2. ASSUME NEW x \in SubNames
        PROVE  x \in UNION {Declared(B[k]) : k \in 1 .. n}
    <3>1. PICK i \in Level : x \in Declared(tasks[i].codes)
      BY DEF SubNames
    <3>2. i \in S
      <4>1. tasks[i].codes # <<>>
        BY <3>1, EmptyIs
      <4> QED
        BY <4>1 DEF TaskFits
    <3>3. PICK k \in 1 .. n : f[k] = i
      BY <1>1, <3>2
    <3> QED
      BY <1>5, <3>1, <3>3
  <2> QED
    BY <2>1, <2>2
<1> QED
  BY <1>3, <1>6, <1>10, <1>11

ProvedCodes ==
  LET proved == InOrder(Level \ Failed)
  IN [k \in DOMAIN proved |-> Code(proved[k])]

LEMMA ProvedCodesAre ==
  ASSUME plan \in Plans, verified \in Seq(Declaration), Finished,
         \A i \in Level : TaskFits(i, tasks[i], Declared(verified))
  PROVE  /\ ProvedCodes \in Seq(Declaration)
         /\ Chained(ProvedCodes, Declared(verified) \union SubNames)
         /\ Declared(ProvedCodes) = {<<i>> : i \in Level \ Failed}
         /\ \A k \in 1 .. Len(ProvedCodes) :
              /\ ProvedCodes[k].name[1] \in Level
              /\ Declared(verified) \subseteq ProvedCodes[k].uses
<1> DEFINE P == Level \ Failed
<1>0. PICK f : f = InOrder(P)
  OBVIOUS
<1>1. PICK n \in Nat : /\ f \in [1 .. n -> P]
                       /\ \A j, k \in 1 .. n : j # k => f[j] # f[k]
                       /\ \A i \in P : \E k \in 1 .. n : f[k] = i
  <2>1. P \in SUBSET Level
    OBVIOUS
  <2> HIDE DEF P
  <2> QED
    BY <1>0, <2>1, InOrderIs
<1>2. PICK Q : Q = [k \in 1 .. n |-> Code(f[k])]
  OBVIOUS
<1>3. ProvedCodes = Q
  <2>1. DOMAIN f = 1 .. n
    BY <1>1
  <2> QED
    BY <1>0, <1>2, <2>1 DEF ProvedCodes
<1>4. ASSUME NEW k \in 1 .. n
      PROVE  /\ f[k] \in P /\ f[k] \in Nat /\ Q[k] \in Declaration /\ Q[k].name = <<f[k]>>
             /\ Q[k].uses = Declared(verified) \union Declared(tasks[f[k]].codes)
  <2>1. PICK i \in Level \ Failed : i = f[k]
    BY <1>1
  <2>2. i \in Nat \ {0} /\ TaskFits(i, tasks[i], Declared(verified))
    BY LemmasAre
  <2>3. tasks[i].step = "proved"
    BY DEF Finished, Failed
  <2>4. Topmost(tasks[i].frames)
    BY <2>2, <2>3 DEF TaskFits
  <2>5. Decl(i) = <<i>>
    BY <2>2, <2>4, InTurnIsNew
  <2>6. /\ Code(i) \in Declaration /\ Code(i).name = Decl(i)
        /\ Code(i).uses = Declared(verified) \union Declared(tasks[i].codes)
    BY <2>2, CodeIs
  <2>7. Q[k] = Code(i)
    BY <1>2, <2>1
  <2> QED
    BY <2>1, <2>2, <2>5, <2>6, <2>7
<1>5. Q \in Seq(Declaration) /\ Len(Q) = n
  <2>1. Q \in [1 .. n -> Declaration]
    BY <1>2, <1>4
  <2>2. Q \in Seq(Declaration)
    BY <2>1, IsASeq
  <2> QED
    BY <2>1, <2>2, LenProperties
<1>6. \A i, j \in Nat : <<i>> = <<j>> => i = j
  OBVIOUS
<1>7. ASSUME NEW k \in 1 .. n
      PROVE  /\ Q[k].uses \subseteq (Declared(verified) \union SubNames) \union NamesBefore(Q, k)
             /\ Q[k].name \notin NamesBefore(Q, k)
  <2>1. Declared(tasks[f[k]].codes) \subseteq SubNames
    BY <1>4 DEF SubNames
  <2>2. \A j \in 1 .. k - 1 : j \in 1 .. n /\ j # k
    OBVIOUS
  <2>3. ASSUME NEW j \in 1 .. k - 1
        PROVE  Q[j].name # Q[k].name
    <3>1. j \in 1 .. n /\ j # k
      BY <2>2
    <3>2. f[j] # f[k] /\ f[j] \in Nat /\ f[k] \in Nat
      BY <1>1, <1>4, <3>1
    <3>3. Q[j].name = <<f[j]>> /\ Q[k].name = <<f[k]>>
      BY <1>4, <3>1
    <3> QED
      BY <1>6, <3>2, <3>3
  <2> QED
    BY <1>4, <2>1, <2>3 DEF NamesBefore
<1>8. Chained(Q, Declared(verified) \union SubNames)
  BY <1>5, <1>7 DEF Chained
<1>9. Declared(Q) = {<<i>> : i \in P}
  <2>1. Declared(Q) = {Q[k].name : k \in 1 .. n}
    BY <1>5, DeclaredAre
  <2>2. \A x \in Declared(Q) : x \in {<<i>> : i \in P}
    BY <1>4, <2>1
  <2>3. ASSUME NEW i \in P
        PROVE  <<i>> \in Declared(Q)
    <3>1. PICK k \in 1 .. n : f[k] = i
      BY <1>1
    <3> QED
      BY <1>4, <2>1, <3>1
  <2> QED
    BY <2>2, <2>3
<1>10. \A k \in 1 .. n : Q[k].name[1] \in Level /\ Declared(verified) \subseteq Q[k].uses
  BY <1>4, OneIsSeq
<1> QED
  BY <1>3, <1>5, <1>8, <1>9, <1>10

LEMMA FileDiffers ==
  ASSUME ExecutionInv, LevelInv, NEW c \in Declared(verified)
  PROVE  c \notin SubNames /\ \A i \in Level : c # <<i>>
<1>1. c[1] \in Lemmas /\ LevelOf(c[1]) < level
  BY DEF LevelInv, Earlier
<1>2. \A i \in Level : LevelOf(i) = level /\ i \in Nat
  BY LemmasAre DEF Level, ExecutionInv
<1>3. level \in Nat
  BY DEF ExecutionInv
<1>4. \A i \in Level : c[1] # i
  BY <1>1, <1>2, <1>3
<1>5. \A i \in Level : c \notin Declared(tasks[i].codes)
  BY <1>4, SubNamesAre DEF LevelInv
<1>6. \A i \in Level : c # <<i>>
  BY <1>2, <1>4, OneIsSeq
<1> QED
  BY <1>5, <1>6 DEF SubNames

LEMMA MergedIs ==
  ASSUME ExecutionInv, Finished, phase \in {"level", "rescue"}
  PROVE  /\ Merged \in Seq(Declaration)
         /\ Declared(Merged)
              = (Declared(verified) \union SubNames) \union {<<i>> : i \in Level \ Failed}
         /\ Chained(Merged, {}) /\ Complete(Merged)
<1>1. LevelInv /\ plan \in Plans /\ verified \in Seq(Declaration) /\ level \in Nat
  BY DEF ExecutionInv
<1>2. \A i \in Level : TaskFits(i, tasks[i], Declared(verified))
  BY <1>1 DEF LevelInv
<1>3. PICK S \in Seq(Declaration) : /\ S = SubCodes /\ Chained(S, Declared(verified))
                                    /\ Declared(S) = SubNames
  BY <1>1, <1>2, SubCodesAre
<1>4. PICK Q \in Seq(Declaration) :
        /\ Q = ProvedCodes /\ Chained(Q, Declared(verified) \union SubNames)
        /\ Declared(Q) = {<<i>> : i \in Level \ Failed}
        /\ \A k \in 1 .. Len(Q) : Q[k].name[1] \in Level /\ Declared(verified) \subseteq Q[k].uses
  BY <1>1, <1>2, ProvedCodesAre
<1>5. Merged = (verified \o S) \o Q
  BY <1>3, <1>4 DEF Merged, SubCodes, ProvedCodes
<1>6. Chained(verified, {}) /\ Complete(verified)
  BY <1>1, OrderedIs DEF ExecutionInv
<1>7. Declared(verified) \intersect Declared(S) = {}
  BY <1>1, <1>3, FileDiffers
<1>8. Chained(S, {} \union Declared(verified))
  <2>1. {} \union Declared(verified) = Declared(verified)
    OBVIOUS
  <2> QED
    BY <1>3, <2>1
<1>9. PICK F \in Seq(Declaration) :
        /\ F = verified \o S /\ Chained(F, {})
        /\ Declared(F) = Declared(verified) \union SubNames
  <2>1. /\ verified \o S \in Seq(Declaration) /\ Chained(verified \o S, {})
        /\ Declared(verified \o S) = Declared(verified) \union Declared(S)
    BY <1>1, <1>6, <1>7, <1>8, BlocksJoin
  <2> QED
    BY <1>3, <2>1
<1>10. Chained(Q, {} \union Declared(F))
  <2>1. {} \union Declared(F) = Declared(verified) \union SubNames
    BY <1>9
  <2> QED
    BY <1>4, <2>1
<1>11. Declared(F) \intersect Declared(Q) = {}
  <2>1. ASSUME NEW i \in Level
        PROVE  <<i>> \notin SubNames
    <3>1. Len(<<i>>) = 1
      BY <1>1, LemmasAre, OneIsSeq
    <3>2. ASSUME NEW j \in Level, <<i>> \in Declared(tasks[j].codes)
          PROVE  FALSE
      <4>1. Len(<<i>>) >= 2
        BY <1>2, <3>2, SubNamesAre
      <4> QED
        BY <3>1, <4>1
    <3> QED
      BY <3>2 DEF SubNames
  <2>2. \A c \in Declared(verified) : \A i \in Level : c # <<i>>
    BY <1>1, FileDiffers
  <2> QED
    BY <1>4, <1>9, <2>1, <2>2
<1>12. /\ F \o Q \in Seq(Declaration) /\ Chained(F \o Q, {})
       /\ Declared(F \o Q) = Declared(F) \union Declared(Q)
  BY <1>9, <1>10, <1>11, BlocksJoin
<1>13. Complete(S)
  <2>1. ASSUME NEW k \in 1 .. Len(S)
        PROVE  Len(S[k].name) # 1
    <3>1. S[k].name \in SubNames
      BY <1>3, DeclaredAre
    <3>2. PICK i \in Level : S[k].name \in Declared(tasks[i].codes)
      BY <3>1 DEF SubNames
    <3>3. S[k].name \in Seq(Nat) /\ Len(S[k].name) >= 2
      BY <1>2, <3>2, SubNamesAre
    <3>4. PICK n \in Nat : n = Len(S[k].name)
      BY <3>3
    <3>5. n >= 2
      BY <3>3, <3>4
    <3>6. n # 1
      BY <3>5
    <3> QED
      BY <3>4, <3>6
  <2> QED
    BY <2>1 DEF Complete
<1>14. Complete(Q)
  <2>1. ASSUME NEW k \in 1 .. Len(Q), Schedulable, NEW d \in plan[Q[k].name[1]]
        PROVE  <<d>> \in Q[k].uses
    <3>1. PICK i \in Level : i = Q[k].name[1]
      BY <1>4
    <3>2. i \in Lemmas /\ LevelOf(i) = level
      BY DEF Level
    <3>3. d \in Lemmas /\ LevelOf(d) < LevelOf(i)
      BY <1>1, <2>1, <3>1, <3>2, LevelsAre
    <3>4. <<d>> \in Declared(verified)
      BY <1>1, <2>1, <3>2, <3>3 DEF LevelInv, Earlier
    <3> QED
      BY <1>4, <3>4
  <2> QED
    BY <2>1 DEF Complete
<1>15. Complete(F \o Q)
  <2>1. Complete(verified \o S)
    BY <1>1, <1>6, <1>13, CompleteJoins
  <2> QED
    BY <1>9, <1>14, <2>1, CompleteJoins
<1> QED
  BY <1>4, <1>5, <1>9, <1>12, <1>15

LEMMA EndLevelKeeps ==
  ASSUME ExecutionInv, EndLevel
  PROVE  ExecutionInv'
<1>1. /\ Finished /\ phase \in {"level", "rescue"} /\ verified' = Merged
      /\ UNCHANGED <<plan, failure>>
      /\ phase = "level" => Failed = {} \/ ~ RescueEnabled
  BY DEF EndLevel
<1>2. /\ LevelInv /\ plan \in Plans /\ verified \in Seq(Declaration) /\ level \in Nat
      /\ DOMAIN tasks = Lemmas \union {Main}
  BY <1>1 DEF ExecutionInv
<1>3. Lemmas' = Lemmas /\ Main' = Main /\ (Schedulable' <=> Schedulable)
      /\ \A i : LevelOf(i)' = LevelOf(i)
  BY <1>1, SamePlan DEF Main
<1>4. /\ verified' \in Seq(Declaration) /\ Chained(verified', {}) /\ Complete(verified)'
      /\ Declared(verified')
           = (Declared(verified) \union SubNames) \union {<<i>> : i \in Level \ Failed}
  <2>1. /\ Merged \in Seq(Declaration) /\ Chained(Merged, {}) /\ Complete(Merged)
        /\ Declared(Merged)
             = (Declared(verified) \union SubNames) \union {<<i>> : i \in Level \ Failed}
    BY <1>1, MergedIs
  <2>2. Complete(verified)'
    BY <1>1, <1>3, <2>1 DEF Complete
  <2> QED
    BY <1>1, <2>1, <2>2
<1>5. FileIsOrdered'
  <2>1. DOMAIN verified' = 1 .. Len(verified')
    BY <1>4
  <2> QED
    BY <1>4, <2>1 DEF FileIsOrdered, Chained, Complete, NamesBefore
<1>6. \A i \in Level : i \in Lemmas /\ LevelOf(i) = level /\ i \in Nat /\ i # Main
  BY <1>2, LemmasAre DEF Level
<1>7. \A c \in Declared(verified') : Len(c) >= 1 /\ c[1] \in Lemmas /\ LevelOf(c[1]) <= level
  <2>1. \A c \in Declared(verified) : Len(c) >= 1 /\ c[1] \in Lemmas /\ LevelOf(c[1]) <= level
    <3>1. \A i \in Lemmas : LevelOf(i) \in Nat
      BY <1>2, LevelsAre
    <3> QED
      BY <1>2, <3>1 DEF LevelInv, Earlier
  <2>2. \A c \in SubNames : Len(c) >= 1 /\ c[1] \in Level
    <3> TAKE c \in SubNames
    <3>1. PICK i \in Level : c \in Declared(tasks[i].codes)
      BY DEF SubNames
    <3>2. c \in Seq(Nat) /\ Len(c) >= 2 /\ c[1] = i
      BY <1>2, <3>1, SubNamesAre DEF LevelInv
    <3> QED
      BY <3>2
  <2>3. \A i \in Level : Len(<<i>>) = 1 /\ <<i>>[1] = i
    BY <1>6, OneIsSeq
  <2>4. \A i \in Level : i \in Lemmas /\ LevelOf(i) <= level
    BY <1>2, <1>6
  <2> QED
    BY <1>4, <2>1, <2>2, <2>3, <2>4
<1>8. CASE Failed # {}
  <2>1. phase' = "failed" /\ UNCHANGED <<level, tasks>>
    BY <1>8 DEF EndLevel
  <2>2. Level' = Level /\ Failed' = Failed
    BY <1>1, <2>1, SameLevel DEF Failed
  <2>3. \A i \in DOMAIN tasks : Idle(i)'
    BY <1>1, <1>2, <2>1 DEF LevelInv, Idle, Finished, Busy
  <2>4. ASSUME \A i \in Level \ Failed : tasks[i].frames = <<>>
        PROVE  failure.kind = "lemma" /\ failure.lemma \notin Declared(verified')
    <3>1. PICK j \in Failed, d \in Seq(Nat) :
            failure = FailureOf(d) /\ d[1] = j /\ d \notin Declared(tasks[j].codes)
      <4>1. CASE phase = "level"
        <5>1. PICK j \in Failed : failure = FailureOf(<<j>>)
          BY <1>2, <1>8, <4>1 DEF LevelInv, Blame
        <5>2. j \in Level /\ tasks[j].codes = <<>>
          BY <1>2, <4>1 DEF LevelInv, Blame, Failed, TaskFits
        <5>3. <<j>> \in Seq(Nat) /\ <<j>>[1] = j
          BY <1>6, <5>2, OneIsSeq
        <5> QED
          BY <5>1, <5>2, <5>3, EmptyIs
      <4>2. CASE phase = "rescue"
        <5>1. PICK j \in Level, d \in {failure.lemma} : failure = FailureOf(d) /\ Blamed(j, d)
          BY <1>2, <4>2 DEF LevelInv, Blame
        <5>2. tasks[j].step # "proved"
          BY <2>4, <5>1 DEF Blamed, Failed
        <5>3. j \in Failed
          BY <1>1, <5>2 DEF Finished, Failed
        <5>4. d \in Seq(Nat) /\ d[1] = j /\ d \notin Declared(tasks[j].codes)
          BY <5>1, <5>3 DEF Blamed, Failed
        <5> QED
          BY <5>1, <5>3, <5>4
      <4> QED
        BY <1>1, <4>1, <4>2
    <3>2. d \notin SubNames
      <4>1. ASSUME NEW i \in Level, d \in Declared(tasks[i].codes)
            PROVE  FALSE
        <5>1. d[1] = i
          BY <1>2, <4>1, SubNamesAre DEF LevelInv
        <5> QED
          BY <3>1, <4>1, <5>1
      <4> QED
        BY <4>1 DEF SubNames
    <3>3. d \notin Declared(verified)
      <4>1. LevelOf(j) = level
        BY <1>6 DEF Failed
      <4>2. ~ (LevelOf(j) < level)
        BY <1>2, <4>1
      <4> QED
        BY <1>2, <3>1, <4>2 DEF LevelInv, Earlier
    <3>4. \A i \in Level \ Failed : d # <<i>>
      BY <1>6, <3>1, OneIsSeq
    <3> QED
      BY <1>4, <3>1, <3>2, <3>3, <3>4 DEF FailureOf
  <2>5. Diagnosed'
    BY <1>1, <2>1, <2>2, <2>4 DEF Diagnosed
  <2> QED
    BY <1>1, <1>2, <1>3, <1>4, <1>5, <2>1, <2>3, <2>5 DEF ExecutionInv, Phases
<1>9. CASE Failed = {} /\ level < LastLevel
  <2>1. /\ phase' = "level" /\ level' = level + 1 /\ DOMAIN tasks' = DOMAIN tasks
        /\ \A i \in DOMAIN tasks :
             tasks'[i] = Fresh(IF i # Main /\ LevelOf(i) = level + 1 THEN "queued"
                               ELSE "cancelled")
    BY <1>9 DEF EndLevel
  <2>2. PICK q \in Task, c \in Task :
          /\ q = Fresh("queued") /\ q.step = "queued" /\ q.frames = <<>>
          /\ c = Fresh("cancelled") /\ c.step = "cancelled"
          /\ \A i : TaskFits(i, q, Declared(verified'))
    BY FreshIs, FreshFits DEF TaskSteps
  <2>3. \A i : i \in Level' <=> i \in Lemmas /\ LevelOf(i) = level + 1
    BY <1>3, <2>1 DEF Level
  <2>4. \A i \in Level' : i \in DOMAIN tasks /\ tasks'[i] = q
    BY <1>2, <2>1, <2>2, <2>3, LemmasAre
  <2>5. ASSUME NEW i \in DOMAIN tasks, i \notin Level'
        PROVE  Idle(i)'
    <3>1. tasks'[i] = c
      BY <1>2, <2>1, <2>2, <2>3, <2>5
    <3> QED
      BY <2>2, <3>1 DEF Idle, Busy
  <2>6. Earlier'
    <3>1. \A i \in Lemmas : LevelOf(i) \in Nat
      BY <1>2, LevelsAre
    <3>2. \A e \in Declared(verified') : LevelOf(e[1]) < level + 1
      BY <1>2, <1>7, <3>1
    <3>3. ASSUME Schedulable, NEW d \in Lemmas, LevelOf(d) < level + 1
          PROVE  <<d>> \in Declared(verified')
      <4>1. LevelOf(d) < level \/ LevelOf(d) = level
        BY <1>2, <3>1, <3>3
      <4>2. CASE LevelOf(d) < level
        BY <1>2, <1>4, <3>3, <4>2 DEF LevelInv, Earlier
      <4>3. CASE LevelOf(d) = level
        <5>1. d \in Level \ Failed
          BY <1>9, <4>3 DEF Level
        <5> QED
          BY <1>4, <5>1
      <4> QED
        BY <4>1, <4>2, <4>3
    <3> QED
      BY <1>3, <1>7, <2>1, <3>2, <3>3 DEF Earlier
  <2>7. Blame'
    <3>1. \A i \in Level' : tasks'[i].frames = <<>> /\ tasks'[i].step = "queued"
      BY <2>2, <2>4
    <3>2. Failed' = {}
      BY <3>1 DEF Failed
    <3> QED
      BY <2>1, <3>1, <3>2 DEF Blame
  <2>8. \A i \in Level' : TaskFits(i, tasks'[i], Declared(verified'))
    BY <2>2, <2>4
  <2>9. LevelInv'
    BY <2>1, <2>5, <2>6, <2>7, <2>8 DEF LevelInv
  <2>10. level' \in Nat
    BY <1>2, <2>1
  <2> QED
    BY <1>1, <1>2, <1>3, <1>4, <1>5, <2>1, <2>9, <2>10 DEF ExecutionInv, Phases
<1>10. CASE Failed = {} /\ ~ (level < LastLevel)
  <2>1. /\ phase' = "main" /\ level' = level /\ DOMAIN tasks' = DOMAIN tasks
        /\ \A i \in DOMAIN tasks :
             tasks'[i] = Fresh(IF i = Main THEN "asking" ELSE "cancelled")
    BY <1>10 DEF EndLevel
  <2>2. PICK q \in Task, c \in Task :
          /\ q = Fresh("asking") /\ q.step = "asking" /\ q.frames = <<>>
          /\ c = Fresh("cancelled") /\ c.step = "cancelled"
    BY FreshIs DEF TaskSteps
  <2>3. Main \in DOMAIN tasks /\ tasks'[Main] = q
    BY <1>2, <2>1, <2>2
  <2>4. \A i \in DOMAIN tasks \ {Main} : Idle(i)'
    BY <2>1, <2>2 DEF Idle, Busy
  <2>5. MainInv'
    BY <1>3, <1>7, <2>1, <2>2, <2>3, <2>4 DEF MainInv
  <2> QED
    BY <1>1, <1>2, <1>3, <1>4, <1>5, <2>1, <2>5 DEF ExecutionInv, Phases
<1> QED
  BY <1>8, <1>9, <1>10

-----------------------------------------------------------------------------
(* The theorems about the lemma executor *)

LEMMA ExecutionStep == ExecutionInv /\ [LemmaNext]_lemmaVars => ExecutionInv'
<1>1. SUFFICES ASSUME ExecutionInv, [LemmaNext]_lemmaVars PROVE ExecutionInv'
  OBVIOUS
<1>2. ASSUME NEW i \in DOMAIN tasks,
             \/ Acquire(i) \/ Sample(i) \/ CheckFails(i) \/ Repair(i) \/ CheckPasses(i)
             \/ Decompose(i) \/ Raise(i)
      PROVE  ExecutionInv'
  BY <1>1, <1>2, AcquireKeeps, SampleKeeps, CheckFailsKeeps, RepairKeeps, CheckPassesKeeps,
     DecomposeKeeps, RaiseKeeps
<1>3. CASE Rescue
  BY <1>1, <1>3, RescueKeeps
<1>4. CASE EndLevel
  BY <1>1, <1>4, EndLevelKeeps
<1>5. CASE EndMain
  BY <1>1, <1>5, EndMainKeeps
<1>6. CASE Report
  BY <1>1, <1>6, ReportKeeps
<1>7. CASE Timeout
  BY <1>1, <1>7, TimeoutKeeps
<1>8. CASE UNCHANGED lemmaVars
  <2>1. plan' = plan /\ phase' = phase /\ level' = level /\ tasks' = tasks
        /\ verified' = verified /\ failure' = failure
    BY <1>8 DEF lemmaVars
  <2>2. Lemmas' = Lemmas /\ (Schedulable' <=> Schedulable) /\ Level' = Level /\ Main' = Main
    BY <2>1, SamePlan, SameLevel DEF Main
  <2>3. Failed' = Failed /\ Declared(verified') = Declared(verified)
        /\ \A i : Idle(i)' <=> Idle(i)
    BY <2>1, <2>2 DEF Failed, Declared, Idle
  <2>4. Earlier => Earlier'
    BY <2>1, SameEarlier
  <2>5. Blame => Blame'
    BY <2>1, <2>2, <2>3 DEF Blame, Blamed
  <2>6. LevelInv => LevelInv'
    BY <2>1, <2>2, <2>3, <2>4, <2>5 DEF LevelInv
  <2>7. MainInv => MainInv'
    BY <2>1, <2>2, <2>3 DEF MainInv
  <2>8. Diagnosed => Diagnosed'
    BY <2>1, <2>2, <2>3 DEF Diagnosed
  <2>9. FileIsOrdered'
    BY <1>1, <2>1, SameFile DEF ExecutionInv
  <2> QED
    BY <1>1, <2>1, <2>2, <2>3, <2>6, <2>7, <2>8, <2>9 DEF ExecutionInv
<1> QED
  BY <1>1, <1>2, <1>3, <1>4, <1>5, <1>6, <1>7, <1>8 DEF LemmaNext, Step, Done

LEMMA ExecutionBegins == LemmaInit => ExecutionInv
<1>1. SUFFICES ASSUME LemmaInit PROVE ExecutionInv
  OBVIOUS
<1>2. /\ plan \in Plans /\ phase = "level" /\ level = 0 /\ verified = <<>>
      /\ failure = NoFailure /\ DOMAIN tasks = Lemmas \union {Main}
      /\ \A i \in DOMAIN tasks :
           tasks[i] = Fresh(IF i \in Level THEN "queued" ELSE "cancelled")
  BY <1>1 DEF LemmaInit
<1>3. Declared(verified) = {} /\ verified \in Seq(Declaration) /\ level \in Nat
  BY <1>2, EmptyIs
<1>4. FileIsOrdered
  BY <1>2 DEF FileIsOrdered
<1>5. PICK q \in Task, c \in Task :
        /\ q = Fresh("queued") /\ q.step = "queued" /\ q.frames = <<>>
        /\ c = Fresh("cancelled") /\ c.step = "cancelled"
        /\ \A i : TaskFits(i, q, Declared(verified))
  BY FreshIs, FreshFits DEF TaskSteps
<1>6. \A i \in Level : i \in DOMAIN tasks /\ tasks[i] = q
  BY <1>2, <1>5 DEF Level
<1>7. \A i \in DOMAIN tasks \ Level : Idle(i)
  BY <1>2, <1>5 DEF Idle, Busy
<1>8. Earlier
  <2>1. \A i \in Lemmas : ~ (LevelOf(i) < level)
    BY <1>2, LevelsAre
  <2> QED
    BY <1>3, <2>1 DEF Earlier
<1>9. Blame
  BY <1>2, <1>5, <1>6 DEF Blame, Failed
<1>10. LevelInv
  BY <1>5, <1>6, <1>7, <1>8, <1>9 DEF LevelInv
<1> QED
  BY <1>2, <1>3, <1>4, <1>10 DEF ExecutionInv, Phases

LEMMA ExecutionHolds == LemmaSpec => []ExecutionInv
  BY ExecutionBegins, ExecutionStep, PTL DEF LemmaSpec

\* Whatever was proved, split and merged in whatever order, each declaration of the file
\* that is kept was checked with nothing but what stands before it (lemma_executor.py,
\* the merge at the end of a level).
THEOREM FilesAreOrdered == LemmaSpec => []FileIsOrdered
<1>1. ExecutionInv => FileIsOrdered
  BY DEF ExecutionInv
<1> QED
  BY <1>1, ExecutionHolds, PTL

\* The failure that is reported is of a declaration that was not proved, or of the budget
\* (last_failure).
THEOREM DiagnosticsAreOfFailures == LemmaSpec => []DiagnosticNamesAFailure
<1>1. ExecutionInv => DiagnosticNamesAFailure
  BY DEF ExecutionInv, DiagnosticNamesAFailure, Diagnosed
<1> QED
  BY <1>1, ExecutionHolds, PTL

\* When the execution has ended without an exception, no proof attempt is under way.
THEOREM NothingIsLeft == LemmaSpec => []NothingRunsOn
<1>1. ExecutionInv => NothingRunsOn
  BY DEF ExecutionInv, NothingRunsOn, Ended, Active, Idle
<1> QED
  BY <1>1, ExecutionHolds, PTL
=============================================================================
