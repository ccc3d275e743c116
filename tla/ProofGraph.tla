----------------------------- MODULE ProofGraph -----------------------------
(***************************************************************************)
(* The graph of proof goals (agent/proof_graph.py) as the ReAct loop, the  *)
(* conclusion gate and the goal-action endpoint use it: which goal is      *)
(* active, what marks a goal proved, and what a reset or an edit of one    *)
(* goal invalidates.  A run works on its own copy, which every turn stores *)
(* in the checkpoint; a resumed run starts from the stored copy.           *)
(***************************************************************************)
EXTENDS Naturals

CONSTANTS
  Texts,       \* statements of goals
  Problem,     \* the statement the solve was asked for
  Hashes,      \* ids that goal_id_for computes
  GoalIdFor,   \* goal_id_for: texts that differ in case and spaces share an id
  Names,       \* ids that a set_goal action gives a goal
  MaxChanges,  \* bound: set_goal actions, formal attempts and goal actions
  None

ASSUME BoundAssumption == MaxChanges \in Nat
ASSUME TextAssumption == Problem \in Texts /\ None \notin Texts
ASSUME IdAssumption == GoalIdFor \in [Texts -> Hashes] /\ None \notin Hashes \union Names

VARIABLES
  graph,      \* the graph of the run
  current,    \* trace.current_goal
  stored,     \* the checkpoint: a graph, its current goal, and a claimed goal action
  run,        \* "none" before the first run, "running", "over"
  changes,
  lapses      \* history: "aliased", "refused", "renamed", "forgot", see below

vars == <<graph, current, stored, run, changes, lapses>>

Ids == Hashes \union Names
Status == {"pending", "in_progress", "proved"}
\* evidence is the claim that the accepted formal attempt was about.  basis and void are
\* history: what the goal depended on when it was proved, and whether a goal in it has
\* been reset since.
Goal == [statement : Texts, depends_on : SUBSET Ids, status : Status,
         evidence : Texts \union {None}, basis : SUBSET Ids, void : BOOLEAN]
Graph == [goals : [Ids -> Goal \union {None}], root : Ids \union {None},
          active : Ids \union {None}]
ASSUME NoneAssumption == None \notin Goal
Empty == [goals |-> [i \in Ids |-> None], root |-> None, active |-> None]

-----------------------------------------------------------------------------
(* The graph's own operations *)

Deps(goals, i) == IF goals[i] = None THEN {} ELSE goals[i].depends_on
\* _has_cycle: a set of goals each of which depends on another one in the set.
Acyclic(goals) ==
  ~ \E C \in SUBSET Ids : C # {} /\ \A i \in C : Deps(goals, i) \intersect C # {}
\* Everything a goal depends on, directly or not, and everything that depends on it.
Ancestry(goals, i) ==
  {d \in Ids : \A C \in SUBSET Ids :
     (\A x \in C \union {i} : Deps(goals, x) \subseteq C) => d \in C}
Dependents(goals, i) ==
  {g \in Ids : \A C \in SUBSET Ids :
     (\A x \in Ids : Deps(goals, x) \intersect (C \union {i}) # {} => x \in C) => g \in C}

NewGoal(text, deps) ==
  [statement |-> text, depends_on |-> deps, status |-> "pending", evidence |-> None,
   basis |-> {}, void |-> FALSE]
\* upsert_goal; it is refused when the result has a cycle.
Upserted(goals, i, text, deps) ==
  [goals EXCEPT ![i] = IF @ = None THEN NewGoal(text, deps)
                       ELSE [@ EXCEPT !.statement = text, !.depends_on = deps]]
\* activate: a proved goal stays proved.
Activated(goals, i) ==
  [goals EXCEPT ![i].status = IF @ = "proved" THEN "proved" ELSE "in_progress"]

\* Mutant: only the direct dependents are reset.
DirectOnly(goals, i) ==
  {i} \union {g \in Ids : i \in Deps(goals, g)}
\* reset_goal, cascading.
ResetSet(goals, i) == {i} \union {g \in Dependents(goals, i) : goals[g] # None}
ResetGoals(goals, i) ==
  [g \in Ids |->
     CASE g \in ResetSet(goals, i) ->
            [goals[g] EXCEPT !.status = "pending", !.evidence = None,
                             !.basis = {}, !.void = FALSE]
       [] goals[g] # None /\ g \notin ResetSet(goals, i) ->
            [goals[g] EXCEPT !.void = @ \/ (goals[g].status = "proved"
                               /\ goals[g].basis \intersect ResetSet(goals, i) # {})]
       [] OTHER -> None]

-----------------------------------------------------------------------------
(* Starting and resuming a run *)

Claim == current
\* ensure_root, then the current goal, which becomes a goal under the root unless it
\* is the problem, word for word.
Rooted(g) ==
  IF g.root # None THEN g
  ELSE [goals |-> [Upserted(g.goals, GoalIdFor[Problem], Problem, {})
                     EXCEPT ![GoalIdFor[Problem]].status = "in_progress"],
        root |-> GoalIdFor[Problem], active |-> GoalIdFor[Problem]]
\* Mutant: an upsert without dependencies keeps those of the goal.
WithCurrentKept(g, text) ==
  LET i == GoalIdFor[text]
  IN [g EXCEPT !.goals = [Activated(Upserted(g.goals, i, text, Deps(g.goals, i)), i)
                            EXCEPT ![g.root].depends_on = @ \union {i}],
               !.active = i]
WithCurrent(g, text) ==
  LET i == GoalIdFor[text]
  IN [g EXCEPT !.goals = [Activated(Upserted(g.goals, i, text, {}), i)
                            EXCEPT ![g.root].depends_on = @ \union {i}],
               !.active = i]
\* Overwriting a goal's statement or dependencies does not reset it.
Lapse(goals, i, text, deps) ==
  {l \in {"renamed", "forgot"} :
     /\ goals[i] # None
     /\ l = "renamed" => goals[i].status = "proved" /\ goals[i].statement # text
     /\ l = "forgot" => ~(goals[i].depends_on \subseteq deps)}

\* The beginning of solve().  A cycle in the stored graph ends the run with an error.
Enter(g, text) ==
  LET rooted == Rooted(g)
      i == GoalIdFor[text]
  IN IF text = Problem
     THEN run' = "running" /\ current' = text /\ graph' = rooted /\ UNCHANGED lapses
     ELSE IF Acyclic(Upserted(rooted.goals, i, text, {}))
     THEN /\ run' = "running" /\ current' = text
          /\ graph' = WithCurrent(rooted, text)
          /\ lapses' = lapses \union Lapse(rooted.goals, i, text, {})
                         \union (IF i = rooted.root THEN {"aliased"} ELSE {})
     ELSE run' = "over" /\ UNCHANGED <<graph, current, lapses>>

Init ==
  /\ graph = Empty /\ current = Problem
  /\ stored = [graph |-> Empty, current |-> Problem, claimed |-> TRUE]
  /\ run = "none"
  /\ changes = 0 /\ lapses = {}

Change == changes < MaxChanges /\ changes' = changes + 1

\* solve() without a trace; the supervisor may pass an initial goal of its own.
Start(text) ==
  /\ run # "running" /\ stored.graph = Empty
  /\ Enter(Empty, text)
  /\ UNCHANGED <<stored, changes>>
Resume ==
  /\ run = "over" /\ stored.graph # Empty
  /\ Enter(stored.graph, stored.current)
  /\ UNCHANGED <<stored, changes>>

\* Mutant: an edit leaves the goal as it was.
ActedOnInPlace(g, i, text) ==
  LET edited == [g.goals EXCEPT ![i].statement = text]
  IN [g EXCEPT !.goals = Activated(edited, i), !.active = i]
\* _apply_goal_action on the stored graph: an edit, and a retry is an edit to the same
\* statement.
ActedOn(g, i, text) ==
  LET edited == [g.goals EXCEPT ![i].statement = text]
  IN [g EXCEPT !.goals = Activated(ResetGoals(edited, i), i), !.active = i]
\* The goal-action endpoint: the action is claimed for this checkpoint, the quota may
\* refuse the solve after that, and otherwise the trace is changed and resumed.
GoalAction(i, text) ==
  /\ run = "over" /\ ~stored.claimed
  /\ Change
  /\ stored.graph.goals[i] # None
  /\ stored' = [stored EXCEPT !.claimed = TRUE]
  /\ \/ UNCHANGED <<graph, current, run, lapses>>
     \/ /\ Enter(ActedOn(stored.graph, i, text), text)

-----------------------------------------------------------------------------
(* The turns of a run; each stores the trace *)

Checkpoint == stored' = [graph |-> graph', current |-> current', claimed |-> FALSE]

\* A set_goal action.  The goal is the current one even if the graph refuses it.
SetGoal(text, i, deps) ==
  LET goals == Upserted(graph.goals, i, text, deps)
  IN /\ run = "running"
     /\ Change
     /\ i = GoalIdFor[text] \/ i \in Names
     /\ current' = text
     /\ IF i \notin deps /\ Acyclic(goals)
        THEN /\ graph' = [graph EXCEPT !.goals = Activated(goals, i), !.active = i]
             /\ lapses' = lapses \union Lapse(graph.goals, i, text, deps)
        ELSE UNCHANGED graph /\ lapses' = lapses \union {"refused"}
     /\ Checkpoint
     /\ UNCHANGED run

\* record_formal_attempt on the active goal, whatever the goal's dependencies are; the
\* evidence is about the current goal.
FormalAttemptFails ==
  /\ run = "running"
  /\ Change
  /\ graph' = [graph EXCEPT !.goals[graph.active].status = "in_progress"]
  /\ UNCHANGED <<current, run, lapses>>
  /\ Checkpoint
FormalAttemptSucceeds ==
  /\ run = "running"
  /\ Change
  /\ graph' = [graph EXCEPT
       !.goals[graph.active] = [@ EXCEPT !.status = "proved", !.evidence = Claim,
                                         !.basis = Ancestry(graph.goals, graph.active),
                                         !.void = FALSE]]
  /\ UNCHANGED <<current, run, lapses>>
  /\ Checkpoint

\* A passed conclusion is stored as a turn; only then is the root marked proved.
Conclude ==
  /\ run = "running"
  /\ stored' = [graph |-> graph, current |-> current, claimed |-> FALSE]
  /\ graph' = [graph EXCEPT !.goals[graph.root].status = "proved"]
  /\ run' = "over"
  /\ UNCHANGED <<current, changes, lapses>>
\* Another end: an interrupt, a crash, a budget, a best-effort conclusion.
Stop ==
  /\ run = "running"
  /\ run' = "over"
  /\ UNCHANGED <<graph, current, stored, changes, lapses>>

Next ==
  \/ \E t \in Texts : Start(t)
  \/ Resume
  \/ \E i \in Ids, t \in Texts : GoalAction(i, t)
  \/ \E t \in Texts, i \in Ids, deps \in SUBSET Ids : SetGoal(t, i, deps)
  \/ FormalAttemptFails \/ FormalAttemptSucceeds
  \/ Conclude \/ Stop

Spec == Init /\ [][Next]_vars
-----------------------------------------------------------------------------
TypeOK ==
  /\ graph \in Graph /\ current \in Texts
  /\ stored \in [graph : Graph, current : Texts, claimed : BOOLEAN]
  /\ run \in {"none", "running", "over"}
  /\ changes \in 0..MaxChanges
  /\ lapses \subseteq {"aliased", "refused", "renamed", "forgot"}

Proved(goals, i) == goals[i] # None /\ goals[i].status = "proved"

\* A stored goal is proved by evidence about its own statement, except after a refused
\* set_goal, which leaves another goal active than the current one, and after a
\* set_goal that rewrites a proved goal under its explicit id.
EvidenceIsOfTheGoal ==
  lapses \intersect {"refused", "renamed"} = {} =>
    \A i \in Ids : Proved(stored.graph.goals, i) =>
      stored.graph.goals[i].evidence = stored.graph.goals[i].statement

\* No goal stays proved when a goal is reset that it depended on when it was proved, as
\* long as no upsert has dropped a dependency.
InvalidationReaches ==
  "forgot" \notin lapses =>
    \A i \in Ids : Proved(graph.goals, i) => ~graph.goals[i].void

\* "Proof goal dependencies must be acyclic": they are, so a resumed run can enter its
\* goal, unless the current goal is the problem in other words with the same id.
GoalsAreAcyclic == "aliased" \notin lapses => Acyclic(graph.goals)
=============================================================================
