--------------------------- MODULE LemmaExecutor ---------------------------
(***************************************************************************)
(* LemmaDAGExecutor (lean/lemma_executor.py), as the prove_by_lemmas tool  *)
(* runs it: the lemmas of a plan are proved level by level, those of one   *)
(* level concurrently; each tries several bodies at once and is repaired;  *)
(* the lemmas of a level that failed are split into sub-lemmas, again and  *)
(* concurrently; then the main theorem is proved from what was verified.   *)
(* A wall budget cancels the whole execution.                              *)
(*                                                                         *)
(* A declaration is named by its path: <<3>> is the third lemma of the     *)
(* plan, <<3, 1>> its first sub-lemma (named "<lemma>_sub1"), and <<>> the *)
(* main theorem.  What Lean says of a body is a choice; what the body may  *)
(* use is all that stands in the file before it.                           *)
(***************************************************************************)
EXTENDS Naturals, Sequences, FiniteSets, SequencesExt, Ordering

CONSTANTS
  Plans,          \* sequences: the set of lemmas each lemma depends on, 0 an unknown name
  MaxParallel,    \* lemma_max_parallel
  MaxRoutes,      \* the larger of route_count and max_routes_hard
  MaxRepairs,     \* max_repair_attempts
  MaxSubs,        \* bound: sub-lemmas of one decomposition, 4 in the code
  RescueEnabled,
  MaxDepth        \* rescue_max_depth

\* A plan lists for each of its lemmas the ones it names as dependencies.
ASSUME PlansAssumption == \A p \in Plans : p \in Seq(SUBSET Nat)
ASSUME BudgetAssumption ==
  /\ MaxParallel \in Nat \ {0} /\ MaxRoutes \in Nat \ {0} /\ MaxRepairs \in Nat
  /\ MaxSubs \in Nat /\ MaxDepth \in Nat /\ RescueEnabled \in BOOLEAN

VARIABLES
  plan,
  phase,      \* where execute() is
  level,      \* the level under way
  tasks,      \* the proof under way of each lemma; 0 is the main theorem
  verified,   \* verified_lemmas: declarations and what stood before each
  failure     \* last_failure: of a declaration, of the budget, or none

lemmaVars == <<plan, phase, level, tasks, verified, failure>>

-----------------------------------------------------------------------------
(* The plan and its levels *)

Lemmas == DOMAIN plan
Main == 0
\* Every dependency is known and stands earlier in the plan.
Schedulable == \A i \in Lemmas : plan[i] \subseteq 1..(i - 1)
\* Mutant: a lemma may share the level of its dependencies.
DepthBeside ==
  LET d[i \in Lemmas] == IF plan[i] = {} THEN 0 ELSE Max({d[j] : j \in plan[i]}) IN d
Depth ==
  LET d[i \in Lemmas] == IF plan[i] = {} THEN 0 ELSE 1 + Max({d[j] : j \in plan[i]}) IN d
\* _lemma_levels: by depth, or one by one.
LevelOf(i) == IF Schedulable THEN Depth[i] ELSE i - 1
Level == {i \in Lemmas : LevelOf(i) = level}
LastLevel == Max({LevelOf(i) : i \in Lemmas})

-----------------------------------------------------------------------------
(* Declarations, files and tasks *)

Declared(codes) == {codes[k].name : k \in DOMAIN codes}
\* A frame is a rescue: the parent, how many sub-lemmas it has, and the one in turn,
\* the parent itself when they are all proved.
Frame == [parent : Seq(Nat), subs : Nat, next : Nat]
TaskSteps == {"queued", "asking", "checking", "repairing", "decomposing", "proved", "failed",
          "cancelled"}
Fresh(step) == [step |-> step, tries |-> 0, routes |-> 0, frames |-> <<>>, codes |-> <<>>]
Busy == {"asking", "checking", "repairing", "decomposing"}
Active == {i \in DOMAIN tasks : tasks[i].step \in Busy}

Decl(i) ==
  LET frames == tasks[i].frames
      top == frames[Len(frames)]
  IN IF i = Main THEN <<>>
     ELSE IF frames = <<>> THEN <<i>>
     ELSE IF top.next > top.subs THEN top.parent ELSE Append(top.parent, top.next)
\* What stands before the declaration in the file that is checked.
Context(i) == Declared(verified) \union Declared(tasks[i].codes)
Code(i) == [name |-> Decl(i), uses |-> Context(i)]

NoFailure == [kind |-> "none"]
FailureOf(declaration) == [kind |-> "lemma", lemma |-> declaration]
OutOfTime == [kind |-> "timeout"]

LemmaInit ==
  /\ plan \in Plans
  /\ phase = "level" /\ level = 0
  /\ tasks = [i \in Lemmas \union {Main} |->
                Fresh(IF i \in Level THEN "queued" ELSE "cancelled")]
  /\ verified = <<>> /\ failure = NoFailure

Set(i, task) == tasks' = [tasks EXCEPT ![i] = task]
Working == phase \in {"level", "rescue", "main", "raised"}

-----------------------------------------------------------------------------
(* One declaration: _prove_lemma, _verify_routes and the main theorem's loop *)

\* prove_one gets the level's semaphore.
Acquire(i) ==
  /\ Working /\ tasks[i].step = "queued"
  /\ Cardinality(Active) < Min({Cardinality(Level), MaxParallel})
  /\ Set(i, [tasks[i] EXCEPT !.step = "asking"])
  /\ UNCHANGED <<plan, phase, level, verified, failure>>

\* The search hook's body, or as many different bodies as routes.
Sample(i) ==
  /\ Working /\ tasks[i].step = "asking"
  /\ \E r \in 1..(IF i = Main THEN 1 ELSE MaxRoutes) :
       Set(i, [tasks[i] EXCEPT !.step = "checking", !.routes = r])
  /\ UNCHANGED <<plan, phase, level, verified, failure>>

\* Mutant: the first failure is the one that is kept.
GivenUpFirst(i, step) ==
  /\ Set(i, [tasks[i] EXCEPT !.step = step, !.routes = 0])
  /\ failure' = IF failure = NoFailure THEN FailureOf(Decl(i)) ELSE failure
\* The declaration is given up.  In a rescue this is final, except for a sub-lemma that
\* the model finds worth another decomposition.
GivenUp(i, step) ==
  /\ Set(i, [tasks[i] EXCEPT !.step = step, !.routes = 0])
  /\ failure' = FailureOf(Decl(i))
MayDeepen(i) ==
  LET frames == tasks[i].frames
      top == frames[Len(frames)]
  IN frames # <<>> /\ Len(frames) < MaxDepth /\ top.next <= top.subs

\* A body fails its check.  After the last one the declaration is repaired, unless the
\* budget is spent or its last failure is not repairable (failure_policy).
CheckFails(i) ==
  /\ Working /\ tasks[i].step = "checking"
  /\ IF tasks[i].routes > 1
     THEN Set(i, [tasks[i] EXCEPT !.routes = @ - 1]) /\ UNCHANGED failure
     ELSE \/ /\ tasks[i].tries < MaxRepairs
             /\ Set(i, [tasks[i] EXCEPT !.step = "repairing", !.routes = 0])
             /\ UNCHANGED failure
          \/ GivenUp(i, "failed")
          \/ MayDeepen(i) /\ GivenUp(i, "decomposing")
  /\ UNCHANGED <<plan, phase, level, verified>>
\* Mutant: only a repair without a usable body is counted.
RepairUncounted(i) ==
  /\ Working /\ tasks[i].step = "repairing"
  /\ \/ \E r \in 1..(IF i = Main THEN 1 ELSE 2) :
          Set(i, [tasks[i] EXCEPT !.step = "checking", !.routes = r]) /\ UNCHANGED failure
     \/ /\ i # Main /\ tasks[i].tries + 1 < MaxRepairs
        /\ Set(i, [tasks[i] EXCEPT !.tries = @ + 1])
        /\ UNCHANGED failure
     \/ i # Main /\ tasks[i].tries + 1 = MaxRepairs /\ GivenUp(i, "failed")
  /\ UNCHANGED <<plan, phase, level, verified>>
\* Up to two bodies; without one the try is spent on the old diagnostics.
Repair(i) ==
  /\ Working /\ tasks[i].step = "repairing"
  /\ \/ \E r \in 1..(IF i = Main THEN 1 ELSE 2) :
          /\ Set(i, [tasks[i] EXCEPT !.step = "checking", !.routes = r, !.tries = @ + 1])
          /\ UNCHANGED failure
     \/ /\ i # Main /\ tasks[i].tries + 1 < MaxRepairs
        /\ Set(i, [tasks[i] EXCEPT !.tries = @ + 1])
        /\ UNCHANGED failure
     \/ i # Main /\ tasks[i].tries + 1 = MaxRepairs /\ GivenUp(i, "failed")
     \/ i # Main /\ tasks[i].tries + 1 = MaxRepairs /\ MayDeepen(i) /\ GivenUp(i, "decomposing")
  /\ UNCHANGED <<plan, phase, level, verified>>

\* The next declaration of a rescue after its present one was proved.
Advanced(i) ==
  LET task == tasks[i]
      n == Len(task.frames)
      parentDone == task.frames[n].next > task.frames[n].subs
      outer == IF parentDone THEN SubSeq(task.frames, 1, n - 1) ELSE task.frames
  IN [task EXCEPT !.step = "asking", !.tries = 0, !.routes = 0,
                  !.codes = Append(@, Code(i)),
                  !.frames = [outer EXCEPT ![Len(outer)].next = @ + 1]]
Outermost(i) ==
  LET frames == tasks[i].frames
  IN frames = <<>> \/ (Len(frames) = 1 /\ frames[1].next > frames[1].subs)
\* The first body that passes is taken, and the checks of the others are cancelled.
CheckPasses(i) ==
  /\ Working /\ tasks[i].step = "checking"
  /\ Set(i, IF Outermost(i) THEN [tasks[i] EXCEPT !.step = "proved", !.routes = 0]
            ELSE Advanced(i))
  /\ UNCHANGED <<plan, phase, level, verified, failure>>

\* _decompose_lemma: a new frame, or nothing usable.
Decompose(i) ==
  /\ Working /\ tasks[i].step = "decomposing"
  /\ \/ \E n \in 1..MaxSubs :
          Set(i, [tasks[i] EXCEPT
                    !.step = "asking", !.tries = 0,
                    !.frames = Append(@, [parent |-> Decl(i), subs |-> n, next |-> 1])])
     \/ Set(i, [tasks[i] EXCEPT !.step = "failed"])
  /\ UNCHANGED <<plan, phase, level, verified, failure>>

-----------------------------------------------------------------------------
(* execute() and the tool *)

Finished == \A i \in Level : tasks[i].step \in {"proved", "failed"}
Failed == {i \in Level : tasks[i].step = "failed"}

\* Failed lemmas are rescued, all at once.
Rescue ==
  /\ phase = "level" /\ Finished
  /\ RescueEnabled /\ Failed # {}
  /\ phase' = "rescue"
  /\ tasks' = [i \in DOMAIN tasks |->
                 IF i \in Failed THEN Fresh("decomposing") ELSE tasks[i]]
  /\ UNCHANGED <<plan, level, verified, failure>>

\* Mutant: the lemmas of the level go before their sub-lemmas.
MergedEarly ==
  LET proved == InOrder(Level \ Failed)
      subs == InOrder({i \in Level : tasks[i].frames # <<>>})
  IN verified \o [k \in DOMAIN proved |-> Code(proved[k])]
              \o FlattenSeq([k \in DOMAIN subs |-> tasks[subs[k]].codes])
\* What a level leaves: the sub-lemmas of its rescues, then its lemmas.
Merged ==
  LET proved == InOrder(Level \ Failed)
      subs == InOrder({i \in Level : tasks[i].frames # <<>>})
  IN verified \o FlattenSeq([k \in DOMAIN subs |-> tasks[subs[k]].codes])
              \o [k \in DOMAIN proved |-> Code(proved[k])]
EndLevel ==
  /\ Finished
  /\ phase = "rescue" \/ (phase = "level" /\ (Failed = {} \/ ~RescueEnabled))
  /\ verified' = Merged
  /\ IF Failed # {}
     THEN phase' = "failed" /\ UNCHANGED <<level, tasks>>
     ELSE IF level < LastLevel
     THEN /\ phase' = "level" /\ level' = level + 1
          /\ tasks' = [i \in DOMAIN tasks |->
                         Fresh(IF i # Main /\ LevelOf(i) = level + 1 THEN "queued"
                               ELSE "cancelled")]
     ELSE /\ phase' = "main"
          /\ tasks' = [i \in DOMAIN tasks |->
                         Fresh(IF i = Main THEN "asking" ELSE "cancelled")]
          /\ UNCHANGED level
  /\ UNCHANGED <<plan, failure>>

EndMain ==
  /\ phase = "main" /\ tasks[Main].step \in {"proved", "failed"}
  /\ phase' = IF tasks[Main].step = "proved" THEN "assembled" ELSE "failed"
  /\ UNCHANGED <<plan, level, tasks, verified, failure>>
\* The tool checks the assembled file once more, also for sorry.
Report ==
  /\ phase = "assembled"
  /\ phase' \in {"succeeded", "refused"}
  /\ UNCHANGED <<plan, level, tasks, verified, failure>>

\* Mutant: the checks under way are left alone.
CancelsWaiting == {i \in Active : tasks[i].step # "checking"}
Cancels == Active
\* wait_for: the execution is cancelled and waited for before the budget is reported.
Timeout ==
  /\ phase \in {"level", "rescue", "main"}
  /\ phase' = "timeout"
  /\ tasks' = [i \in DOMAIN tasks |->
                 IF i \in Cancels \/ tasks[i].step = "queued"
                 THEN [tasks[i] EXCEPT !.step = "cancelled", !.routes = 0] ELSE tasks[i]]
  /\ failure' = OutOfTime
  /\ UNCHANGED <<plan, level, verified>>

\* A model call or a check raises: the gather passes it on at once, and what else runs
\* in the level runs on, for nobody.
Raise(i) ==
  /\ Working /\ tasks[i].step \in {"asking", "checking", "repairing"}
  /\ Set(i, [tasks[i] EXCEPT !.step = "cancelled", !.routes = 0])
  /\ phase' = "raised"
  /\ UNCHANGED <<plan, level, verified, failure>>

Ended == phase \in {"succeeded", "refused", "failed", "timeout", "raised"}
Step ==
  \/ \E i \in DOMAIN tasks :
       \/ Acquire(i) \/ Sample(i) \/ CheckFails(i) \/ Repair(i) \/ CheckPasses(i)
       \/ Decompose(i) \/ Raise(i)
  \/ Rescue \/ EndLevel \/ EndMain \/ Report \/ Timeout
Done == Ended /\ Active = {} /\ UNCHANGED lemmaVars
LemmaNext == Step \/ Done

LemmaSpec == LemmaInit /\ [][LemmaNext]_lemmaVars /\ WF_lemmaVars(Step)

-----------------------------------------------------------------------------
LemmaTypeOK ==
  /\ plan \in Plans
  /\ phase \in {"level", "rescue", "main", "assembled", "succeeded", "refused", "failed",
                "timeout", "raised"}
  /\ level \in Nat
  /\ \A i \in DOMAIN tasks : tasks[i].step \in TaskSteps /\ tasks[i].tries \in 0..MaxRepairs

\* In the file that is kept, everything a declaration was checked with stands before it,
\* no name is declared twice, and a lemma of a plan without forward dependencies was
\* checked with all it depends on.
FileIsOrdered ==
  \A k \in DOMAIN verified :
    LET before == {verified[j].name : j \in 1..(k - 1)}
    IN /\ verified[k].uses \subseteq before
       /\ verified[k].name \notin before
       /\ Len(verified[k].name) = 1 /\ Schedulable =>
            \A d \in plan[verified[k].name[1]] : <<d>> \in verified[k].uses

\* "Diagnostic for the most recent abort: which declaration failed": it names one that
\* is not verified, unless another lemma of the level failed first and was rescued.
DiagnosticNamesAFailure ==
  /\ phase = "timeout" => failure = OutOfTime
  /\ phase = "failed" /\ (\A i \in Level \ Failed : tasks[i].frames = <<>>) =>
       failure.kind = "lemma" /\ failure.lemma \notin Declared(verified)

\* Nothing is proved or checked any more when the execution has ended, except after an
\* exception.
NothingRunsOn == Ended /\ phase # "raised" => Active = {}

\* The execution ends, whatever Lean and the model say: model calls and checks return.
Ends == <>Ended
=============================================================================
