----------------------------- MODULE ReactSolve -----------------------------
(***************************************************************************)
(* One problem in the ReAct agent (agent/react_agent.py): the loop over    *)
(* model actions, its step, tool and revision budgets, tool approvals, the *)
(* conclusion gate (agent/conclude_gate.py) with the evaluation of formal  *)
(* evidence (agent/formal_evidence.py, verification/goals.py), and the     *)
(* resume of a checkpoint after a pause, a crash or an end.                *)
(*                                                                         *)
(* The trace is what a checkpoint stores.  The model's choices (which      *)
(* action, which evidence id), the tools' results and the reviewers' vote  *)
(* are nondeterministic.  SolveSession has the same run from outside.      *)
(***************************************************************************)
EXTENDS Integers, Sequences, FiniteSets

CONSTANTS
  Claims,           \* the goals the agent may work on, the problem among them
  Tools,            \* the kinds of tool that are registered
  Hitl,             \* hitl enabled, mode not "auto", ask_on_reviewer_block
  ApprovalTools,    \* hitl.approval_tools without hitl.auto_approve_tools
  MaxSteps,         \* max_react_steps
  MaxTools,         \* max_tool_calls
  MaxRevisions,     \* max_conclusion_revisions; negative: unlimited
  MaxRepeats,       \* max_identical_action_repeats
  MaxInterrupts,    \* hitl.max_interrupts_per_run
  MaxCrashes,       \* bound: how often a running solve is lost
  NoId

\* "formal": formalize, lean_check; "lemmas": tactic_search, prove_by_lemmas, whose
\* reports the evaluator does not count as a verifier's; "plot": plot_figure.
FormalActs == {"formal", "lemmas"}
ToolActs == FormalActs \union {"plot", "tool"}
\* What a generation may come to: a registered tool, a conclusion, or a thought,
\* into which a response without a readable action degrades.
Acts == Tools \union {"think", "conclude"}

EvidenceIds == FormalActs \X Claims  \* the artifact, a hash in the code, is left out
ASSUME FlagsAssumption == Hitl \in BOOLEAN
ASSUME ToolsAssumption == Tools \subseteq ToolActs /\ ApprovalTools \subseteq Tools
ASSUME BudgetAssumption == MaxSteps \in Nat /\ MaxTools \in Nat /\ MaxRevisions \in Int
                           /\ MaxRepeats \in Nat /\ MaxInterrupts \in Nat
                           /\ MaxCrashes \in Nat
ASSUME IdAssumption == NoId \notin EvidenceIds

VARIABLES
  demands,    \* what the problem asks of a conclusion; it never changes
  trace,      \* the ReActTrace in memory
  ckpt,       \* the last checkpoint of it
  status,     \* where the run stands, or how it ended
  doing,      \* the tool that is running, and whether a person approved it
  revisions,  \* conclusion_revisions of the running solve
  toolCalls,  \* tool_calls of the running solve
  accepted,   \* accepted_formal_evidence_id
  ran,        \* history: how many tool executions were started
  crashes     \* history: how often a running solve was lost

counters == <<revisions, toolCalls>>
vars == <<demands, trace, ckpt, status, doing, counters, accepted, ran, crashes>>

-----------------------------------------------------------------------------
Ids == EvidenceIds \union {NoId}
\* What a turn's observation says.  "bare" is a Lean success in which no
\* declaration was identified; "missing" a conclusion without its prerequisite.
Results == {"proved", "bare", "failed", "unavailable", "done", "responded",
            "invalid", "vetoed", "rejected", "noBudget", "missing"}
NonConsuming == {"invalid", "vetoed", "rejected", "noBudget", "missing"}
Passed == {"proved", "bare", "done", "responded"}
Turn == [act : Acts, result : Results, id : Ids]

\* A pending interaction: a tool awaiting approval, or one of the gate's two questions.
Pendings == {"none", "blocked", "exhausted"} \union Tools
Trace == [turns : Seq(Turn), goal : Claims, tools : Nat, concluded : Nat,
          decisions : Nat, pending : Pendings]
Outcomes == {"verified", "reviewed", "unreviewed", "best_effort", "blocked"}
Running == {"thinking", "acting"}
Statuses == Outcomes \union Running \union {"paused", "stopped"}
Idle == [act |-> "none", approved |-> FALSE]

\* attach_formal_evidence: the id binds a formal tool's artifact to the current goal.
EvidenceOf(act, goal) == IF act \in FormalActs THEN <<act, goal>> ELSE NoId
\* A successful check proves something only if a declaration is found in its code.
LeanResults == {"proved", "bare", "failed", "unavailable"}
ResultsOf(act) ==
  CASE act = "formal" -> LeanResults
    [] act = "lemmas" -> {"proved", "failed", "unavailable"}
    [] OTHER -> {"done", "failed"}

AsTurn(act, result, id) == [act |-> act, result |-> result, id |-> id]
WithTurn(t, turn) == [t EXCEPT !.turns = Append(@, turn)]
Larger(m, n) == IF m >= n THEN m ELSE n

Concludes(turns) == {i \in DOMAIN turns : turns[i].act = "conclude"}
Attempts(turns) == {i \in Concludes(turns) : turns[i].result \notin NonConsuming}
Calls(turns) == {i \in DOMAIN turns : /\ turns[i].act \in Tools
                                      /\ turns[i].result \notin NonConsuming}

\* The counters a resume rebuilds from the trace and its budget_consumption.
\* Mutant: a resumed run starts to count its revisions anew.
RevisionsAnew(t) == 0
RevisionsOf(t) == Larger(Cardinality(Attempts(t.turns)), t.concluded)
ToolCallsOf(t) == Larger(Cardinality(Calls(t.turns)), t.tools)
Exhausted(n) == MaxRevisions >= 0 /\ n > MaxRevisions

\* The first goal is the plan's initial goal or the problem.
Fresh(goal) == [turns |-> <<>>, goal |-> goal, tools |-> 0, concluded |-> 0,
                decisions |-> 0, pending |-> "none"]

\* require_formal_verification, and requires_diagram with plot_figure available.
Demands == SUBSET (IF "plot" \in Tools THEN {"formal", "diagram"} ELSE {"formal"})
FormalRequired == "formal" \in demands
DiagramRequested == "diagram" \in demands

Init ==
  /\ demands \in Demands
  /\ \E goal \in Claims : trace = Fresh(goal)
  /\ ckpt = trace
  /\ status = "stopped"
  /\ doing = Idle
  /\ revisions = 0 /\ toolCalls = 0
  /\ accepted = NoId
  /\ ran = 0 /\ crashes = 0

\* trace.turns.append, on_checkpoint.
Store(t) == trace' = t /\ ckpt' = t
HasStep == status = "thinking" /\ Len(trace.turns) < MaxSteps
MayInterrupt == Hitl /\ trace.decisions < MaxInterrupts

\* The solve returns, or pauses; what the process held in memory is gone.
End(outcome) == status' = outcome

-----------------------------------------------------------------------------
(* The loop: one step of the ReAct agent *)

\* _validate_action fails: the turn is recorded, nothing is charged.
Invalid(act) ==
  /\ HasStep
  /\ Store(WithTurn(trace, AsTurn(act, "invalid", NoId)))
  /\ UNCHANGED <<demands, status, doing, counters, accepted, ran, crashes>>

\* The action's fingerprint is that of each of the latest turns.
Repeated(act) ==
  /\ Len(trace.turns) >= MaxRepeats
  /\ \A i \in DOMAIN trace.turns :
       i > Len(trace.turns) - MaxRepeats => trace.turns[i].act = act
\* max_identical_action_repeats: the repeated action is recorded and the loop left.
RepeatStopped(act) ==
  /\ HasStep
  /\ Repeated(act)
  /\ Store(WithTurn(trace, AsTurn(act, "invalid", NoId)))
  /\ End("best_effort")
  /\ UNCHANGED <<demands, doing, counters, accepted, ran, crashes>>

\* Mutant: a new goal is stored without a turn.
ThinkUnrecorded(goal) ==
  /\ HasStep
  /\ Store([trace EXCEPT !.goal = goal])
  /\ UNCHANGED <<demands, status, doing, counters, accepted, ran, crashes>>
\* think, update_plan and set_goal, which are not registered tools.
Think(goal) ==
  /\ HasStep
  /\ Store([WithTurn(trace, AsTurn("think", "done", NoId)) EXCEPT !.goal = goal])
  /\ UNCHANGED <<demands, status, doing, counters, accepted, ran, crashes>>

NeedsApproval(act) == act \in ApprovalTools /\ MayInterrupt
\* Mutant: the pause is raised before the checkpoint that holds the request.
AskApprovalUnstored(act) ==
  /\ HasStep
  /\ NeedsApproval(act)
  /\ trace' = [trace EXCEPT !.pending = act]
  /\ End("paused")
  /\ UNCHANGED <<demands, ckpt, doing, counters, accepted, ran, crashes>>
\* The approval is asked for before the tool budget is looked at.
AskApproval(act) ==
  /\ HasStep
  /\ NeedsApproval(act)
  /\ Store([trace EXCEPT !.pending = act])
  /\ End("paused")
  /\ UNCHANGED <<demands, doing, counters, accepted, ran, crashes>>

OverBudget(act) ==
  /\ HasStep
  /\ ~NeedsApproval(act)
  /\ toolCalls >= MaxTools
  /\ Store([WithTurn(trace, AsTurn(act, "noBudget", NoId)) EXCEPT !.tools = toolCalls])
  /\ End("best_effort")
  /\ UNCHANGED <<demands, doing, counters, accepted, ran, crashes>>

\* Mutant: a vetoed call is refunded in the checkpoint but not in the running count.
VetoHalfRefunded(act) ==
  /\ HasStep
  /\ ~NeedsApproval(act)
  /\ toolCalls < MaxTools
  /\ Store([WithTurn(trace, AsTurn(act, "vetoed", EvidenceOf(act, trace.goal)))
             EXCEPT !.tools = toolCalls])
  /\ toolCalls' = toolCalls + 1
  /\ UNCHANGED <<demands, status, doing, revisions, accepted, ran, crashes>>
\* A pre-tool hook vetoes the call: the charge is refunded.
Veto(act) ==
  /\ HasStep
  /\ ~NeedsApproval(act)
  /\ toolCalls < MaxTools
  /\ Store([WithTurn(trace, AsTurn(act, "vetoed", EvidenceOf(act, trace.goal)))
             EXCEPT !.tools = toolCalls])
  /\ UNCHANGED <<demands, status, doing, counters, accepted, ran, crashes>>

CallTool(act) ==
  /\ HasStep
  /\ ~NeedsApproval(act)
  /\ toolCalls < MaxTools
  /\ toolCalls' = toolCalls + 1
  /\ trace' = [trace EXCEPT !.tools = toolCalls + 1]
  /\ doing' = [act |-> act, approved |-> FALSE]
  /\ status' = "acting"
  /\ ran' = ran + 1
  /\ UNCHANGED <<demands, ckpt, revisions, accepted, crashes>>
\* The call is awaited under the deadline; one that is cut off has failed.
Answers(act, late) == IF late THEN {"failed"} ELSE ResultsOf(act)
\* The observation is recorded; a tool cut off by the deadline ends the run.
ToolReturns ==
  /\ status = "acting" /\ ~doing.approved
  /\ \E late \in BOOLEAN : \E result \in Answers(doing.act, late) :
       /\ Store(WithTurn(trace, AsTurn(doing.act, result,
                                       EvidenceOf(doing.act, trace.goal))))
       /\ status' = IF late THEN "best_effort" ELSE "thinking"
  /\ doing' = Idle
  /\ UNCHANGED <<demands, counters, accepted, ran, crashes>>

\* The wall time or the model-call budget runs out before or while the model is asked.
GenerationCut ==
  /\ HasStep
  /\ End("best_effort")
  /\ UNCHANGED <<demands, trace, ckpt, doing, counters, accepted, ran, crashes>>
\* The steps are used up: an answer is synthesized from the turns.
Synthesize ==
  /\ status = "thinking" /\ ~HasStep
  /\ End("best_effort")
  /\ UNCHANGED <<demands, trace, ckpt, doing, counters, accepted, ran, crashes>>

-----------------------------------------------------------------------------
(* The conclusion gate: ConcludeGate.handle *)

\* Mutant: evidence of an earlier conclusion's scope is good enough.
InScopeEver(turns, i) == i \in DOMAIN turns
\* Turn i was taken after the latest conclusion, of whatever kind.
InScope(turns, i) ==
  /\ i \in DOMAIN turns
  /\ \A j \in DOMAIN turns : j >= i => turns[j].act # "conclude"
\* The latest formal turn in scope that carries the requested evidence id.  An
\* invalid or undecided formal turn has none, and neither has a bare conclusion.
Bound(turns, id) ==
  {i \in DOMAIN turns :
     /\ InScope(turns, i) /\ turns[i].act \in FormalActs /\ turns[i].id = id
     /\ \A j \in DOMAIN turns :
          j > i => ~(turns[j].act \in FormalActs /\ turns[j].id = id)}
HasDiagram(turns) ==
  \E i \in DOMAIN turns : InScope(turns, i) /\ turns[i].act = "plot"
                          /\ turns[i].result \in Passed

Prerequisites(id) == /\ FormalRequired => Bound(trace.turns, id) # {}
                     /\ DiagramRequested => HasDiagram(trace.turns)
ConcludeMissing(id) ==
  /\ HasStep
  /\ ~Prerequisites(id) \/ DiagramRequested   \* the answer may lack the figure
  /\ Store(WithTurn(trace, AsTurn("conclude", "missing", NoId)))
  /\ UNCHANGED <<demands, status, doing, counters, accepted, ran, crashes>>

\* The conclude turn is appended and counted; earlier conclude turns of any kind count.
Concluded ==
  LET t == WithTurn(trace, AsTurn("conclude", "done", NoId))
  IN [t EXCEPT !.concluded = Larger(revisions, Cardinality(Concludes(t.turns)))]
\* The reviewer panel hits the deadline.
ConcludeLate(id) ==
  /\ HasStep
  /\ Prerequisites(id)
  /\ Store(Concluded)
  /\ End("best_effort")
  /\ UNCHANGED <<demands, doing, counters, accepted, ran, crashes>>

\* The weighed vote of the reviewers on the best candidate ("none": all abstain, or
\* there are none), unless an easy prompt or a confident answer skips the panel.
PanelVotes == {"none", "accept", "revise"}
Skipped == {"none"}
Votes == Skipped \union PanelVotes
\* GoalEvaluator.evaluate on the bound formal report, if any, and that vote.
BlockedBy(bound) == \E t \in bound : t.result = "unavailable"
ProvesGoal(bound) ==
  \E t \in bound : /\ t.act = "formal" /\ t.result = "proved"
                   /\ t.id = EvidenceOf("formal", trace.goal)
Acceptable(bound, vote) ==
  /\ FormalRequired => ProvesGoal(bound)
  /\ \A t \in bound : t.act = "formal" => t.result \in Passed   \* a hard veto
  /\ vote # "revise"
  /\ vote = "none" => \A t \in bound : t.result \in Passed  \* the only vote left
PassedOutcome(vote) ==
  IF FormalRequired THEN "verified"
  ELSE IF vote = "none" THEN "unreviewed" ELSE "reviewed"

\* Mutant: the run is not asked how often it has interrupted the user already.
AskReviewerAlways(kind, t, outcome) ==
  IF Hitl
  THEN Store([t EXCEPT !.pending = kind]) /\ End("paused")
  ELSE Store(t) /\ End(outcome)
\* Reviewer escalation: pause for a person, or end.
AskReviewer(kind, t, outcome) ==
  IF MayInterrupt
  THEN Store([t EXCEPT !.pending = kind]) /\ End("paused")
  ELSE Store(t) /\ End(outcome)

Conclude(id, vote) ==
  /\ HasStep
  /\ Prerequisites(id)
  /\ LET bound == {trace.turns[i] : i \in Bound(trace.turns, id)}
     IN \/ /\ BlockedBy(bound)
           /\ AskReviewer("blocked", Concluded, "blocked")
           /\ UNCHANGED <<revisions, accepted>>
        \/ /\ ~BlockedBy(bound)
           /\ Acceptable(bound, vote)
           /\ Store(Concluded)
           /\ End(PassedOutcome(vote))
           /\ accepted' = IF FormalRequired THEN id ELSE accepted
           /\ UNCHANGED revisions
        \/ /\ ~BlockedBy(bound) /\ ~Acceptable(bound, vote)
           /\ IF MaxRevisions >= 0 /\ revisions >= MaxRevisions
              THEN AskReviewer("exhausted", Concluded, "best_effort")
                   /\ UNCHANGED revisions
              ELSE Store(Concluded) /\ revisions' = revisions + 1 /\ UNCHANGED status
           /\ UNCHANGED accepted
  /\ UNCHANGED <<demands, doing, toolCalls, ran, crashes>>

-----------------------------------------------------------------------------
(* Resume: a new solve hydrates the checkpoint *)

AtRest == status \notin Running
\* The budgets are rebuilt and the loop entered, unless no revision is left.
Continue(t) ==
  /\ revisions' = RevisionsOf(t)
  /\ toolCalls' = ToolCallsOf(t)
  /\ status' = IF Exhausted(RevisionsOf(t)) THEN "best_effort" ELSE "thinking"
  /\ accepted' = NoId
  /\ doing' = Idle
\* record_decision clears the pending interaction.
Decided(t) == [t EXCEPT !.decisions = @ + 1, !.pending = "none"]

\* A checkpoint without a pending interaction, or the start of the run.
Start ==
  /\ AtRest
  /\ ckpt.pending = "none"
  /\ trace' = ckpt
  /\ Continue(ckpt)
  /\ UNCHANGED <<demands, ckpt, ran, crashes>>
\* No decision, or one for another request: the pause is raised again.
PauseAgain ==
  /\ AtRest
  /\ ckpt.pending # "none"
  /\ trace' = ckpt
  /\ End("paused")
  /\ accepted' = NoId
  /\ UNCHANGED <<demands, ckpt, doing, counters, ran, crashes>>

\* Mutant: an approved action is not charged against the budget's limit.
ApproveUnlimited(act) ==
  /\ AtRest
  /\ ckpt.pending \in Tools
  /\ trace' = ckpt
  /\ doing' = [act |-> act, approved |-> TRUE]
  /\ status' = "acting"
  /\ ran' = ran + 1
  /\ accepted' = NoId
  /\ UNCHANGED <<demands, ckpt, counters, crashes>>
\* The approved (or edited) action runs at once, before the decision is recorded.
Approve(act) ==
  /\ AtRest
  /\ ckpt.pending \in Tools
  /\ ckpt.tools < MaxTools
  /\ trace' = ckpt
  /\ doing' = [act |-> act, approved |-> TRUE]
  /\ status' = "acting"
  /\ ran' = ran + 1
  /\ accepted' = NoId
  /\ UNCHANGED <<demands, ckpt, counters, crashes>>
ApprovedReturns ==
  /\ status = "acting" /\ doing.approved
  /\ \E result \in ResultsOf(doing.act) \union {"vetoed"} :
       LET turn == AsTurn(doing.act, result, EvidenceOf(doing.act, trace.goal))
           t == Decided([WithTurn(trace, turn) EXCEPT !.tools = @ + 1])
       IN Store(t) /\ Continue(t)
  /\ UNCHANGED <<demands, ran, crashes>>
\* Without budget the approved action is not run; rejected or answered, neither.
Dispose(act, result) ==
  /\ AtRest
  /\ ckpt.pending \in Tools
  /\ \/ result = "noBudget" /\ ckpt.tools >= MaxTools
     \/ result \in {"rejected", "responded"} /\ act = ckpt.pending
  /\ LET t == Decided(WithTurn(ckpt, AsTurn(act, result, NoId)))
     IN Store(t) /\ Continue(t)
  /\ UNCHANGED <<demands, ran, crashes>>

\* The answers to the gate's questions.
AcceptBestEffort ==
  /\ AtRest
  /\ ckpt.pending \in {"blocked", "exhausted"}
  /\ Store(Decided(ckpt))
  /\ End("best_effort")
  /\ accepted' = NoId
  /\ UNCHANGED <<demands, doing, counters, ran, crashes>>
Guide ==
  /\ AtRest
  /\ ckpt.pending \in {"blocked", "exhausted"}
  /\ LET t == Decided(WithTurn(ckpt, AsTurn("think", "done", NoId)))
     IN Store(t) /\ Continue(t)
  /\ UNCHANGED <<demands, ran, crashes>>

\* The solve is lost and only the checkpoint remains: the process dies, the task is
\* cancelled, or an exception leaves it, as when an approved tool meets the deadline.
Crash ==
  /\ crashes < MaxCrashes
  /\ status \in Running
  /\ crashes' = crashes + 1
  /\ status' = "stopped"
  /\ trace' = ckpt
  /\ doing' = Idle
  /\ revisions' = 0 /\ toolCalls' = 0 /\ accepted' = NoId
  /\ UNCHANGED <<demands, ckpt, ran>>

-----------------------------------------------------------------------------
Step ==
  \/ \E act \in Acts : Invalid(act) \/ RepeatStopped(act)
  \/ \E goal \in Claims : Think(goal)
  \/ \E act \in Tools :
       AskApproval(act) \/ OverBudget(act) \/ Veto(act) \/ CallTool(act)
  \/ ToolReturns \/ ApprovedReturns
  \/ GenerationCut \/ Synthesize
  \/ \E id \in Ids :
       \/ ConcludeMissing(id) \/ ConcludeLate(id)
       \/ \E vote \in Votes : Conclude(id, vote)
Resume ==
  \/ Start \/ PauseAgain \/ AcceptBestEffort \/ Guide
  \/ \E act \in Tools :
       Approve(act) \/ \E result \in {"noBudget", "rejected", "responded"} :
                          Dispose(act, result)

Next == Step \/ Resume \/ Crash

\* A running solve goes on; resuming it is up to its client, and nothing makes
\* the wall time run out before the steps do.
Fairness == WF_vars(Step)
Spec == Init /\ [][Next]_vars
FairSpec == Spec /\ Fairness

-----------------------------------------------------------------------------
TypeOK ==
  /\ demands \in Demands
  /\ trace \in Trace /\ ckpt \in Trace
  /\ status \in Statuses
  /\ doing \in [act : Tools \union {"none"}, approved : BOOLEAN]
  /\ revisions \in Nat /\ toolCalls \in Nat
  /\ accepted \in Ids
  /\ ran \in Nat /\ crashes \in Nat

(* Properties *)

\* "A formal conclusion must cite an ID created after the most recent rejected
\* conclusion": a verified answer rests on a successful Lean check of the goal in
\* force, cited by its id, that is newer than every earlier conclusion, whatever
\* pauses, crashes and goal changes lie in between.
VerifiedIsProved ==
  status = "verified" =>
    \E i \in DOMAIN trace.turns :
      /\ trace.turns[i] = AsTurn("formal", "proved", accepted)
      /\ accepted = EvidenceOf("formal", trace.goal)
      /\ {j \in Concludes(trace.turns) : j > i} = {Len(trace.turns)}

\* max_conclusion_revisions bounds the conclusions that are judged, over all
\* resumes of the run.
RevisionBound == MaxRevisions >= 0 =>
                   Cardinality(Attempts(trace.turns)) <= MaxRevisions + 1

\* Whenever the agent thinks, a crash would restore counters that are no smaller
\* than its own: no budget is regained by dying.
CountersSurvive ==
  status = "thinking" =>
    RevisionsOf(ckpt) >= revisions /\ ToolCallsOf(ckpt) >= toolCalls

\* max_tool_calls bounds the tools that are run, approved ones included, over all
\* resumes; only a call that a crash cut off may be repeated.
ToolBudgetHolds == ran <= MaxTools + crashes

\* max_interrupts_per_run bounds the decisions a person is asked for.
InterruptsBounded ==
  trace.decisions + (IF trace.pending = "none" THEN 0 ELSE 1) <= MaxInterrupts

\* A run that paused is found again with its request in the checkpoint.
PauseIsRecoverable == status = "paused" => ckpt = trace /\ ckpt.pending # "none"

\* Every running solve ends, pauses or is lost.
RunEnds == status \in Running ~> status \notin Running

=============================================================================
