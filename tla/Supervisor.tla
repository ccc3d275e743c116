----------------------------- MODULE Supervisor -----------------------------
(***************************************************************************)
(* SupervisorAgent.solve (agent/supervisor.py): intake, context, the first *)
(* ReAct round, the escalation rounds of a formal solve, serial or as      *)
(* parallel routes (agent/subagent.py), and the post-solve work.           *)
(*                                                                         *)
(* A round is one call of ReActAgent.solve (ReactSolve); here it is only   *)
(* how it ends and what its trace says of failed Lean attempts.  Prompts   *)
(* are the set of the parts they are built from.  A failure kind is named  *)
(* by the policy failure_policy.py gives it.                               *)
(***************************************************************************)
EXTENDS Naturals, FiniteSets

CONSTANTS
  Policy,        \* verifier.formal_policy
  LeanThere,     \* lean_runner is not None
  Hitl,          \* hitl.enabled
  Consolidates,  \* memory_consolidation_enabled
  Kinds,         \* the failure kinds Lean may report
  MaxRounds,     \* escalation_replan_rounds
  RouteCount,    \* deep_search_parallel_routes
  MaxSolves      \* bound: solves of the session

ASSUME SupervisorAssumption ==
  /\ Policy \in {"explicit", "all_theorems", "disabled"}
  /\ LeanThere \in BOOLEAN /\ Hitl \in BOOLEAN /\ Consolidates \in BOOLEAN
  /\ Kinds \subseteq {"retry", "repair", "abort", "replan"}
  /\ MaxRounds \in Nat /\ RouteCount \in Nat \ {0} /\ MaxSolves \in Nat

VARIABLES
  step,      \* where solve() is
  intent, formal, context,
  outcome,   \* solution and trace, as far as the loop reads them
  left,      \* rounds_left
  routes,    \* results of the parallel routes
  found,     \* history: a round of this solve ended verified
  saved,     \* the session's checkpoint
  slot,      \* _post_solve_factory is set
  post,      \* the post-solve work
  learned,   \* history: how often this solve was learned from
  solves

solving == <<step, intent, formal, context, outcome, left, routes, found>>
learning == <<slot, post, learned>>
supervisorVars == <<solving, saved, learning, solves>>

-----------------------------------------------------------------------------
(* Intake *)

\* What the patterns of supervisor_intake.py tell apart; "image" is a problem
\* without text, "theorem" one that asks for a proof but not in Lean.
Asks == {"plain", "theorem", "lean", "diagram", "image"}
Intents == {"clarify", "extend", "new_problem"}

ResolveFormal(ask) ==
  /\ Policy # "disabled"
  /\ ask = "lean" \/ (Policy = "all_theorems" /\ ask = "theorem")

ResolveIntent(raw, history, ask) ==
  IF ~history THEN "new_problem"
  ELSE IF ask \in {"lean", "diagram"} \/ raw \notin Intents THEN "extend" ELSE raw
\* The intake model proposes an intent, or nothing that can be read.
Analyzed(history, ask) == {ResolveIntent(raw, history, ask) : raw \in Intents \union {"none"}}

\* The text read from the pictures, or the problem as it was.
Extracted(ask) == IF ask = "image" THEN Asks ELSE {ask}

\* "knowledge" is what the augmentor found with the fetched sources and search
\* results of the intake.
Conversation(history) == IF history THEN {"history"} ELSE {}
Preamble(history) == {"knowledge"} \union Conversation(history)
\* The critic may find the earlier, different problem related.
PriorParts(prior) == IF prior = "other" THEN {{}, {"prior"}} ELSE {{}}

-----------------------------------------------------------------------------
(* How a round ends *)

Statuses == {"verified", "best_effort"}

\* failed: Lean attempts that failed, up to _DEEP_SEARCH_MIN_REPAIR_FAILURES.
\* told: one of them says something, which makes a digest; kinds: of these.
NoTrace == [failed |-> 0, told |-> FALSE, kinds |-> {}]
Traces == [failed : 1..2, told : {TRUE}, kinds : SUBSET Kinds] \union {NoTrace}

Outcome(status, trace) == [status |-> status, trace |-> trace]
\* A verified round ends the loop, which reads nothing more of its trace.
Outcomes == {Outcome("best_effort", t) : t \in Traces} \union {Outcome("verified", NoTrace)}
\* solve() has nothing yet, or every route failed.
Nothing == Outcome("best_effort", NoTrace)

\* A route also tells how many issues its reviewers left.
Results == [outcome : Outcomes, issues : 0..1]
Unfinished(how) == [outcome |-> Outcome(how, NoTrace), issues |-> 0]
Asked == Unfinished("asked")
Raised == Unfinished("raised")
Running == Unfinished("running")

Routes == 1..RouteCount
Solved == {r \in Routes : routes[r] \in Results}
WinnersByIssues == Solved
Winners == LET verified == {r \in Solved : routes[r].outcome.status = "verified"}
           IN IF verified # {} THEN verified ELSE Solved
\* min() is stable: fewest issues, then the order of the routes.
Beats(r, s) == routes[r].issues < routes[s].issues \/ (routes[r].issues = routes[s].issues /\ r <= s)
Select == IF Solved = {} THEN Nothing
          ELSE routes[CHOOSE r \in Winners : \A s \in Winners : Beats(r, s)].outcome

-----------------------------------------------------------------------------
SupervisorInit ==
  /\ step = "idle" /\ intent = "new_problem" /\ formal = FALSE /\ context = {}
  /\ outcome = Nothing /\ left = 0 /\ routes = [r \in Routes |-> Raised] /\ found = FALSE
  /\ saved = "none" /\ slot = FALSE /\ post = "none" /\ learned = 0 /\ solves = 0

AtRest == step \in {"idle", "returned", "paused", "failed", "down"}

\* ReActTrace.from_checkpoint and the comparison of the problems: the stored
\* checkpoint may be of this problem, of another one, or unreadable.
Priors == {"none", "other", "broken"} \union (IF saved = "none" THEN {} ELSE {"same"})

Begin(history, ask, override, prior, defer) ==
  /\ AtRest /\ solves < MaxSolves /\ post \notin {"consolidate", "user", "evaluate"}
  /\ prior \in Priors
  /\ solves' = solves + 1
  /\ \E asked \in IF prior = "same" THEN {ask} ELSE Extracted(ask) :
       /\ intent' \in IF prior = "same" THEN {"extend"} ELSE Analyzed(history, asked)
       /\ formal' = IF override = "none" THEN ResolveFormal(asked) ELSE override = "yes"
  /\ \E related \in PriorParts(prior) :
       context' = CASE prior = "same" -> context
                    [] prior # "same" /\ intent' = "clarify" -> Conversation(history) \union related
                    [] OTHER -> Preamble(history) \union related
  /\ step' = "solving" /\ outcome' = Nothing /\ left' = MaxRounds /\ found' = FALSE
  /\ routes' = [r \in Routes |-> Raised]
  /\ slot' = FALSE /\ learned' = 0 /\ post' = IF defer THEN "deferred" ELSE "none"
  /\ UNCHANGED saved

\* An unknown mode is answered before anything is read.
RefuseMode ==
  /\ AtRest /\ solves < MaxSolves /\ post \notin {"consolidate", "user", "evaluate"}
  /\ solves' = solves + 1 /\ slot' = FALSE /\ learned' = 0 /\ post' = "none" /\ step' = "returned"
  /\ outcome' = Nothing /\ found' = FALSE /\ routes' = [r \in Routes |-> Raised]
  /\ UNCHANGED <<intent, formal, context, left, saved>>

LightPath == intent = "clarify"
\* The clarify path is a subagent's configuration: no reviewers, nobody to ask.
MayAsk == Hitl /\ ~LightPath

-----------------------------------------------------------------------------
(* A round of its own: _run_react *)

Checkpointed ==
  /\ step = "solving" /\ saved # "run"
  /\ saved' = "run"
  /\ UNCHANGED <<solving, learning, solves>>

RoundReturns ==
  /\ step = "solving" /\ step' = "deciding"
  /\ outcome' \in Outcomes
  /\ found' = (found \/ outcome'.status = "verified")
  /\ UNCHANGED <<intent, formal, context, left, routes, saved, learning, solves>>

\* The pending question is in the checkpoint that _on_checkpoint wrote.
RoundAsks ==
  /\ step = "solving" /\ step' = "paused"
  /\ MayAsk
  /\ saved' = "asks"
  /\ UNCHANGED <<intent, formal, context, outcome, left, routes, found, learning, solves>>

RoundFails ==
  /\ step = "solving" /\ step' = "failed"
  /\ UNCHANGED <<intent, formal, context, outcome, left, routes, found, saved, learning, solves>>

-----------------------------------------------------------------------------
(* Escalation *)

Escalates ==
  /\ formal /\ ~LightPath /\ LeanThere
  /\ left > 0 /\ outcome.status # "verified"
  /\ outcome.trace.told

DeepSearch == outcome.trace.failed >= 2
Fallback == LET kinds == outcome.trace.kinds IN
  IF kinds # {} /\ kinds \subseteq {"retry"} THEN "retry"
  ELSE IF "abort" \in kinds /\ "repair" \notin kinds THEN "abort"
  ELSE IF "repair" \in kinds THEN "repair" ELSE "replan"

StartRound ==
  /\ step' = "solving" /\ context' = context \union {"digest"}
  /\ UNCHANGED <<intent, formal, outcome, routes, found, saved, learning, solves>>

StartRoutes ==
  /\ step' = "searching" /\ context' = context \union {"digest"}
  /\ routes' = [r \in Routes |-> Running]
  /\ UNCHANGED <<intent, formal, outcome, found, saved, learning, solves>>

FinishAlways ==
  /\ IF post = "deferred"
     THEN step' = "returned" /\ slot' = TRUE /\ UNCHANGED <<post, learned>>
     ELSE step' = "learning" /\ post' = "consolidate" /\ learned' = learned + 1 /\ UNCHANGED slot
  /\ UNCHANGED <<intent, formal, context, outcome, routes, found, saved, solves>>

\* The deferred factory, or the work itself.
Finish ==
  /\ IF LightPath \/ ~Consolidates
     THEN step' = "returned" /\ UNCHANGED learning
     ELSE IF post = "deferred"
     THEN step' = "returned" /\ slot' = TRUE /\ UNCHANGED <<post, learned>>
     ELSE step' = "learning" /\ post' = "consolidate" /\ learned' = learned + 1 /\ UNCHANGED slot
  /\ UNCHANGED <<intent, formal, context, outcome, routes, found, saved, solves>>

\* The critic's word, or with no word (None) the failure kinds decide.
Judge(verdict) == LET route == IF verdict = "none" THEN Fallback ELSE verdict IN
  IF route = "abort" THEN Finish ELSE StartRound

EscalateFreely ==
  /\ step = "deciding" /\ Escalates
  /\ UNCHANGED left
  /\ \/ DeepSearch /\ IF RouteCount > 1 THEN StartRoutes ELSE StartRound
     \/ ~DeepSearch /\ \E verdict \in {"retry", "repair", "replan", "none"} : Judge(verdict)

Escalate ==
  /\ step = "deciding" /\ Escalates
  /\ left' = left - 1
  /\ \/ DeepSearch /\ IF RouteCount > 1 THEN StartRoutes ELSE StartRound
     \/ ~DeepSearch /\ \E verdict \in {"retry", "repair", "replan", "none"} : Judge(verdict)

Return ==
  /\ step = "deciding" /\ ~Escalates
  /\ Finish /\ UNCHANGED left

-----------------------------------------------------------------------------
(* Parallel routes: run_subagents_parallel *)

\* Routes write no checkpoint; whatever one raises, the request for a person's
\* input included, leaves None in its slot.
RouteEnds(r) ==
  /\ step = "searching" /\ routes[r] = Running
  /\ \E result \in Results \union {Raised} \union (IF Hitl THEN {Asked} ELSE {}) :
       /\ routes' = [routes EXCEPT ![r] = result]
       /\ found' = (found \/ result.outcome.status = "verified")
  /\ UNCHANGED <<step, intent, formal, context, outcome, left, saved, learning, solves>>

RoutesReturn ==
  /\ step = "searching" /\ \A r \in Routes : routes[r] # Running
  /\ step' = "deciding" /\ outcome' = Select
  /\ routes' = [r \in Routes |-> Raised]
  /\ UNCHANGED <<intent, formal, context, left, found, saved, learning, solves>>

-----------------------------------------------------------------------------
(* Post-solve work *)

\* take_post_solve, by the stream or by the finisher of a detached solve.
TakePostSolveAgain ==
  /\ step = "returned" /\ slot
  /\ learned < 3 /\ UNCHANGED slot /\ post' = "consolidate" /\ learned' = learned + 1
  /\ UNCHANGED <<solving, saved, solves>>

TakePostSolve ==
  /\ step = "returned" /\ slot
  /\ slot' = FALSE /\ post' = "consolidate" /\ learned' = learned + 1
  /\ UNCHANGED <<solving, saved, solves>>

\* Each part may fail, which is recorded, and the next one runs all the same.
AfterPart == CASE post = "consolidate" -> {"user"}
               [] post = "user" -> {"evaluate"}
               [] post = "evaluate" -> {"done"}
               [] OTHER -> {}

Learn ==
  /\ post' \in AfterPart
  /\ step' = IF step = "learning" /\ post' = "done" THEN "returned" ELSE step
  /\ UNCHANGED <<intent, formal, context, outcome, left, routes, found, saved, slot, learned, solves>>

\* The process stops: what is in memory is gone, the checkpoint is not.
Shutdown ==
  /\ step # "idle" /\ step' = "down" /\ slot' = FALSE /\ post' = "none"
  /\ UNCHANGED <<intent, formal, context, outcome, left, routes, found, saved, learned, solves>>

-----------------------------------------------------------------------------
Request ==
  \/ \E history, defer \in BOOLEAN, ask \in Asks, override \in {"none", "yes", "no"}, prior \in Priors :
       Begin(history, ask, override, prior, defer)
  \/ RefuseMode
Progress ==
  \/ RoundReturns \/ RoundAsks \/ RoundFails
  \/ Escalate \/ Return \/ RoutesReturn \/ \E r \in Routes : RouteEnds(r)
  \/ TakePostSolve \/ Learn
SupervisorNext == Request \/ Progress \/ Checkpointed \/ Shutdown

SupervisorSpec == SupervisorInit /\ [][SupervisorNext]_supervisorVars
\* Model and tool calls have deadlines: every call of the agent comes back.
FairSpec == SupervisorSpec /\ WF_supervisorVars(Progress)

-----------------------------------------------------------------------------
(* Properties *)

Steps == {"idle", "solving", "deciding", "searching", "learning", "returned", "paused", "failed", "down"}
SupervisorTypeOK ==
  /\ step \in Steps /\ intent \in Intents /\ formal \in BOOLEAN
  /\ outcome \in Outcomes /\ left \in 0..MaxRounds /\ found \in BOOLEAN
  /\ routes \in [Routes -> Results \union {Asked, Raised, Running}]
  /\ context \subseteq {"history", "knowledge", "prior", "digest"}
  /\ saved \in {"none", "run", "asks"}
  /\ slot \in BOOLEAN /\ post \in {"none", "deferred", "consolidate", "user", "evaluate", "done"}
  /\ learned \in Nat /\ solves \in 0..MaxSolves

\* A proof that any round or any parallel route of a solve verified is what the
\* solve returns: no later round and no other route's result replaces it.
VerifiedIsKept == step \in {"learning", "returned"} /\ found => outcome.status = "verified"

\* A solve is learned from at most once, never before its result is final and
\* never on the clarify path, whoever takes the deferred work.
LearnedOnce ==
  /\ learned <= 1 /\ (slot => learned = 0)
  /\ (learned = 1 \/ slot => ~LightPath /\ step \in {"learning", "returned", "down"})

\* A solve ends, pauses or is stopped however its rounds fail, and the
\* post-solve work it leaves is finished or stopped.
SolveEnds ==
  /\ ~AtRest ~> AtRest
  /\ slot \/ post \in {"consolidate", "user", "evaluate"} ~> post \in {"done", "none", "deferred"}
=============================================================================
