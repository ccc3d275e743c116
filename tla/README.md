# A TLA+ model of Conjecta

Conjecta is a mathematical research agent behind a single-process FastAPI
server.  A solve is an asyncio task that a ReAct agent runs; clients follow it
over an NDJSON stream, may leave, come back, interrupt it, decide on actions it
asks permission for, and find it again after the server restarted.  This
directory holds TLA+ models of its own core logic, TLC configurations that check
them on small instances, and TLAPS proofs for all instances.

## 1. Inventory

Paths are relative to `src/math_agent/`.

| Component | State it keeps | Operations | What is hard | What makes it correct |
|---|---|---|---|---|
| Solve stream (`web/solve_session.py`) | local flags of one generator: slot held, run finished, persisted, paused | load checkpoint, admit, start row, launch, stream, finish, detach | every `await`/`yield` is a point where the client may leave, a timer or an interrupt may act | slot and registration are returned exactly once; a row says what happened |
| Admission and registry (`web/active_solves.py`) | counter, session -> task | try_acquire, release, register, discard, cancel | entry replaced by a newer run; slot handed to a finisher | counter = runs that hold a slot; no stale entry |
| Solve routes (`web/solve_routes.py`) | none | stream, decide, interrupt, status | disconnects close or cancel the generator at different points | claim before resume |
| Operations rows (`web/operations.py`) | one row per session in an external table | start, finish, list, mark interrupted | writes fail and are swallowed | no row stuck at `running`, `completed` only with an answer |
| Startup recovery (`web/run_recovery.py`, `web/app.py`) | list of leftovers | list, mark, resume | races with new requests; capped list | live runs are spared |
| Auto-resolve timers (`web/hitl_auto_resolve.py`) | timers by (session, request) | arm, disarm, expire | expiry races a person's decision; re-arming cancels the task that re-arms | at most one decision |
| Project store (`web/project_store.py`) | append-only event and checkpoint logs, in-memory index, per-root lock | add/update/delete, write/get checkpoint, claim, compact | index reload when another instance writes, compaction, torn lines | index = fold of the log; claims happen once |
| Human interaction (`agent/human_interaction.py`) | pending interaction of a trace | create, match, record, pause | crash between action and record | no action without approval |
| ReAct loop (`agent/react_agent.py`, `agent/react_state.py`) | trace: turns, goal, decisions, budget counters | step, tool call, conclude, pause, resume | counters rebuilt from the trace after a resume | budgets hold across resumes |
| Conclusion gate and formal evidence (`agent/conclude_gate.py`, `agent/formal_evidence.py`, `verification/`) | revision counter, accepted evidence | bind evidence, evaluate, accept, revise, block | stale evidence, evidence for another claim, exhausted budgets | `verified` only with fresh matching formal evidence |
| Supervisor (`agent/supervisor.py`, `agent/subagent.py`) | run context, outcome, rounds left, deferred work | intake, hydrate, delegate, escalate, select, learn | checkpoint of another problem, parallel routes that end in any order | a verified result is not lost; a solve is learned from once |
| Proof graph (`agent/proof_graph.py`) | goals, dependencies, status, the active goal | upsert, activate, record attempts and proofs, reset | ids made from hashes of texts, goals rewritten in place, edits from outside a run | a goal is proved by evidence about its own statement; a reset reaches what was built on it |
| Lemma executor (`lean/lemma_executor.py`) | plan, levels, verified codes, in-flight tasks | sample, check, repair, decompose, rescue, assemble | concurrent lemmas, time-outs, an exception in one of several tasks | the kept file is in order; the execution ends and leaves nothing running |
| Lean runner and workspace (`lean/runner.py`, `lean/workspace.py`) | semaphore, result cache, `deps_ready`, files of a shared workspace | check, set up, run, time out, kill | a set-up broken off or made by another process, cached refusals, cancellation | a verdict is Lean's; infrastructure trouble is no verdict |
| REPL pool and proof search (`lean/repl_session.py`, `lean/proof_search.py`) | idle sessions, spawn count, circuit breaker; a search's frontier | check out, request, restart, check in | a process that dies or hangs, an answer nobody waits for any more | never more processes than allowed; a search reads its own answers |
| Lean verifier and code generator (`lean/verifier.py`, `lean/codegen.py`, `lean/failure_policy.py`) | attempt loop | generate, check, repair | classification of failures | bounded repairs |
| Knowledge (`agent/memory_consolidation.py`, `agent/knowledge_evaluator.py`, `knowledge/`, `web/knowledge_*.py`) | items with a status and evidence, cards with revisions, in the cloud or in a log | consolidate, curate, extract, translate, edit, publish, revise, import | every flow reads, waits for a model and writes late | what is called verified was proved; curation spares it |
| Memory (`agent/user_memory.py`, `agent/plan_memory.py`, `web/user_memory_*.py`) | append-only files, one index per store | retrieve, record, consolidate, edit, delete | several stores of one file, answers applied late | nothing is learned twice or after its deletion |
| Billing (`billing/`) | usage rows, daily counters | check, record | check and record are apart | bounded overdraft |
| Authentication (`web/phone_auth.py`, `web/security.py`) | codes, attempt counters, sliding windows | send, verify, limit | counters at their limit | lock-out holds |
| Research runs (`web/research_runs.py`), projects, friends, news, search, evaluation, front end | rows, files | CRUD | little interaction | see `PROJECT.json` |

`PROJECT.json` lists every component with its status, and every hazard at its
line.

## 2. The project

| Module | Models | Proofs |
|---|---|---|
| `HumanDecision` | what the decision protocol promises (abstract) | |
| `SolveSession` | a run in the web backend: streams, registry, rows, timers, recovery, restarts; implements `HumanDecision` | `SolveSessionProofs` |
| `ReactSolve` | the agent's loop, its conclusion gate, budgets, approvals, resume | `ReactSolveProofs` |
| `Supervisor` | what surrounds the loop: intake, escalation rounds, parallel routes, post-solve work | `AgentProofs` |
| `ProjectStore` | the event and checkpoint logs, their indexes, claims, compaction, two processes | `ProjectStoreProofs` |
| `ProofGraph` | the goals of a run and what invalidates them | `AgentProofs` |
| `LemmaExecutor` | a plan of lemmas proved concurrently | `AgentProofs` |
| `TacticSearch` | proof searches over the pool of REPL processes | `TacticSearchProofs` |
| `LeanRunner` | Lean checks: cache, set-up, processes, repair loop, jobs | `LeanRunnerProofs` |
| `Knowledge` | items and cards of a project and the jobs that write them | `KnowledgeProofs` |
| `Memory` | a user's memories and the plans that worked | `AgentProofs` |
| `Ordering` | lists a set of numbers in order, for `LemmaExecutor` and `Memory` | |
| `Quota` | the daily quota: check, accumulate, record | `QuotaProofs` |

`MC<Module>` instantiates a module for TLC; `<Name>.cfg` is a run.  `AgentProofs`
extends four modules at once, which is why their specifications, variables and
assumptions have names of their own (`SupervisorSpec`, `LemmaSpec`, `MemorySpec`).

How the modules meet.  `SolveSession` instantiates `HumanDecision`, and its
`Task*` actions (running, pausing, resuming) are what `Supervisor` and
`ReactSolve` detail: a round of `Supervisor` is one solve of `ReactSolve`.  The
proof graph of a trace is `ProofGraph`; the Lean tools of a turn are
`LemmaExecutor`, `TacticSearch` and `LeanRunner`.  `SolveSession` takes a
checkpoint to be an atomic cell with a compare-and-set claim, which is what
`ProjectStore` checks of the log that holds it (`CheckpointsAreCells`).  The
post-solve work that `Supervisor` hands over is the consolidation of `Knowledge`
and `Memory`.

Left of the plan: the six liveness properties, which the prover does not reach and
TLC checks.  Every safety and action property of a run is proved.

## 3. SolveSession

### State and actions

A *stream* is one execution of `stream_solve_events`; `pc` says where it stands:

| `pc` | place in `solve_session.py` |
|---|---|
| `idle` / `requested` | not requested / requested, checkpoint not read (73-111) |
| `loaded` | checkpoint and decision taken over (112-186) |
| `opening` | slot taken, session and `turn_started` events, pending turn (187-298) |
| `started` | row written, agent being built (299-450) |
| `streaming` | task created and registered, events forwarded (451-489) |
| `persisted` | answer stored, row not yet finished (490-491) |
| `yielding` | the last event (done, interaction, error) is being delivered |
| `detached`, `detachedPersisted` | `finish_detached_solve` owns the run (410-442) |
| `closed` | everything given back |
| `leaked` | the generator ended between admission and the `try`: nobody gives the slot back |

The event loop is single-threaded, so one action is the code between two
suspension points; the order inside it is kept.  `try_acquire` and the registry
check are one action (`Admit`), because nothing is awaited between them; the
registration is another (`Launch`), several awaits later.  A stream is driven by
a `client`, a `timer` or the `recovery` task; only client streams lose their
transport, which happens in two ways the code treats differently: at a `yield`
(`ClosedAtYield`: GeneratorExit, no row is written) and at an `await`
(`CancelledWhileWaiting`: CancelledError, the row is written).  A headless stream
is torn down only when its timer task is cancelled (`aborted`): re-arming a key
cancels the task filed under it, and that may be the very task that drives the
stream.

The agent is its task state: `fresh` (not begun), `acted` (a decided action ran,
not yet recorded), `running`, `parked` (waiting on the full event queue) and the
ways it ends.  `TaskBegin` is the resume of a trace, `TaskStep` a checkpoint,
`TaskPause` a new interaction (checkpoint first), `TaskReturn` an end.  A resume
that is not pinned runs under a fresh session id, as in the code.  Verdicts are
`approve` (also `edit`) and `reject` (also `respond`): only whether the pending
action runs matters here.

`Restart` is a crash or a graceful shutdown: memory is lost, rows and checkpoints
stay, and any subset of the reachable runs had its row cancelled first.
`ScanList`, `ScanMark`, `RecoverRun` are the startup scan; new requests interleave
with it.  `rows[s].boot` stands for `started_at` against `started_before`.

Store writes may fail (`WritesMayFail`): the code logs and swallows.

A timer that a later `finally` removes from the table under a reused key is no
longer cancellable in the code; in the model it is disarmed.  The difference is
a timer that wakes, finds the request claimed and does nothing.

Assumptions: a decision arrives through the decisions endpoint (the body of
`/solve/stream` could carry one too); requests that fail validation before
admission change nothing and are left out; the goal-action route is in
`ProofGraph`.

### Runs

| Run | Instance | Shows |
|---|---|---|
| `session_safety` | 3 streams, 2 sessions, 2 slots, 1 request, 2 boots, recovery limit 1 | slots, rows, recovery, decisions |
| `session_liveness` | 2 streams, 1 slot, failing writes, full queues | a launched run gives back slot and registration |

Bounds.  Three streams are what the races need: two that race for a session or a
request and a third that holds a slot, resumes or is recovered.  Two sessions let
a run be resumed under its own id or a new one.  One request is raised, raced for,
decided and replayed; requests do not interact in the code (each checkpoint has
one pending interaction).  `MaxBoots = 2` is one restart in any state; a second
restart repeats the same transition from states of the same kind.  With a
recovery limit of 1 and two sessions, leftovers beyond the limit exist.  Deadlock
checking is off because the system may come to rest: clients need not act and
streams are used once.  Symmetry permutes streams and sessions in the safety run
only.

Fairness (`Fairness`): the event loop runs every ready coroutine (weak fairness
of a stream's own steps), a connected client's response is pulled, and a task
returns within its wall-time limit even if it parks now and then (strong fairness
of `TaskReturn`).  No client, timer, interrupt or tear-down is fair.

### Properties

* `SlotAccounting`: the counter is the number of streams and finishers that owe a
  release.  Proved besides: no task outlives its slot, interrupt and status never
  act on a cleaned-up run, and cleaning up never removes a newer run's entry.
* `DecisionProtocol`: the detailed system implements `HumanDecision`: at most one
  decision is accepted per request, after it was raised, and the pending action
  runs only once an approving one was.  Execution is at least once: a crash
  between the action and its checkpoint repeats it.
* `CompletedIsPersisted`: `completed` implies the answer is stored.  Needs writes
  that succeed.
* `RecoverySparesLiveRuns`, `NoStuckLeftovers`: the scan marks every leftover and
  no live run.
* `LaunchedRunsEnd`: liveness, except for the stranded run below.

### What the code does here

Behaviour the model has because the code has it, and which a reader may not
expect:

* a slot taken before the `try` (`solve_session.py` 187, 444) is not given back
  when the generator ends in between;
* two pinned resumes may both find no live run (208-210) and run twice;
* a transport cancelled at an `await` writes `cancelled` for a run that goes on
  (525), and that first `finish_run` wins (315);
* a resumed pause is announced under a session id that has no checkpoint
  (`agent/react_agent.py` 377);
* a detached run whose queue is full waits on it for ever (377, 411);
* a claimed decision is lost when its resume is refused
  (`hitl_auto_resolve.py` 125, `solve_routes.py` 262);
* rows recovered as waiting get no timer (`run_recovery.py` 108), and a graceful
  shutdown marks the rows it reaches cancelled, which the scan then ignores
  (`app.py` 146).

### Proofs

`SolveSessionProofs` proves, for any streams, sessions, requests and limits:
`TypeCorrect`; `SlotsAccounted`, `CapacityBoundsRuns`, `RegistryIsFresh` and
`RegistrationsKept`; `CompletedArePersisted`, `RecoverySpares` and
`LeftoversMarked`; and `DecisionProtocolImplemented`: `Spec => DecisionProtocol`.
They use the named assumptions of `SolveSession` and nothing else.

The inductive invariants add to the property what a step needs to know about the
other variables.  For the slots: a live task has a stream in a phase that holds
a slot, so that the bound on the counter bounds the tasks; the count itself moves
by one because each action moves exactly one stream into or out of the holding
phases.  For the registry: the entry's stream still carries the session's id.
For the rows (`RowInv`): no row is dated after the present process, and the row of a
stream of this process that has written it is dated by this process, so that the
scan, which marks rows of earlier ones, leaves it alone (`LiveRows`); a stream past
its persisting step has its answer in the store (`AnswersFirst`).  `RowStep` and
`PhaseStep` say once what a step may do to a row and to a phase, and the promises
follow from them.  A write that fails is logged and swallowed by the code, so the
first two promises are proved where writes do not fail: they are stated as
`~WritesMayFail => ...`, which is also what the run checks, and with failing writes
they are false of the code.  `LeftoversMarked` needs no such condition.
For the decisions (`DecisionInv`): a checkpoint that holds an unclaimed request
holds one that was raised and never decided, and a decision carried by a message
or a checkpoint is the recorded verdict of its request, which is why a replayed
resume can only run what was approved.

Only model-checked: `LaunchedRunsEnd` (liveness is outside the prover's reach).

## 4. ReactSolve

### State and actions

One problem in the agent, over all its resumes.  `trace` is the `ReActTrace` in
memory and `ckpt` its last checkpoint; `status` says where the run stands
(`thinking`: the loop is about to ask the model; `acting`: a tool runs; `paused`;
`stopped`: not begun, or lost; or one of the outcomes).  `revisions`, `toolCalls`
and `accepted` are the locals `conclusion_revisions`, `tool_calls` and
`accepted_formal_evidence_id` of the running solve, which a resume rebuilds.
`ran` and `crashes` are history: they count tool executions and lost solves.

| Actions | Code (`agent/`) |
|---|---|
| `Invalid`, `RepeatStopped`, `Think` | a turn that fails validation, that repeats itself, that only thinks or sets a goal (`react_agent.py` 643-686, 876-924) |
| `AskApproval`, `OverBudget`, `Veto`, `CallTool`, `ToolReturns` | a registered tool: approval, budget, hook, charge, refund, observation (715-924) |
| `OutOfBudget` | wall time, model budget or steps used up (579-640) |
| `ConcludeMissing`, `ConcludeLate`, `Conclude` | `ConcludeGate.handle`: prerequisites, reviewers, evaluation, revision or question |
| `Start`, `PauseAgain`, `Approve`, `ApprovedReturns`, `Dispose`, `AcceptBestEffort`, `Guide` | the head of `solve`, which hydrates a checkpoint and applies a decision (346-578) |
| `Crash` | the process dies, the task is cancelled, or an exception leaves `solve` |

A turn is its action, a result and an evidence id.  An evidence id is a hash over
the action, the goal and the artifact in the code; here it is the pair of action
and goal, so that two checks of one goal carry the same id and the code's rule
"the latest turn with this id" matters.  Four kinds of tool stand for all:
`formal` (a Lean check), `lemmas` (proof search, whose reports the evaluator
treats differently), `plot` and any other.

Nondeterministic: the model's action and cited id, a tool's result, the vote of
the reviewers, hooks, and when time runs out.

Left out: compression of the trace, planning and mid-run verification, subagents,
the separate limit on library searches, the proof graph (a module of its own), and the wording of
observations.  `ask_on_reviewer_block` is taken to be on whenever `Hitl` is.  A
person who edits an action replaces it by another registered tool.  A conclusion
and its question are stored by two checkpoints in the code with nothing awaited
between them; they are one step here.

### Run

`react`: two goals, a Lean check, a proof search that needs approval and a plot;
3 steps, 2 calls, 1 revision, 1 interruption, 1 loss.

Bounds.  Two goals are needed for evidence of another claim; a third behaves like
the second.  Three steps hold the patterns the properties tell apart: a check, a
rejected conclusion or change of goal, another conclusion.  The budgets are small
enough to be used up within the steps, and one of each suffices to meet a counter
at, below and above its limit.  `MaxCrashes` bounds the losses; the proofs hold for
any value of it.  `MaxSteps` limits the turns, and so the state space, because the
step numbers of a resumed solve continue those of its trace, as in the code.

Fairness: `WF_vars(Step)`.  The task of a running solve is scheduled, and every
call it awaits ends or is cut off by its own deadline (`_await_phase` and the
tools' time limits).  Resuming is up to a client and is not fair; nothing makes
the wall time run out first, so `RunEnds` has to follow from the steps.

### Properties

* `VerifiedIsProved`: a verified answer cites a successful Lean check of the goal
  in force, newer than every earlier conclusion.
* `RevisionBound`, `ToolBudgetHolds`, `InterruptsBounded`: the three budgets hold
  over all resumes, up to one repeated tool call for each lost solve.  The repeat
  is real: an approved tool runs before its charge is stored.
* `CountersSurvive`: dying regains no budget.
* `PauseIsRecoverable`: a paused run's request is in its checkpoint.
* `RunEnds`: every turn, refused ones included, consumes a step.

### What the code does here

* A person who answers the gate's last question with guidance gets the old answer
  back: the resume finds the budget used up and enters no step.
* A conclusion that was refused for a missing prerequisite is free in the running
  loop and charged by a later conclusion's checkpoint.
* The gate names proof search among the tools whose evidence it wants, and the
  evaluator never counts that evidence.

### Proofs

`ReactSolveProofs` proves all six safety properties and the type invariant for
any goals, tools, budgets and number of losses, from the four named assumptions of
the module.  Its inductive invariants:

* `TypeInv`: types, and that a running tool is a registered one while nothing
  runs otherwise.
* `Stored`: what memory holds is in the checkpoint, except the charge of a call
  in progress.  It is what makes a pause recoverable and a crash harmless.
* `RevisionInv`: the live count covers the judged conclusions of the trace
  (`Attempts`), and the count that a resume rebuilds from the checkpoint is no
  smaller.  The bound itself is not inductive: a resume could start below it.
* `BudgetInv`: the tools started are the calls the checkpoint has charged, the
  call in progress, and at most one per crash.

The lemmas about turns (`TurnAdds`, `TurnSetsFinite`) say how an appended turn
changes the cardinalities that the counters are rebuilt from.

Only model-checked: `RunEnds`.


## 5. Supervisor

One session's solves, one after the other.  `step` is where `solve()` stands;
`outcome` is the solution of the last round as far as the loop reads it (its
verification status, how many Lean attempts failed, whether their diagnostics
make a digest, and of which kinds); `context` is the set of parts a prompt is
built from.  `Begin` is everything up to the first round: the stored checkpoint
that may be of this problem, of another or unreadable, the intake's intent, the
text read from pictures, the formal policy.  `RoundReturns`, `RoundAsks` and
`RoundFails` are how `_run_react` ends; `Escalate` is one turn of the escalation
loop, serial or as `StartRoutes`; `RouteEnds` and `RoutesReturn` are
`run_subagents_parallel` and the selection; `Finish`, `TakePostSolve` and `Learn`
are the post-solve work, done inline or left in `_post_solve_factory`.

* `VerifiedIsKept`: what any round or route verified is what the solve returns.
* `LearnedOnce`: the post-solve work runs once, after the result is final, and
  not on the clarify path, whoever takes it.
* `SolveEnds`: under weak fairness of `Progress` (model and tool calls have
  deadlines), a solve comes to rest and its post-solve work ends.

Run `supervisor`: `all_theorems`, Lean and a person there, two rounds, two routes,
two solves.  Two routes are the smallest number that can disagree, two rounds the
smallest in which one replaces another.

What the code does here: a route that must ask a person is dropped like a failed
one (`subagent.py` 165, `supervisor.py` 1051); when every route raises or asks, an
empty placeholder replaces the earlier best effort; an exception in a serial round
loses the first round's answer; every route resets the shared call counter
(`react_agent.py` 360); a resumed escalation has all its rounds again; routes write
no checkpoint; a clarify follow-up that needs a proof is not escalated; failures of
deferred work are recorded on a solution that was already sent.

Proofs (`AgentProofs`): both safety properties for any number of rounds,
routes and kinds.  `Kept` says that `found` means a verified route while routes run
and a verified outcome afterwards; the step of the selection needs that the best
route exists, which `LeastExists` gets for natural numbers from the finiteness of
their initial segments, twice (fewest issues, then lowest index).  `Owed` says that
the work is owed only while nothing was learned.

## 6. ProjectStore

The store holds its lock over an operation, so one operation (`op`) is under way;
its file accesses are separate steps (`Stat`, `Load`, `Decide`, `Write`, `Commit`,
`Compact`, `Restat`, `Return`), between which another process may append
(`ExternalAppend`), an `OSError` may occur (`WriteFails`, `NoCompaction`) and the
server may die (`Crash`).  A file is a sequence of chunks; a chunk may be cut in its
text or before its newline, and then shares its line with the next.  `index` and
`sig` are the in-memory index and the signature it is trusted under.

* `IndexIsReplay`: a trusted index is what reading the log would build, unless a
  record shares a line with a cut one or another process wrote between a compaction
  and its `stat`.
* `CheckpointsAreCells`: to its sessions the log is one cell each; only a write
  changes it and a claim is a compare-and-set.  `SolveSession` rests on this.
* `UncutClaimsAreOnce`: a request is claimed once as long as no line was cut.
* `AnswersAreKept`: a solve whose answer was archived has one answered turn on
  disk, across the update that finds nothing and the addition that follows.

Run `store`: four writes of one session, a foreign one, one request, one solve, one
item, one fault, compaction from two lines on.  One fault in any step is what the
recovery code is about; compaction at two lets a superseded record exist.

What the code does here: a record appended after a cut line is lost with it
although its write was acknowledged, and a claim lost like this is granted again
(`project_store.py` 238, 300); a compaction loses or hides what another process
appends meanwhile.  Left out: graph drafts, the legacy migration, knowledge items
(in `Knowledge`).

Proofs (`ProjectStoreProofs`): all four properties, for any sessions, requests,
solves and bounds, from the assumptions of the module.  No property is inductive: each
speaks of the moment when an operation is over, and the invariants say what holds of
the operation under way.

* `Types` includes that a signature never stands for more lines than its file has,
  so that a file that has grown, shrunk or been replaced is noticed.
* `CheckpointInv`: only the last line may be cut (`Straight`); the index that an
  operation has checked holds the cells of the server's own sessions, although it may
  miss what other processes append meanwhile (`Follows`); a claim in flight was
  decided on the cell it replaces (`InFlight`); a request is in one cell and claimed
  there once it was granted (`Claims`).  `ClaimsAreOnce` and `CellsOnly` follow.
* `EventInv`: a trusted index is the replay, and between the write and its commit the
  index with that one event applied is (`EventsFollow`).  The signature after a write
  is the one expected without another writer, so a foreign append shows at the next
  comparison; this step is what `IndexesReplay` rests on.
* `Awaits` and `TurnInv`: which operation a solve waits for, and which rows of it the
  replay may hold at each of its phases: after an update none is pending, and the
  look-up reads an index that has been checked (`Seen`), so a solve that finds nothing,
  or whose update failed, has no answered row and the one it adds is the only one.

What a replay computes is proved without an induction rule: a claim about all lengths
of a log is refuted at the least length where it fails (`LeastExists`).

## 7. ProofGraph

A run has its own copy of the graph (`graph`, `current`), stored with every turn in
the checkpoint (`stored`); between runs the goal-action endpoint edits the stored
copy.  `Upserted`, `Activated` and `ResetGoals` are the graph's methods; `Enter` is
the beginning of `solve()`, `SetGoal`, `FormalAttempt*` and `Conclude` the turns,
`GoalAction` the endpoint.  The id of a goal is a hash of its text, or the name the
model gives: `GoalIdFor` is a constant function under which two wordings may share
an id.  `basis` and `void` are history; `lapses` names the one step each property
excepts.

* `EvidenceIsOfTheGoal`: a stored goal is proved by evidence about its own
  statement, except after a refused `set_goal` and after a `set_goal` that rewrites
  a proved goal under its explicit id.
* `InvalidationReaches`: when a goal is reset, none that depended on it when it was
  proved stays proved, as long as no upsert has dropped a dependency.
* `GoalsAreAcyclic`: so that a resumed run can enter its goal, unless the current
  goal is the problem in other words.

Run `proof_graph`: three texts of which two share an id, one explicit id, four
changes.  Four changes hold set, prove, change, reset.  Left out: the logs of
attempts and counterexamples.

Proofs (`AgentProofs`): all three, for any texts, ids, hash function and number
of changes; the graph operations are defined with quantifiers over sets of ids, not
by recursion, and so within the prover's reach.  `Inv` says of the run's graph and of
the stored one, from which the next run starts, that the root and the active goal
exist and that each promise holds until `lapses` records the step that ends it.
Acyclicity: a link from the root to the current goal closes no cycle, because the
current goal has just been given no dependencies (`CurrentFits`).  Invalidation: what
a proof rested on stays among the ancestors of its goal (`Based`), since ancestors only
grow (`AncestryGrows`), and who has a reset goal, or a dependent of one, among its
ancestors depends on it (`AncestorsReach`), so the cascade of a reset gets there
(`ActedOnFits`).  Evidence: the active goal states the current goal, which the evidence
is about (`Fit`), and a conclusion marks the root in a copy that no run starts from.

## 8. LemmaExecutor

`tasks` are the declarations being proved, by path in the plan; the tasks of a level
and the rescues of its failures run concurrently, at most `MaxParallel`, against
`verified`, the file before the level.  `Acquire`, `Sample`, `CheckPasses`,
`CheckFails`, `Repair` and `Decompose` are a declaration's life; `Rescue`,
`EndLevel`, `EndMain`, `Report` are `execute()` and the tool, `Timeout` and `Raise`
its ends from outside.  What Lean says is a choice; what a body may use is what
stands before it.

* `FileIsOrdered`: what a declaration was checked with stands before it in the kept
  file, no name twice, no dependency missing.
* `DiagnosticNamesAFailure`: the diagnostic names a declaration that is not
  verified, unless another lemma of the level failed first and was rescued.
* `NothingRunsOn`: nothing is checked any more when it has ended, except after an
  exception (the gather passes it on and the other tasks run on).
* `Ends`, under weak fairness of `Step`: model calls and checks return.

Run `lemmas`: two lemmas side by side, in a chain, and with a bad dependency, two
bodies, two repairs, rescues two deep.  Deadlock is checked; `Done` is the end.

Proofs (`AgentProofs`): `FilesAreOrdered`, `DiagnosticsAreOfFailures` and
`NothingIsLeft`, for any plan, parallelism, depth and number of repairs and sub-lemmas.
The file changes at the end of a level only, from what its tasks have gathered
meanwhile, so the invariant (`ExecutionInv`) is about the tasks:

* `TaskFits`: the frames of a task are the path to its declaration in turn
  (`Stacked`); each code it has gathered is of a sub-lemma that some rescue has passed
  (`Passed`), hence not of the one in turn, hence of a new name; and the codes use what
  stands before them (`Chained`).
* `Earlier`: the file declares lemmas of lower levels only, and all of them in an
  orderly plan.  With `DepthsFit` (what a lemma depends on is of a lower level) no
  dependency is missing.  The blocks of two lemmas of a level share no name, since
  names begin with the lemma, so joining them keeps the order (`BlocksJoin`).
* `Blame`: the tasks of a level share one field for the failure.  Whoever wrote it
  last, the declaration it names has failed, or is being rescued and is not among
  the codes gathered since.

Only model-checked: `Ends`.

## 9. TacticSearch

A REPL session is a queue of requests, a queue of answers and the proof states it
has handed out.  `Acquire` to `CheckIn` are the pool (its lock is held across one
await only, the start of a process), `Ask`, `NoAnswer`, `ReadAnswer` the session,
`ProcessAnswers` and `ProcessDies` the process, `Opens` to `SearchBatch` the
best-first search, `Cancel` its wall budget at every await.

* `ProcessesWithinLimit`: never more processes than `repl_max_sessions`, the one
  being closed or started included.
* `AnswersAreOwn`: through deaths, time-outs and restarts, a search reads answers to
  its own requests, and a proof state it remembers is of its theorem or unknown to
  the process; unless a cancelled search left an answer in that process's pipe.
* `SearchesEnd`: fairness is weak for each search's own steps and for the processes,
  which answer or die; it holds whatever number of sessions the pool has lost count
  of, because a search without a session goes on in batch mode.

Run `tactics`: two searches, three begins, two processes, recycling after two
requests, a breaker that opens at one death, one fault, one cancellation.

What the code does here: a session whose search was cancelled in a request goes back
to the pool alive, with the answer still to come; sessions found dead and starts that
were cancelled stay counted, so the pool shrinks; searches that wait are not stopped
by an open breaker; nothing closes the pool at shutdown.  The ranking of premises
and past traces only reorders candidates and is left out.

Proofs (`TacticSearchProofs`): `TypesHold`, `ProcessesLimited` and `AnswersOwn`, for any
finite set of searches and any limits.  The limit (`Counted`): permits and their users
add up to the number of sessions; sessions that are out, idle or being started are no
more than that, although `spawned` is given back before a process is gone, because the
permit is not; and a process is started only when none is idle, so what is started has
a number.  Each step moves one search, and so a cardinality by at most one (`Differ`).
The answers (`Own`): between a request and its answer nothing else is in the pipe; a
search whose request is given up closes the process, and one that was cancelled marks
it (`cutOff`).  `Placed` says where a search has a session at all.

## 10. LeanRunner

A call is a check (of a tool or a job) or the code generator's repair loop.  Code is a
model value: `Complete`, `Sketches` (with holes) or `Wrong`.  `space` is the workspace
that other processes share: whose scaffold and ready marker, and which packages have
compiled files.  `EnterDeps`, `Update`, `Fetch` are the set-up under its lock; `Run`,
`Finish`, `TimeOut`, `Killed`, `Missing` a process under the semaphore; `Remember` the
cache; `Repair` the loop of `codegen.py`; `Cancel` a cancellation wherever the call
waits; `Foreign*` another process's set-up.

* `AnswersAreTrue`: code returned as verified is what Lean accepts in the mode asked
  for, from the cache as from a run.
* `RefusalsAreEarned`: a remembered refusal is of code that fails; the exception is a
  check in a workspace with missing files, which takes a broken download or a foreign
  set-up.
* `CallsEnd`, under weak fairness of each call: every command ends or times out.

Run `lean`: two callers, one slot, a cache of one entry, two repairs, one fault, one
foreign set-up, one cancellation.

What the code does here: `deps_ready` is kept per process and only the toolchain file
is looked at again; a failed `lake update` counts as repairable; one compiled file
makes a package healthy; complete code passes a draft check; checks in a temporary
directory do not take the semaphore.  The critic's review of a statement is a vote and
is left out.

Proofs (`LeanRunnerProofs`): `TypesHold`, `AnswersTrue` and `RefusalsEarned`, for any
callers, code, repairs and size of the cache.  A property of answers is not inductive:
`Sound` says of everything held about a piece of code, in a call (`CallTrue`) at any
step and in every cache entry (`Good`), that it is right about that code in that mode,
and of a refusal that it is deserved or was made in a workspace with missing files.
That the last takes a disturbance is the invariant of the undisturbed set-up (`Quiet`):
the workspace is whole, or nothing has got past the set-up and one call is in it.

## 11. Knowledge

Each flow is a job that reads, waits and writes what it decided.  `items` and `cards`
are the cloud's and the log's; `job[j]` is what a flow remembers over its awaits.
`Consolidate`/`Learn`, `Evaluate`/`Curate`/`ApplyOp`/`Curated`, `Extract`/`Extracted`,
`Translate`/`Edit`/`Write`, `Delete`/`Deleted` and the card pairs (`PublishCard`/
`Published`, `Revise`/`Revised`/`Point`, `SetVisibility`/`Shown`, `Import`/`Imported`/
`Cite`/`Count`) are the two sides of their await; `Fail` ends any of them there.

* `VerifiedCarriesProof`: an item that calls itself verified has Lean code that passes.
* `StatusIsForLife`: no late write changes an item's status or brings it back.
* `CurationSparesVerified`: the evaluator, which decides on a snapshot, leaves alone
  what is protected when it writes.

Run `knowledge`: two claims of which one has a proof, two jobs, one card, two items,
three jobs begun, two revisions.  Two jobs are a race; the third starts from what they
left.

What the code does here: the evaluator overwrites or deletes items that were edited
meanwhile, and with a concurrent deletion may empty the catalogue; an edit of a
verified item keeps status and evidence; a revised card keeps the old verdict, which is
why an import checks again; a cloud card may stay without a revision, its latest
pointer may go back, its citation count may lose an update; two extractions may insert
the same item.  Edges of the graph, scores and search are left out.

Proofs (`KnowledgeProofs`): all three for any constants.  `Lives` says what every write
does to the items (a fresh identifier, the same status, or gone); `JobFits` says that
what a job remembers stays true until it writes, which `Lives` preserves over the steps
of the other jobs.  `StatusIsForLife` and `CurationSparesVerified` are action
properties that follow from the invariant.

## 12. Memory

A file is the sequence of what was appended, its length the signature; each solve has
a store of its own with an index.  A store call is one step (no await, one lock);
between `Ask`, which reads the memories for the prompt, and `Apply`, which writes the
answer, others write.  `Retrieve`, `Record` are the plan memory; `PatchStatus`,
`PatchContent`, `Delete` the user's requests; `Reopen` the next solve.

* `LearnedIsNew`: a consolidation stores nothing the user already has and nothing the
  user has deleted, whatever happened while the model was thinking.
* `CurrentMeansWhole`: an index that counts as current holds every memory and plan in
  its last version.

Run `memory`: two solves, one kind, two contents, three records, two plans; solves and
contents are symmetric.  Left out: weights, summaries, ranking.  What the code does
here: a status edit revives a deleted memory for solves, although the list hides it.

Proofs (`AgentProofs`): `CurrentIsWhole` and `OnlyNewIsLearned`, for any solves, kinds,
contents and bounds.  Every store has seen a prefix of its file and, if that is all of
it, holds what the file says (`MemoriesInv`); the length can stand for the signature
because the file only grows.  `OnlyNewIsLearned` is an action property: what `Apply`
writes is compared with the index after it was brought up to date, and the additions of
one answer with each other (`InOrderSorts` says that `InOrder` lists a set without
repetition).  The model numbers the memories where the code draws random ids;
`FreshIdsAreFresh` shows the numbers to be as fresh.

## 13. Quota

`solve[s]` walks from the request through the lock, the key, the usage read, the
stream, to the record; `used` is the accumulator, `daily` the table, `spent` and `lost`
history.  `Work` is a model call, which may happen after the transport has ended;
`AutoResolve` and `Recover` run without a transport; `SetKey` binds or removes the
user's key, `Midnight` changes the day, `Restart` is a crash.

* `TokensAreCountedOnce`: every token the platform paid for is recorded once, still to
  be recorded, or lost in a named way; those on the user's own key never are.
* `OverrunIsBounded`: the overrun is at most that of the solves under way.

Run `quota`: three requests, limit 2, two tokens at most per solve, four starts, two
days; requests are symmetric.

What the code does here: the lock (`agent_factory.py` 575) is released before the
stream works, so the check lags behind by every concurrent solve; what a detached,
auto-resolved or recovered run or the post-solve work uses is never recorded; a failed
record is logged; a solve over midnight is charged to the day it ends.

Proofs (`QuotaProofs`): `TypesHold`, `TokensCounted` and `OverrunBounded`, for any finite
set of requests, limit, amounts and number of days.  A sum is the number of units of a
function (`Units`), a set of pairs, so that a change of one value changes it by the
difference (`SumChanges`); with that each action conserves what it moves (`Conserves`).
The overrun is not inductive: `Covered` counts with each request that may still be
recorded to the platform the most it can still add, and bounds the sum of both, for
the requests that were let in below the limit as for those let in beside them.  A limit
of 0 lets nobody begin, so the bound is stated for days on which something is recorded.

## 14. What is checked and what is proved

Proved for every value of the constants that the named assumptions of its module allow,
and resting on nothing else: every safety and action property of the runs, with the
types of the modules, and that `SolveSession` implements `HumanDecision`.  Each proof is
one inductive invariant, checked by TLC on the instance of the run before it was proved,
one lemma per action or group of actions, and a theorem per property that combines them.

Model-checked only, on the instances above: liveness (`LaunchedRunsEnd`, `RunEnds`,
`SolveEnds`, `Ends`, `SearchesEnd`, `CallsEnd`).  The prover reaches neither fairness nor
`ENABLED`.

What a recursive function or a fold computes (the replay of a log, the depth of a lemma,
the file that a level's blocks make) is proved where it is needed, by the least index at
which it would go wrong, because the library's induction rules cannot be instantiated.

Bounds are constants with names (`Max*`, `CompactAt`, `CacheSize`); each stands as a
guard of the action it limits, and faults, cancellations and losses are budgets of the
environment.  Runs without deadlock checking are those whose system may rest: clients
need not act and streams, calls or writes are used up.

A property that must except a step says so in its own words (`glued`, `lapses`,
`cutOff`, `void`, `whole`), and the exception is one of the behaviours named in the
sections above.

## 15. Not modelled

* Research runs: rows whose status a person changes one at a time.  Projects, access,
  friends, feedback: role checks and single-row updates in an external database whose
  isolation the repository does not define.
* Authentication, sessions and rate limits: external services; the counters are per
  process and guard one call each.
* Trace store, context building, news, web search: they record or enrich for display
  and prompts, and their failures are swallowed.
* Planner, reviewers, prompts: one model call each; their verdicts are nondeterministic
  votes in `ReactSolve` and `Supervisor`.  Model clients: a call succeeds or raises
  wherever a module makes one.
* Tools other than the Lean tools: opaque calls that succeed or fail.
* Evaluation harness, scripts, front end: offline tooling and the environment.

## 16. Running

    tlc -config SessionSafety.cfg MCSolveSession.tla
    tlc -config SessionLiveness.cfg MCSolveSession.tla
    tlc -config React.cfg MCReactSolve.tla
    tlc -config Supervisor.cfg MCSupervisor.tla
    tlc -config Store.cfg MCProjectStore.tla
    tlc -config Graph.cfg MCProofGraph.tla
    tlc -config Lemmas.cfg MCLemmaExecutor.tla
    tlc -config Tactics.cfg MCTacticSearch.tla
    tlc -config Lean.cfg MCLeanRunner.tla
    tlc -config Knowledge.cfg MCKnowledge.tla
    tlc -config Memory.cfg MCMemory.tla
    tlc -config Quota.cfg MCQuota.tla
    tlapm SolveSessionProofs.tla
    tlapm ReactSolveProofs.tla
    tlapm ProjectStoreProofs.tla
    tlapm AgentProofs.tla
    tlapm TacticSearchProofs.tla
    tlapm LeanRunnerProofs.tla
    tlapm KnowledgeProofs.tla
    tlapm QuotaProofs.tla
