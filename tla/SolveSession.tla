---------------------------- MODULE SolveSession ----------------------------
(***************************************************************************)
(* The life of a solve run in the web backend: the event-stream generator  *)
(* (web/solve_session.py), the admission counter and the registry of live  *)
(* runs (web/active_solves.py), the operations row of a session            *)
(* (web/operations.py), the human-decision endpoint (web/solve_routes.py), *)
(* the auto-resolve timers (web/hitl_auto_resolve.py), the checkpoint's    *)
(* pending interaction (web/project_store.py), and the recovery scan after *)
(* a restart (web/run_recovery.py).                                        *)
(*                                                                         *)
(* One step is what the single event loop does between two awaits or       *)
(* yields at which another coroutine can run.  A stream is one generator   *)
(* instance; a session is the identity a run keeps in the registry, the    *)
(* checkpoint log and the operations table.  The agent's own work is the   *)
(* Task* actions: what it does to the checkpoint and how it ends.          *)
(***************************************************************************)
EXTENDS Integers, FiniteSets

CONSTANTS
  Streams,         \* generator instances; each runs once
  Sessions,        \* session ids
  Requests,        \* request ids of human-input interactions
  MaxSolves,       \* CONJECTA_MAX_CONCURRENT_SOLVES
  RecoveryMaxRuns, \* CONJECTA_RECOVERY_MAX_RUNS
  AutoResolve,     \* auto_resolve_seconds > 0
  WritesMayFail,   \* may a store write fail (it is logged and swallowed)?
  QueueMayFill,    \* may a stream's event queue reach SOLVE_EVENT_QUEUE_MAXSIZE?
  MaxBoots,        \* bound: how often the process starts
  NoStream, NoSession, NoRequest, NoDecision

ASSUME StreamsAssumption == IsFiniteSet(Streams) /\ NoStream \notin Streams
ASSUME SessionsAssumption == NoSession \notin Sessions
ASSUME RequestsAssumption == NoRequest \notin Requests
ASSUME CapacityAssumption == MaxSolves \in Nat \ {0}
ASSUME BootAssumption == MaxBoots \in Nat \ {0}
ASSUME LimitAssumption == RecoveryMaxRuns \in Nat
ASSUME FlagAssumption == {AutoResolve, WritesMayFail, QueueMayFill} \subseteq BOOLEAN

Verdicts == {"approve", "reject"}   \* "edit" runs an action as approve does, "respond" none
Decisions == Requests \X Verdicts
ASSUME DecisionAssumption == NoDecision \notin Decisions

VARIABLES
  pc,        \* pc[st]: where the generator, or its detached finisher, stands
  msg,       \* msg[st]: the request being served and what was loaded for it
  sess,      \* sess[st]: session_id of the stream
  task,      \* task[st]: the agent.solve task
  finished,  \* streams whose run_finished flag is set
  aborted,   \* headless streams whose driving task was cancelled
  inFlight,  \* solve_capacity._in_flight
  registry,  \* active_solve_tasks._items: session -> the stream whose task it names
  rows,      \* conjecta_solve_runs
  ckpt,      \* the checkpoint index
  answered,  \* sessions whose answer is in the project's turns
  timers,    \* sleeping auto-resolve timers
  boot,      \* number of the running process
  scan,      \* the recovery task
  raised, claims, verdict, executed   \* history of the decisions

control == <<pc, msg, sess, task, finished, aborted>>
shared == <<inFlight, registry>>
durable == <<rows, ckpt, answered>>
history == <<raised, claims, verdict, executed>>
vars == <<control, shared, durable, timers, boot, scan, history>>

-----------------------------------------------------------------------------
Phases == {"idle", "requested", "loaded", "opening", "started", "streaming",
           "persisted", "yielding", "detached", "detachedPersisted",
           "closed", "leaked"}
\* Phases in which the stream, or the finisher it handed over to, owes a release.
Holding == {"opening", "started", "streaming", "persisted", "yielding",
            "detached", "detachedPersisted", "leaked"}
\* Phases between registration of the task and its discard.
Registered == {"streaming", "persisted", "yielding", "detached", "detachedPersisted"}

Working == {"fresh", "acted", "running"}
LiveTask == Working \union {"parked"}   \* parked: in on_event, waiting on a full queue
TaskStates == LiveTask \union {"none", "completed", "failed", "cancelled", "paused"}
Statuses == {"none", "running", "completed", "failed", "cancelled", "waiting",
             "interrupted"}

\* Who drives the generator: a client's HTTP response, a timer, or recovery.
Origins == {"client", "timer", "recovery"}
Message == [origin : Origins, from : Sessions \union {NoSession}, pin : BOOLEAN,
            decision : Decisions \union {NoDecision},
            pending : Requests \union {NoRequest}]
NoMessage == [origin |-> "client", from |-> NoSession, pin |-> FALSE,
              decision |-> NoDecision, pending |-> NoRequest]

Checkpoint == [stored : BOOLEAN, pending : Requests \union {NoRequest},
               claimed : BOOLEAN, submitted : Decisions \union {NoDecision}]
NoCheckpoint == [stored |-> FALSE, pending |-> NoRequest, claimed |-> FALSE,
                 submitted |-> NoDecision]
\* The trace snapshot an agent writes: it never carries a claim.
Snapshot(r) == [stored |-> TRUE, pending |-> r, claimed |-> FALSE,
                submitted |-> NoDecision]

Row == [status : Statuses, boot : 0..MaxBoots]
Scan == [phase : {"list", "mark", "resume", "off"}, todo : SUBSET Sessions]

Init ==
  /\ pc = [st \in Streams |-> "idle"]
  /\ msg = [st \in Streams |-> NoMessage]
  /\ sess = [st \in Streams |-> NoSession]
  /\ task = [st \in Streams |-> "none"]
  /\ finished = {}
  /\ aborted = {}
  /\ inFlight = 0
  /\ registry = [s \in Sessions |-> NoStream]
  /\ rows = [s \in Sessions |-> [status |-> "none", boot |-> 0]]
  /\ ckpt = [s \in Sessions |-> NoCheckpoint]
  /\ answered = {}
  /\ timers = {}
  /\ boot = 1
  /\ scan = [phase |-> "list", todo |-> {}]
  /\ raised = {}
  /\ claims = [r \in Requests |-> 0]
  /\ verdict = [r \in Requests |-> "none"]
  /\ executed = {}

-----------------------------------------------------------------------------
(* Admission counter and registry: web/active_solves.py *)

TryAcquire == inFlight < MaxSolves /\ inFlight' = inFlight + 1
Release == inFlight' = IF inFlight > 0 THEN inFlight - 1 ELSE 0

Register(s, st) == registry' = [registry EXCEPT ![s] = st]
\* discard(session_id, task): only the entry that names this very task goes.
Discard(s, st) ==
  registry' = IF registry[s] = st THEN [registry EXCEPT ![s] = NoStream] ELSE registry
Contains(s) == registry[s] # NoStream

(* The operations row: web/operations.py.  An update of a row that was never *)
(* inserted changes nothing, and a failed write is logged and swallowed.      *)
UpdateRow(s, status) ==
  \/ rows' = IF rows[s].status = "none" THEN rows
             ELSE [rows EXCEPT ![s].status = status]
  \/ WritesMayFail /\ rows' = rows
UpsertRunning(s) == [rows EXCEPT ![s] = [status |-> "running", boot |-> boot]]

\* The generator's finish_run closure: only the first call reaches the table.
FinishRun(st, status) ==
  IF st \in finished
  THEN UNCHANGED <<rows, finished>>
  ELSE /\ finished' = finished \union {st}
       /\ UpdateRow(sess[st], status)

\* write_checkpoint as the supervisor's _on_checkpoint calls it.
WriteCheckpoint(s, r) ==
  \/ ckpt' = [ckpt EXCEPT ![s] = Snapshot(r)]
  \/ WritesMayFail /\ ckpt' = ckpt

\* Mutant: a second decision for the same request is accepted.
ClaimableTwice(s, r) == ckpt[s].stored /\ ckpt[s].pending = r /\ r # NoRequest
Claimable(s, r) ==
  /\ ckpt[s].stored
  /\ ckpt[s].pending = r /\ r # NoRequest
  /\ ~ckpt[s].claimed
\* claim_human_decision: a compare-and-set under the store's lock.
ClaimHumanDecision(s, r, v) ==
  /\ Claimable(s, r)
  /\ ckpt' = [ckpt EXCEPT ![s].claimed = TRUE, ![s].submitted = <<r, v>>]
  /\ claims' = [claims EXCEPT ![r] = @ + 1]
  /\ verdict' = [verdict EXCEPT ![r] = v]
  /\ UNCHANGED <<raised, executed>>

Move(st, from, to) == pc[st] = from /\ pc' = [pc EXCEPT ![st] = to]
Becomes(st, states, to) ==
  /\ task[st] \in states
  /\ task' = [task EXCEPT ![st] = to]

-----------------------------------------------------------------------------
(* Requests: web/solve_routes.py, web/hitl_auto_resolve.py *)

\* POST /solve/stream: a new problem, or a resume of a stored checkpoint that
\* may pin the original session id.
SolveStream(st) ==
  /\ Move(st, "idle", "requested")
  /\ \E s \in Sessions \union {NoSession}, pin \in BOOLEAN :
       /\ s = NoSession => ~pin
       /\ s # NoSession => ckpt[s].stored
       /\ msg' = [msg EXCEPT ![st] = [NoMessage EXCEPT !.from = s, !.pin = pin]]
  /\ UNCHANGED <<sess, task, finished, aborted, shared, durable, timers, boot,
                 scan, history>>

\* POST /solve/{id}/decisions/stream: claim, disarm the timer, then the quota
\* check, which may still refuse to open the stream.  The resume is not pinned.
DecideStream(st) ==
  \E s \in Sessions, r \in Requests, v \in Verdicts :
    /\ pc[st] = "idle"
    /\ ClaimHumanDecision(s, r, v)
    /\ timers' = timers \ {<<s, r>>}
    /\ \/ /\ Move(st, "idle", "requested")
          /\ msg' = [msg EXCEPT ![st] =
                       [NoMessage EXCEPT !.from = s, !.decision = <<r, v>>]]
       \/ UNCHANGED <<pc, msg>>
    /\ UNCHANGED <<sess, task, finished, aborted, shared, rows, answered, boot,
                   scan>>

\* A timer expires: the default decision is claimed and a pinned headless
\* stream opened, unless the run has moved on or a person was first.
TimerFires(st, s, r) ==
  /\ <<s, r>> \in timers
  /\ timers' = timers \ {<<s, r>>}
  /\ IF Claimable(s, r)
     THEN /\ Move(st, "idle", "requested")
          /\ ClaimHumanDecision(s, r, "approve")
          /\ msg' = [msg EXCEPT ![st] =
                       [NoMessage EXCEPT !.origin = "timer", !.from = s, !.pin = TRUE,
                                         !.decision = <<r, "approve">>]]
     ELSE UNCHANGED <<pc, msg, ckpt, history>>
  /\ UNCHANGED <<sess, task, finished, aborted, shared, rows, answered, boot, scan>>

\* schedule_auto_resolve(s, r): re-arming a key cancels the task already filed
\* under it, which may be the headless stream that the earlier timer opened.
Arm(s, r) ==
  IF AutoResolve
  THEN /\ timers' = timers \union {<<s, r>>}
       /\ aborted' = aborted \union
            {st \in Streams : /\ msg[st].origin = "timer" /\ msg[st].from = s
                              /\ msg[st].decision = <<r, "approve">>}
  ELSE UNCHANGED <<timers, aborted>>

\* POST /solve/{id}/interrupt: cancels the task the registry names.
Interrupt(s) ==
  /\ Contains(s)
  /\ task[registry[s]] \in LiveTask
  /\ task' = [task EXCEPT ![registry[s]] = "cancelled"]
  /\ UNCHANGED <<pc, msg, sess, finished, aborted, shared, durable, timers, boot,
                 scan, history>>

-----------------------------------------------------------------------------
(* The generator, stream_solve_events: web/solve_session.py *)

\* The generator object is gone: only its session id stays taken.
Retire(st, to) ==
  /\ pc' = [pc EXCEPT ![st] = to]
  /\ msg' = [msg EXCEPT ![st] = NoMessage]
  /\ task' = [task EXCEPT ![st] = "none"]

\* The checkpoint is read; a decision submitted earlier stands in for one the
\* request does not carry.
Load(st) ==
  /\ Move(st, "requested", "loaded")
  /\ LET from == msg[st].from
     IN msg' = IF from = NoSession THEN msg
               ELSE [msg EXCEPT
                      ![st].pending = ckpt[from].pending,
                      ![st].decision = IF @ # NoDecision THEN @
                                       ELSE ckpt[from].submitted]
  /\ UNCHANGED <<sess, task, finished, aborted, shared, durable, timers, boot,
                 scan, history>>

\* No slot, or a pinned session that is already registered: the stream yields
\* an error event and ends.
Reject(st) ==
  /\ pc[st] = "loaded"
  /\ inFlight >= MaxSolves \/ (msg[st].pin /\ Contains(msg[st].from))
  /\ Retire(st, "closed")
  /\ UNCHANGED <<sess, finished, aborted, shared, durable, timers, boot, scan,
                 history>>

Unused(s) == /\ rows[s].status = "none"
             /\ ~ckpt[s].stored
             /\ \A other \in Streams : sess[other] # s
\* try_acquire and, without an await in between, the registry check.
Admit(st) ==
  /\ Move(st, "loaded", "opening")
  /\ TryAcquire
  /\ \E s \in Sessions :
       /\ IF msg[st].pin THEN s = msg[st].from /\ ~Contains(s) ELSE Unused(s)
       /\ sess' = [sess EXCEPT ![st] = s]
  /\ UNCHANGED <<msg, task, finished, aborted, registry, durable, timers, boot,
                 scan, history>>

\* The session and turn_started events, the pending turn and start_run come
\* before the try block: a generator closed or cancelled here runs no finally.
StartRun(st) ==
  /\ Move(st, "opening", "started")
  /\ \/ rows' = UpsertRunning(sess[st])
     \/ WritesMayFail /\ UNCHANGED rows
  /\ UNCHANGED <<msg, sess, task, finished, aborted, shared, ckpt, answered,
                 timers, boot, scan, history>>

\* A client stream is torn down when its transport goes away; a headless one
\* only when the task that drives it is cancelled.
CanBeTornDown(st) == msg[st].origin = "client" \/ st \in aborted

AbandonOpening(st) ==
  /\ pc[st] = "opening"
  /\ CanBeTornDown(st)
  /\ Retire(st, "leaked")
  /\ \/ UNCHANGED rows
     \/ rows' = UpsertRunning(sess[st])   \* start_run's thread is not cancelled
  /\ UNCHANGED <<sess, finished, aborted, shared, ckpt, answered, timers, boot,
                 scan, history>>

\* _build_agent, then the task is created and registered without an await.
Launch(st) ==
  /\ Move(st, "started", "streaming")
  /\ task' = [task EXCEPT ![st] = "fresh"]
  /\ Register(sess[st], st)
  /\ UNCHANGED <<msg, sess, finished, aborted, inFlight, durable, timers, boot,
                 scan, history>>
BuildFails(st) ==
  /\ Move(st, "started", "yielding")
  /\ FinishRun(st, "failed")
  /\ UNCHANGED <<msg, sess, task, aborted, shared, ckpt, answered, timers, boot,
                 scan, history>>
CancelledWhileBuilding(st) ==
  /\ pc[st] = "started"
  /\ CanBeTornDown(st)
  /\ FinishRun(st, "cancelled")
  /\ Release
  /\ Retire(st, "closed")
  /\ UNCHANGED <<sess, aborted, registry, ckpt, answered, timers, boot, scan, history>>

\* Mutant: the row is finished before the result is persisted.
PersistAfterFinish(st) ==
  /\ Move(st, "streaming", "persisted")
  /\ task[st] = "completed"
  /\ FinishRun(st, "completed")
  /\ UNCHANGED <<msg, sess, task, aborted, shared, ckpt, answered, timers, boot,
                 scan, history>>
\* on_event waits in queue.put when the queue is full; draining it lets the
\* task go on.  Only the streaming generator drains.
TaskParks(st) ==
  /\ QueueMayFill
  /\ pc[st] = "streaming"
  /\ Becomes(st, {"running"}, "parked")
  /\ UNCHANGED <<pc, msg, sess, finished, aborted, shared, durable, timers, boot,
                 scan, history>>
Drain(st) ==
  /\ pc[st] = "streaming"
  /\ Becomes(st, {"parked"}, "running")
  /\ UNCHANGED <<pc, msg, sess, finished, aborted, shared, durable, timers, boot,
                 scan, history>>

\* The queue is drained and the task done: what follows "await solve_task".
Persist(st) ==
  /\ Move(st, "streaming", "persisted")
  /\ task[st] = "completed"
  /\ \/ answered' = answered \union {sess[st]}
     \/ WritesMayFail /\ UNCHANGED answered
  /\ UNCHANGED <<msg, sess, task, finished, aborted, shared, rows, ckpt, timers,
                 boot, scan, history>>
Complete(st) ==
  /\ Move(st, "persisted", "yielding")
  /\ FinishRun(st, "completed")
  /\ UNCHANGED <<msg, sess, task, aborted, shared, ckpt, answered, timers, boot,
                 scan, history>>
\* The done task is the one that decided the run is waiting; the interaction
\* event is yielded with the stream's own session id as the checkpoint id.
PauseForHuman(st) ==
  /\ Move(st, "streaming", "yielding")
  /\ task[st] = "paused"
  /\ FinishRun(st, "waiting")
  /\ Arm(sess[st], msg[st].pending)
  /\ UNCHANGED <<msg, sess, task, shared, ckpt, answered, boot, scan, history>>
Fail(st) ==
  /\ Move(st, "streaming", "yielding")
  /\ task[st] = "failed"
  /\ FinishRun(st, "failed")
  /\ UNCHANGED <<msg, sess, task, aborted, shared, ckpt, answered, timers, boot,
                 scan, history>>
\* An interrupted task: CancelledError, and the finally block still detaches.
TaskCancelled(st) ==
  /\ Move(st, "streaming", "detached")
  /\ task[st] = "cancelled"
  /\ FinishRun(st, "cancelled")
  /\ UNCHANGED <<msg, sess, task, aborted, shared, ckpt, answered, timers, boot,
                 scan, history>>

\* Mutant: the finally block releases the slot it has handed to the finisher.
CloseReleasingTwice(st) ==
  /\ pc[st] = "yielding"
  /\ \/ /\ Move(st, "yielding", "detached")
        /\ task[st] = "failed"
        /\ Release
        /\ UNCHANGED <<msg, task, registry>>
     \/ /\ task[st] # "failed" \/ msg[st].origin = "client"
        /\ Discard(sess[st], st)
        /\ Release
        /\ Retire(st, "closed")
  /\ UNCHANGED <<sess, finished, aborted, durable, timers, boot, scan, history>>
\* The finally block of a stream whose last event was delivered: a failed task
\* is handed to a finisher unless the message opted out, anything else is cleaned up.
Close(st) ==
  /\ pc[st] = "yielding"
  /\ \/ /\ Move(st, "yielding", "detached")
        /\ task[st] = "failed"
        /\ UNCHANGED <<msg, task, shared>>
     \/ /\ task[st] # "failed" \/ msg[st].origin = "client"  \* _cancel_research set
        /\ Discard(sess[st], st)
        /\ Release
        /\ Retire(st, "closed")
  /\ UNCHANGED <<sess, finished, aborted, durable, timers, boot, scan, history>>

\* The transport goes away while events are streamed.  Closing the generator
\* at a yield (GeneratorExit) writes no row; cancelling it while it waits for
\* an event (CancelledError) does.
ClosedAtYield(st) ==
  /\ Move(st, "streaming", "detached")
  /\ msg[st].origin = "client"
  /\ UNCHANGED <<msg, sess, task, finished, aborted, shared, durable, timers,
                 boot, scan, history>>
CancelledWhileWaiting(st) ==
  /\ Move(st, "streaming", "detached")
  /\ task[st] # "parked"   \* the queue it waits for is empty
  /\ CanBeTornDown(st)
  /\ FinishRun(st, "cancelled")
  /\ UNCHANGED <<msg, sess, task, aborted, shared, ckpt, answered, timers, boot,
                 scan, history>>
\* _cancel_research: the task is cancelled and awaited instead.
OptedOutTearDown(st) ==
  /\ pc[st] = "streaming"
  /\ msg[st].origin = "client"
  /\ FinishRun(st, "cancelled")
  /\ Discard(sess[st], st)
  /\ Release
  /\ Retire(st, "closed")
  /\ UNCHANGED <<sess, aborted, ckpt, answered, timers, boot, scan, history>>
\* Cancelled while finish_run is awaited: run_finished is set already, the row
\* may or may not be written, and a paused run arms no timer.
CancelledWhileFinishing(st) ==
  /\ CanBeTornDown(st)
  /\ \E status \in {"completed", "waiting"} :
       /\ \/ pc[st] = "persisted" /\ status = "completed"
          \/ pc[st] = "streaming" /\ task[st] = "paused" /\ status = "waiting"
       /\ UpdateRow(sess[st], status) \/ UNCHANGED rows
  /\ finished' = finished \union {st}
  /\ Discard(sess[st], st)
  /\ Release
  /\ Retire(st, "closed")
  /\ UNCHANGED <<sess, aborted, ckpt, answered, timers, boot, scan, history>>

\* finish_detached_solve: the finisher inherits the slot and the registration.
DetachedPersist(st) ==
  /\ Move(st, "detached", "detachedPersisted")
  /\ task[st] = "completed"
  /\ \/ answered' = answered \union {sess[st]}
     \/ WritesMayFail /\ UNCHANGED answered
  /\ UNCHANGED <<msg, sess, task, finished, aborted, shared, rows, ckpt, timers,
                 boot, scan, history>>
\* Mutant: the finisher does not handle a run that paused for a human.
DetachedEndWithoutPause(st) ==
  /\ \/ pc[st] = "detachedPersisted" /\ FinishRun(st, "completed")
     \/ /\ pc[st] = "detached"
        /\ task[st] \in {"failed", "cancelled"}
        /\ FinishRun(st, task[st])
  /\ Discard(sess[st], st)
  /\ Release
  /\ Retire(st, "closed")
  /\ UNCHANGED <<sess, aborted, ckpt, answered, timers, boot, scan, history>>
DetachedEnd(st) ==
  /\ \/ /\ pc[st] = "detachedPersisted"
        /\ FinishRun(st, "completed")
        /\ UNCHANGED <<timers, aborted>>
     \/ /\ pc[st] = "detached"
        /\ task[st] \in {"failed", "cancelled"}
        /\ FinishRun(st, task[st])
        /\ UNCHANGED <<timers, aborted>>
     \/ /\ pc[st] = "detached"
        /\ task[st] = "paused"
        /\ FinishRun(st, "waiting")
        /\ Arm(sess[st], msg[st].pending)
  /\ Discard(sess[st], st)
  /\ Release
  /\ Retire(st, "closed")
  /\ UNCHANGED <<sess, ckpt, answered, boot, scan, history>>

-----------------------------------------------------------------------------
(* The agent task: agent/supervisor.py and agent/react_agent.py, as far as   *)
(* they touch the checkpoint and the pending interaction.                    *)

\* A trace without a pending interaction just runs.  With one, a matching
\* decision is applied (an approved action executes at once); without a
\* matching one the pause is raised again, and no checkpoint is written.
Matches(st) == /\ msg[st].decision # NoDecision
               /\ msg[st].decision[1] = msg[st].pending
TaskBegin(st) ==
  /\ IF msg[st].pending = NoRequest
     THEN Becomes(st, {"fresh"}, "running") /\ UNCHANGED executed
     ELSE IF Matches(st)
     THEN /\ Becomes(st, {"fresh"}, "acted")
          /\ executed' = IF msg[st].decision[2] = "approve"
                         THEN executed \union {msg[st].pending} ELSE executed
     ELSE Becomes(st, {"fresh"}, "paused") /\ UNCHANGED executed
  /\ UNCHANGED <<pc, msg, sess, finished, aborted, shared, durable, timers, boot,
                 scan, raised, claims, verdict>>
\* record_decision and the checkpoint that goes with it.
TaskRecord(st) ==
  /\ Becomes(st, {"acted"}, "running")
  /\ WriteCheckpoint(sess[st], NoRequest)
  /\ UNCHANGED <<pc, msg, sess, finished, aborted, shared, rows, answered, timers,
                 boot, scan, history>>
TaskStep(st) ==
  /\ task[st] = "running"
  /\ WriteCheckpoint(sess[st], NoRequest)
  /\ UNCHANGED <<control, shared, rows, answered, timers, boot, scan, history>>
\* A new interaction: the checkpoint carries it before the pause is raised.
TaskPause(st) ==
  \E r \in Requests \ raised :
    /\ Becomes(st, {"running"}, "paused")
    /\ raised' = raised \union {r}
    /\ msg' = [msg EXCEPT ![st].pending = r]
    /\ WriteCheckpoint(sess[st], r)
    /\ UNCHANGED <<pc, sess, finished, aborted, shared, rows, answered, timers,
                   boot, scan, claims, verdict, executed>>
TaskReturn(st) ==
  /\ \/ Becomes(st, {"running"}, "completed")
     \/ Becomes(st, Working, "failed")
  /\ UNCHANGED <<pc, msg, sess, finished, aborted, shared, durable, timers, boot,
                 scan, history>>

-----------------------------------------------------------------------------
(* Restart and recovery: web/app.py lifespan, web/run_recovery.py *)

\* Rows of a run that a graceful shutdown got to cancel before the loop closed.
Cancellable == {st \in Streams : /\ pc[st] \in {"started", "streaming", "detached"}
                                 /\ st \notin finished}
\* The process ends: nothing in memory survives.  A crash cancels nothing, a
\* graceful shutdown cancels the runs it reaches.  Then the process starts anew.
Restart ==
  /\ boot < MaxBoots
  /\ boot' = boot + 1
  /\ \E doomed \in SUBSET Cancellable :
       rows' = [s \in Sessions |->
                 IF rows[s].status # "none" /\ \E st \in doomed : sess[st] = s
                 THEN [rows[s] EXCEPT !.status = "cancelled"] ELSE rows[s]]
  /\ pc' = [st \in Streams |-> IF pc[st] = "idle" THEN "idle" ELSE "closed"]
  /\ msg' = [st \in Streams |-> NoMessage]
  /\ task' = [st \in Streams |-> "none"]
  /\ finished' = {}
  /\ aborted' = {}
  /\ inFlight' = 0
  /\ registry' = [s \in Sessions |-> NoStream]
  /\ timers' = {}
  /\ scan' = [phase |-> "list", todo |-> {}]
  /\ UNCHANGED <<sess, ckpt, answered, history>>

\* Mutant: rows of runs started by this process count as leftovers too.
LeftoverOfAnyBoot(s) == rows[s].status = "running"
\* Rows still "running" that were started before this scan.
Leftover(s) == rows[s].status = "running" /\ rows[s].boot < boot

\* list_running_runs: at most RecoveryMaxRuns of the leftovers young enough.
ScanList ==
  /\ scan.phase = "list"
  /\ \/ \E found \in SUBSET {s \in Sessions : Leftover(s)} :
          /\ Cardinality(found) <= RecoveryMaxRuns
          /\ scan' = [phase |-> "mark", todo |-> found]
     \/ WritesMayFail /\ scan' = [phase |-> "off", todo |-> {}]
  /\ UNCHANGED <<control, shared, durable, timers, boot, history>>
\* Mutant: only the listed runs are marked.
ScanMarkListed ==
  /\ scan.phase = "mark"
  /\ \/ /\ rows' = [s \in Sessions |->
                     IF Leftover(s) /\ s \in scan.todo
                     THEN [rows[s] EXCEPT !.status = "interrupted"] ELSE rows[s]]
        /\ scan' = [scan EXCEPT !.phase = "resume"]
     \/ /\ WritesMayFail /\ UNCHANGED rows
        /\ scan' = [phase |-> "off", todo |-> {}]
  /\ UNCHANGED <<control, shared, ckpt, answered, timers, boot, history>>
\* mark_running_interrupted, for every leftover and not the listed ones only.
ScanMark ==
  /\ scan.phase = "mark"
  /\ \/ /\ rows' = [s \in Sessions |->
                     IF Leftover(s) THEN [rows[s] EXCEPT !.status = "interrupted"]
                     ELSE rows[s]]
        /\ scan' = [scan EXCEPT !.phase = "resume"]
     \/ /\ WritesMayFail /\ UNCHANGED rows
        /\ scan' = [phase |-> "off", todo |-> {}]
  /\ UNCHANGED <<control, shared, ckpt, answered, timers, boot, history>>
\* One listed run: none without a checkpoint, "waiting" with a pending
\* interaction, otherwise a pinned headless resume.
RecoverRun(st) ==
  /\ scan.phase = "resume"
  /\ \E s \in scan.todo :
       /\ scan' = [scan EXCEPT !.todo = @ \ {s}]
       /\ IF ~ckpt[s].stored
          THEN UNCHANGED <<pc, msg, rows>>
          ELSE IF ckpt[s].pending # NoRequest
          THEN UpdateRow(s, "waiting") /\ UNCHANGED <<pc, msg>>
          ELSE /\ Move(st, "idle", "requested")
               /\ msg' = [msg EXCEPT ![st] = [NoMessage EXCEPT !.origin = "recovery",
                                                !.from = s, !.pin = TRUE]]
               /\ UNCHANGED rows
  /\ UNCHANGED <<sess, task, finished, aborted, shared, ckpt, answered, timers,
                 boot, history>>

-----------------------------------------------------------------------------
\* What a stream, its finisher or its task does on its own.
StreamStep(st) ==
  \/ Load(st) \/ Reject(st) \/ Admit(st) \/ StartRun(st)
  \/ Launch(st) \/ BuildFails(st) \/ Drain(st)
  \/ Persist(st) \/ Complete(st) \/ PauseForHuman(st) \/ Fail(st)
  \/ TaskCancelled(st) \/ Close(st)
  \/ DetachedPersist(st) \/ DetachedEnd(st)
TearDown(st) ==
  \/ AbandonOpening(st) \/ CancelledWhileBuilding(st)
  \/ ClosedAtYield(st) \/ CancelledWhileWaiting(st)
  \/ OptedOutTearDown(st) \/ CancelledWhileFinishing(st)
TaskWork(st) ==
  \/ TaskBegin(st) \/ TaskRecord(st) \/ TaskStep(st) \/ TaskPause(st)
  \/ TaskReturn(st) \/ TaskParks(st)
Recovery == ScanList \/ ScanMark \/ \E st \in Streams : RecoverRun(st)

Next ==
  \/ \E st \in Streams :
       \/ SolveStream(st) \/ DecideStream(st)
       \/ \E s \in Sessions, r \in Requests : TimerFires(st, s, r)
       \/ StreamStep(st) \/ TearDown(st) \/ TaskWork(st)
  \/ \E s \in Sessions : Interrupt(s)
  \/ Recovery
  \/ Restart

\* The event loop runs every ready coroutine, and a connected client's response is
\* pulled until it goes away.  A task makes only so many steps before its wall-time
\* deadline, so it returns even if it parks now and then.  Nothing makes a client act.
Fairness ==
  /\ \A st \in Streams :
       /\ WF_vars(StreamStep(st))
       /\ WF_vars(TaskBegin(st)) /\ WF_vars(TaskRecord(st)) /\ SF_vars(TaskReturn(st))
  /\ WF_vars(ScanList) /\ WF_vars(ScanMark)

Spec == Init /\ [][Next]_vars
FairSpec == Spec /\ Fairness

-----------------------------------------------------------------------------
TypeOK ==
  /\ pc \in [Streams -> Phases]
  /\ msg \in [Streams -> Message]
  /\ sess \in [Streams -> Sessions \union {NoSession}]
  /\ task \in [Streams -> TaskStates]
  /\ finished \subseteq Streams /\ aborted \subseteq Streams
  /\ inFlight \in Nat
  /\ registry \in [Sessions -> Streams \union {NoStream}]
  /\ rows \in [Sessions -> Row]
  /\ ckpt \in [Sessions -> Checkpoint]
  /\ answered \subseteq Sessions
  /\ timers \subseteq Sessions \X Requests
  /\ boot \in 1..MaxBoots
  /\ scan \in Scan
  /\ raised \subseteq Requests /\ executed \subseteq Requests
  /\ claims \in [Requests -> Nat]
  /\ verdict \in [Requests -> Verdicts \union {"none"}]

-----------------------------------------------------------------------------
(* Properties *)

Holders == {st \in Streams : pc[st] \in Holding}
LiveRuns == {st \in Streams : task[st] \in LiveTask}

\* The counter is exactly the number of streams and finishers that still owe a
\* release (leaked ones included), and never exceeds the limit: the slot is
\* released once, by the stream or by the finisher it was handed to, never by both.
SlotAccounting == inFlight = Cardinality(Holders) /\ inFlight <= MaxSolves

\* Admission control bounds the solves that really run: no task outlives the slot
\* it was admitted with, whoever finishes it.
RunningWithinCapacity == Cardinality(LiveRuns) <= MaxSolves

\* An entry of the registry names a run that has not been cleaned up, filed under
\* its own session: interrupt and status never act on a finished run.
RegistryFresh ==
  \A s \in Sessions : Contains(s) =>
    /\ registry[s] \in Streams
    /\ sess[registry[s]] = s
    /\ pc[registry[s]] \in Registered

\* As long as a registered run is not cleaned up, no other run's cleanup removes
\* its entry (the identity check of discard); it may be replaced by a newer run.
RegistrationKept ==
  [][\A s \in Sessions, st \in Streams :
       registry[s] = st /\ pc'[st] \in Registered => registry'[s] # NoStream]_vars

\* The human-decision protocol: one accepted decision per request, and no pending
\* action runs before an approving one.
Protocol == INSTANCE HumanDecision WITH NoVerdict <- "none"
DecisionProtocol == Protocol!Spec

\* A row says "completed" only when the answer is in the project's turns: the
\* result is persisted before the row is finished, on both paths to completion.
CompletedIsPersisted ==
  \A s \in Sessions : rows[s].status = "completed" => s \in answered

\* The recovery scan never marks the row of a run that is live in this process.
RecoverySparesLiveRuns ==
  \A st \in LiveRuns : rows[sess[st]].status # "interrupted"

\* A run detached while its task waits on the full queue: nobody drains it now.
Stranded(st) == pc[st] = "detached" /\ task[st] = "parked"
\* A launched run gives back its slot and its registration, whether the client
\* stays, leaves or interrupts, unless it is stranded on its queue.
LaunchedRunsEnd ==
  \A st \in Streams : pc[st] = "streaming" ~> (pc[st] = "closed" \/ Stranded(st))

\* Once the scan has marked the leftovers, no row still says "running" for a run
\* of an earlier process, however few of them the scan was allowed to resume.
NoStuckLeftovers ==
  scan.phase = "resume" =>
    \A s \in Sessions : rows[s].status = "running" => rows[s].boot = boot

=============================================================================
