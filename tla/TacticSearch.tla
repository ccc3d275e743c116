---------------------------- MODULE TacticSearch ----------------------------
(***************************************************************************)
(* Tactic searches over a pool of Lean REPL processes: LeanReplPool and    *)
(* LeanReplSession (lean/repl_session.py), ProofSearch                     *)
(* (lean/proof_search.py) and the tool's wall budget (agent/tools.py).     *)
(*                                                                         *)
(* The process is a queue of requests, a queue of answers and the proof    *)
(* states it has handed out, named by their index; what a state is about   *)
(* is the theorem of one search.  Which tactics the model proposes, what   *)
(* Lean says of them and the priority of the frontier are choices.         *)
(***************************************************************************)
EXTENDS Naturals, Sequences, FiniteSets

CONSTANTS
  Searches,
  MaxSessions,    \* repl_max_sessions
  RecycleAfter,   \* repl_recycle_after_commands, 0 for never
  BreakerDeaths,  \* _BREAKER_CONSECUTIVE_DEATHS
  MaxTries,       \* max_attempts
  MaxBegins,      \* bound: calls of the tool
  MaxFaults,      \* bound: processes that die, hang or do not start
  MaxCancels,     \* bound: searches that meet their wall budget
  None

ASSUME PoolAssumption ==
  /\ MaxSessions \in Nat \ {0} /\ RecycleAfter \in Nat /\ BreakerDeaths \in Nat \ {0}
  /\ MaxTries \in Nat /\ MaxBegins \in Nat /\ MaxFaults \in Nat /\ MaxCancels \in Nat
  /\ IsFiniteSet(Searches)

VARIABLES
  pool,     \* LeanReplPool
  held,     \* the session each search has checked out, or None
  search,   \* where each search is
  begun, faults, cancels

vars == <<pool, held, search, begun, faults, cancels>>

-----------------------------------------------------------------------------
(* Sessions and requests *)

Request == [by : Searches, try : 0..MaxTries, state : Nat]
Answer == [to : Request, kind : {"opened", "refused", "error", "progress", "completed"},
           state : Nat]
\* cutOff: the last request was given up by a search that was cancelled.
Session == [alive : BOOLEAN, served : Nat, states : Seq(Searches), todo : Seq(Request),
            out : Seq(Answer), cutOff : BOOLEAN]
ASSUME NoneAssumption == None \notin Session
Closed(session) == [session EXCEPT !.alive = FALSE, !.states = <<>>, !.todo = <<>>, !.out = <<>>]
\* start(): another process, which knows nothing.
Restarted(session) == [Closed(session) EXCEPT !.alive = TRUE, !.cutOff = FALSE]
NewSession == [alive |-> TRUE, served |-> 0, states |-> <<>>, todo |-> <<>>, out |-> <<>>,
               cutOff |-> FALSE]
ShouldRecycle(session) == RecycleAfter > 0 /\ session.served >= RecycleAfter

Steps == {"idle", "waiting", "checkout", "recheck", "starting", "asking", "reading",
          "choosing", "checking", "batch", "checkin", "closing", "done"}
\* try 0 is the statement itself; at is the proof state that is expanded, 0 for none.
Idle == [step |-> "idle", try |-> 0, retried |-> FALSE, at |-> 0, frontier |-> {},
         after |-> "done", result |-> "none"]

At(s, step) == search[s].step = step
\* The pool's lock is held across one await: the start of a process.
LockFree == \A s \in Searches : ~At(s, "starting")
Asked(s) == [by |-> s, try |-> search[s].try, state |-> search[s].at]

Init ==
  /\ pool = [permits |-> MaxSessions, idle |-> <<>>, spawned |-> 0, deaths |-> 0,
             open |-> FALSE]
  /\ held = [s \in Searches |-> None]
  /\ search = [s \in Searches |-> Idle]
  /\ begun = 0 /\ faults = 0 /\ cancels = 0

Go(s, step) == search' = [search EXCEPT ![s].step = step]
\* The search ends with a result, or goes on in batch mode, once its session is back.
Leave(s, after, result) ==
  search' = [search EXCEPT ![s].step = IF held[s] = None THEN after ELSE "checkin",
                           ![s].after = after, ![s].result = result]
\* The session is back: the search is done or tries again in batch mode.
Resume(s) == Go(s, search[s].after)
Freed == [pool EXCEPT !.permits = @ + 1]
Fault == faults < MaxFaults /\ faults' = faults + 1

-----------------------------------------------------------------------------
(* LeanReplPool: session, _checkout, _checkin *)

\* Another call starts from nothing; an open breaker sends it to batch mode.
Begin(s) ==
  /\ search[s].step \in {"idle", "done"}
  /\ begun < MaxBegins /\ begun' = begun + 1
  /\ search' = [search EXCEPT ![s] =
                  [Idle EXCEPT !.step = IF pool.open THEN "batch" ELSE "waiting"]]
  /\ UNCHANGED <<pool, held, faults, cancels>>

Acquire(s) ==
  /\ At(s, "waiting") /\ pool.permits > 0
  /\ pool' = [pool EXCEPT !.permits = @ - 1]
  /\ Go(s, "checkout") /\ UNCHANGED <<held, faults, begun, cancels>>

Take(s, session) == held' = [held EXCEPT ![s] = session]
Alive == {i \in DOMAIN pool.idle : pool.idle[i].alive}
\* Mutant: a free number is used before the sessions that are idle.
CheckOutFresh(s) ==
  /\ At(s, "checkout") /\ LockFree
  /\ IF pool.spawned < MaxSessions
     THEN /\ pool' = [pool EXCEPT !.spawned = @ + 1]
          /\ Go(s, "starting") /\ UNCHANGED held
     ELSE IF Alive # {}
     THEN \E top \in Alive :
            /\ \A i \in Alive : i <= top
            /\ Take(s, pool.idle[top])
            /\ pool' = [pool EXCEPT !.idle = SubSeq(@, 1, top - 1)]
            /\ Go(s, "asking")
     ELSE /\ pool' = [pool EXCEPT !.idle = <<>>]
          /\ Go(s, "recheck") /\ UNCHANGED held
  /\ UNCHANGED <<faults, begun, cancels>>
\* Sessions that died while they were idle are popped and stay counted in spawned.
CheckOut(s) ==
  /\ At(s, "checkout") /\ LockFree
  /\ IF Alive # {}
     THEN \E top \in Alive :
            /\ \A i \in Alive : i <= top
            /\ Take(s, pool.idle[top])
            /\ pool' = [pool EXCEPT !.idle = SubSeq(@, 1, top - 1)]
            /\ Go(s, "asking")
     ELSE LET room == pool.spawned < MaxSessions
          IN /\ pool' = [pool EXCEPT !.idle = <<>>,
                                     !.spawned = @ + IF room THEN 1 ELSE 0]
             /\ Go(s, IF room THEN "starting" ELSE "recheck")
             /\ UNCHANGED held
  /\ UNCHANGED <<faults, begun, cancels>>

\* Mutant: the search waits until a session is returned.
RecheckWaiting(s) ==
  /\ At(s, "recheck") /\ LockFree /\ pool.idle # <<>>
  /\ Take(s, pool.idle[Len(pool.idle)])
  /\ pool' = [pool EXCEPT !.idle = SubSeq(@, 1, Len(@) - 1)]
  /\ Go(s, "asking")
  /\ UNCHANGED <<faults, begun, cancels>>
\* The lock is taken again; without a session the search falls back to batch mode.
Recheck(s) ==
  /\ At(s, "recheck") /\ LockFree
  /\ IF pool.idle # <<>>
     THEN /\ Take(s, pool.idle[Len(pool.idle)])
          /\ pool' = [pool EXCEPT !.idle = SubSeq(@, 1, Len(@) - 1)]
          /\ Go(s, "asking")
     ELSE pool' = Freed /\ Go(s, "batch") /\ UNCHANGED held
  /\ UNCHANGED <<faults, begun, cancels>>

Started(s) ==
  /\ At(s, "starting")
  /\ Take(s, NewSession) /\ Go(s, "asking")
  /\ UNCHANGED <<pool, faults, begun, cancels>>

NotSpawned == [Freed EXCEPT !.spawned = @ - 1]
\* No binary: batch mode.  No lake: the error is the tool's answer.
StartFails(s) ==
  /\ At(s, "starting") /\ Fault
  /\ pool' = NotSpawned
  /\ \E after \in {"batch", "done"} :
       search' = [search EXCEPT ![s].step = after,
                                ![s].result = IF after = "done" THEN "raised" ELSE "none"]
  /\ UNCHANGED <<held, begun, cancels>>

Deaths == IF pool.deaths + 1 >= BreakerDeaths THEN 0 ELSE pool.deaths + 1
CheckIn(s) ==
  LET session == held[s] IN
  /\ At(s, "checkin") /\ LockFree
  /\ IF session.alive /\ ~ShouldRecycle(session)
     THEN /\ pool' = [Freed EXCEPT !.idle = Append(@, session), !.deaths = 0]
          /\ Take(s, None) /\ Resume(s)
     ELSE /\ pool' = [pool EXCEPT !.spawned = IF @ = 0 THEN 0 ELSE @ - 1,
                                  !.deaths = IF session.alive THEN 0 ELSE Deaths,
                                  !.open = @ \/ (~session.alive /\ Deaths = 0)]
          /\ Go(s, "closing") /\ UNCHANGED held
  /\ UNCHANGED <<faults, begun, cancels>>

\* The permit is given back once the process is gone.
Close(s) ==
  /\ At(s, "closing")
  /\ pool' = Freed
  /\ Take(s, None) /\ Resume(s)
  /\ UNCHANGED <<faults, begun, cancels>>

CooledDown ==
  /\ pool.open
  /\ pool' = [pool EXCEPT !.open = FALSE]
  /\ UNCHANGED <<held, search, faults, begun, cancels>>

-----------------------------------------------------------------------------
(* LeanReplSession: _request and the process *)

Ask(s) ==
  LET session == IF held[s].alive THEN held[s] ELSE Restarted(held[s]) IN
  /\ At(s, "asking")
  /\ Take(s, [session EXCEPT !.todo = Append(@, Asked(s))])
  /\ Go(s, "reading") /\ UNCHANGED <<pool, faults, begun, cancels>>

\* What the process makes of a request: a new proof state of its theorem, or a message.
Outcomes(session, request) ==
  LET reply(kind, states) ==
        [session EXCEPT !.todo = Tail(@), !.states = states,
           !.out = Append(@, [to |-> request, kind |-> kind,
                              state |-> IF kind \in {"error", "refused"} THEN 0 ELSE Len(states)])]
      more(theorem) == Append(session.states, theorem)
  IN IF request.state = 0
     THEN {reply("opened", more(request.by)), reply("refused", session.states)}
     ELSE IF request.state \in DOMAIN session.states
     THEN LET next == more(session.states[request.state])
          IN {reply("progress", next), reply("completed", next), reply("error", session.states)}
     ELSE {reply("error", session.states)}
Served(session) ==
  IF session.alive /\ session.todo # <<>> THEN Outcomes(session, Head(session.todo)) ELSE {}

ProcessAnswers ==
  /\ \/ \E s \in Searches : /\ held[s] # None
                            /\ \E session \in Served(held[s]) : Take(s, session)
                            /\ UNCHANGED pool
     \/ \E i \in DOMAIN pool.idle :
          /\ \E session \in Served(pool.idle[i]) : pool' = [pool EXCEPT !.idle[i] = session]
          /\ UNCHANGED held
  /\ UNCHANGED <<search, faults, begun, cancels>>

\* The process exits or is killed; what it had written can still be read.
ProcessDies ==
  /\ Fault
  /\ \/ \E s \in Searches : /\ held[s] # None /\ held[s].alive
                            /\ Take(s, [held[s] EXCEPT !.alive = FALSE])
                            /\ UNCHANGED pool
     \/ \E i \in DOMAIN pool.idle : /\ pool.idle[i].alive
                                    /\ pool' = [pool EXCEPT !.idle[i].alive = FALSE]
                                    /\ UNCHANGED held
  /\ UNCHANGED <<search, begun, cancels>>

\* Mutant: the process is kept for the second attempt.
GivenUpKept(s) == Take(s, held[s])
GivenUp(s) == Take(s, Closed(held[s]))
\* No answer: the process is closed and the same request sent to a new one, once.
NoAnswer(s) ==
  /\ At(s, "reading") /\ held[s].out = <<>>
  /\ IF held[s].alive THEN Fault ELSE UNCHANGED faults
  /\ GivenUp(s)
  /\ IF search[s].retried THEN Leave(s, "batch", "none")
     ELSE search' = [search EXCEPT ![s].step = "asking", ![s].retried = TRUE]
  /\ UNCHANGED <<pool, begun, cancels>>

Heard(s) == Head(held[s].out)
ReadAnswer(s) ==
  Take(s, [held[s] EXCEPT !.out = Tail(@), !.served = @ + 1])

-----------------------------------------------------------------------------
(* ProofSearch *)

\* The statement is outside the trusted subset.
Blocked(s) ==
  /\ At(s, "asking") /\ search[s].try = 0 /\ ~search[s].retried
  /\ Leave(s, "done", "blocked")
  /\ UNCHANGED <<pool, held, faults, begun, cancels>>

\* Without a proof state the search goes on in batch mode with the session in hand; a
\* message that is no answer to a command is raised.
Opens(s) ==
  /\ At(s, "reading") /\ held[s].out # <<>> /\ search[s].try = 0
  /\ ReadAnswer(s)
  /\ \/ /\ Heard(s).kind = "opened"
        /\ search' = [search EXCEPT ![s].step = "choosing", ![s].frontier = {Heard(s).state}]
     \/ Heard(s).kind \in {"refused", "progress", "completed"} /\ Go(s, "batch")
     \/ Heard(s).kind = "error" /\ Leave(s, "batch", "none")
  /\ UNCHANGED <<pool, faults, begun, cancels>>

\* A child that is too deep, or was seen, is not kept.
Tried(s) ==
  /\ At(s, "reading") /\ held[s].out # <<>> /\ search[s].try > 0
  /\ ReadAnswer(s)
  /\ \/ Heard(s).kind # "completed" /\ Go(s, "choosing")
     \/ /\ Heard(s).kind = "progress"
        /\ search' = [search EXCEPT ![s].step = "choosing", ![s].frontier = @ \union {Heard(s).state}]
     \/ Heard(s).kind = "completed" /\ Go(s, "checking")
  /\ UNCHANGED <<pool, faults, begun, cancels>>

Pop(s) ==
  /\ At(s, "choosing") /\ search[s].try < MaxTries
  /\ \E node \in search[s].frontier :
       search' = [search EXCEPT ![s].at = node, ![s].frontier = @ \ {node}]
  /\ UNCHANGED <<pool, held, faults, begun, cancels>>

\* One of the tactics the model proposes for the state.
Try(s) ==
  /\ At(s, "choosing") /\ search[s].try < MaxTries /\ search[s].at # 0
  /\ search' = [search EXCEPT ![s].step = "asking", ![s].try = @ + 1, ![s].retried = FALSE]
  /\ UNCHANGED <<pool, held, faults, begun, cancels>>

Exhausted(s) ==
  /\ At(s, "choosing") /\ (search[s].frontier = {} \/ search[s].try = MaxTries)
  /\ Leave(s, "done", "exhausted")
  /\ UNCHANGED <<pool, held, faults, begun, cancels>>

\* The batch checker is the authority for a closed goal.
CheckProof(s) ==
  /\ At(s, "checking")
  /\ Go(s, "choosing") \/ Leave(s, "done", "found")
  /\ UNCHANGED <<pool, held, faults, begun, cancels>>

SearchBatch(s) ==
  /\ At(s, "batch")
  /\ \E result \in {"found", "exhausted"} : Leave(s, "done", result)
  /\ UNCHANGED <<pool, held, faults, begun, cancels>>

-----------------------------------------------------------------------------
(* The wall budget of tactic_search: the search is cancelled where it waits *)

Cancel(s) ==
  /\ cancels < MaxCancels /\ cancels' = cancels + 1
  /\ \/ /\ At(s, "waiting") /\ UNCHANGED <<pool, held>>
     \/ /\ search[s].step \in {"checkout", "recheck"} /\ ~LockFree
        /\ pool' = Freed /\ UNCHANGED held
     \* Only an Exception gives the number back.
     \/ /\ At(s, "starting") /\ pool' = Freed /\ UNCHANGED held
     \/ /\ search[s].step \in {"asking", "choosing", "checking", "batch"}
        /\ UNCHANGED <<pool, held>>
     \* The answer stays in the pipe of a process that is not closed.
     \/ /\ At(s, "reading") /\ Take(s, [held[s] EXCEPT !.cutOff = TRUE]) /\ UNCHANGED pool
     \* The session is dropped with its process.
     \/ /\ At(s, "checkin") /\ ~LockFree
        /\ pool' = Freed /\ Take(s, None)
     \/ /\ At(s, "closing") /\ pool' = Freed /\ Take(s, None)
  /\ search' = [search EXCEPT
       ![s].step = IF held[s] # None /\ @ \notin {"checkin", "closing"} THEN "checkin" ELSE "done",
       ![s].after = "done", ![s].result = "timeout"]
  /\ UNCHANGED <<begun, faults>>

-----------------------------------------------------------------------------
Pooling(s) ==
  \/ Acquire(s) \/ CheckOut(s) \/ Recheck(s) \/ Started(s) \/ StartFails(s) \/ CheckIn(s)
  \/ Close(s)
Searching(s) ==
  \/ Ask(s) \/ NoAnswer(s) \/ Blocked(s) \/ Opens(s) \/ Tried(s) \/ Pop(s) \/ Try(s)
  \/ Exhausted(s) \/ CheckProof(s) \/ SearchBatch(s)
Step(s) == Pooling(s) \/ Searching(s)
Next ==
  \/ \E s \in Searches : Begin(s) \/ Step(s) \/ Cancel(s)
  \/ ProcessAnswers \/ ProcessDies \/ CooledDown

Spec == Init /\ [][Next]_vars
\* A started search runs on, and a process that lives answers.
FairSpec == Spec /\ WF_vars(ProcessAnswers) /\ \A s \in Searches : WF_vars(Step(s))

-----------------------------------------------------------------------------
(* Properties *)

\* The state is well formed.
TypeOK ==
  /\ pool \in [permits : 0..MaxSessions, idle : Seq(Session), spawned : 0..MaxSessions,
               deaths : 0..BreakerDeaths - 1, open : BOOLEAN]
  /\ held \in [Searches -> Session \union {None}]
  /\ \A s \in Searches : search[s].step \in Steps

Out == {s \in Searches : held[s] # None}
Processes ==
  Cardinality({s \in Out : held[s].alive}) + Cardinality(Alive)
  + Cardinality({s \in Searches : At(s, "starting")})

\* The pool never runs more REPL processes than repl_max_sessions, a session that is being
\* closed or started included: the number is given back before the process is gone.
ProcessesWithinLimit == Processes <= MaxSessions

\* Through deaths, time-outs and restarts a search reads the answers to its own requests, and
\* a proof state it remembers is one of its theorem or unknown to the process it talks to;
\* unless a search that was cancelled left an answer in that process's pipe.
AnswersAreOwn ==
  \A s \in Out : ~held[s].cutOff =>
    /\ At(s, "reading") /\ held[s].out # <<>> => Heard(s).to = Asked(s)
    /\ \A id \in search[s].frontier \union {search[s].at} :
         id \in DOMAIN held[s].states => held[s].states[id] = s

\* Every search that begins ends: with a proof, without one, in batch mode or by its budget,
\* whatever the processes do and whatever number of sessions the pool has lost count of.
SearchesEnd == \A s \in Searches : search[s].step # "idle" ~> At(s, "done")
=============================================================================
