------------------------- MODULE SolveSessionProofs -------------------------
(***************************************************************************)
(* Theorems about SolveSession, for every value of its constants.          *)
(*                                                                         *)
(* TypeOK is not inductive: a detached or streaming run files its session  *)
(* and its pending request in the timers, so the invariant also says that  *)
(* an admitted stream has a session (SessionAssigned), a paused task a     *)
(* request (PauseCarriesRequest), and that a task exists only between its  *)
(* registration and its cleanup (TaskPlaced).  The sections are: types;    *)
(* slots and registrations; rows and answers; decisions, where the model   *)
(* is shown to implement HumanDecision.                                    *)
(***************************************************************************)
EXTENDS SolveSession, FiniteSetTheorems, TLAPS

USE DEF control, shared, durable, history

SessionAssigned == \A st \in Streams : pc[st] \in Holding => sess[st] \in Sessions
PauseCarriesRequest ==
  \A st \in Streams : task[st] = "paused" => msg[st].pending # NoRequest
TaskPlaced == \A st \in Streams : task[st] # "none" => pc[st] \in Registered
Placement == SessionAssigned /\ PauseCarriesRequest /\ TaskPlaced
TypeInv == TypeOK /\ Placement

-----------------------------------------------------------------------------
(* Membership facts that keep the sets of names folded in the steps below. *)

LEMMA PhaseFacts ==
  \A x \in {"idle", "requested", "loaded", "opening", "started", "streaming",
            "persisted", "yielding", "detached", "detachedPersisted", "closed",
            "leaked"} : x \in Phases
  BY DEF Phases
LEMMA HoldingFacts ==
  \A x \in {"opening", "started", "streaming", "persisted", "yielding", "detached",
            "detachedPersisted", "leaked"} : x \in Holding
  BY DEF Holding
LEMMA NotHoldingFacts ==
  \A x \in {"idle", "requested", "loaded", "closed"} : x \notin Holding
  BY DEF Holding
LEMMA TaskFacts ==
  \A x \in {"none", "fresh", "acted", "running", "parked", "completed", "failed", "cancelled",
            "paused"} : x \in TaskStates
  BY DEF TaskStates, LiveTask, Working
LEMMA StatusFacts ==
  \A x \in {"none", "running", "completed", "failed", "cancelled", "waiting",
            "interrupted"} : x \in Statuses
  BY DEF Statuses
LEMMA EmptyMessage == NoMessage \in Message
  BY DEF NoMessage, Message, Origins

LEMMA RegisteredFacts ==
  /\ \A x \in {"streaming", "persisted", "yielding", "detached", "detachedPersisted"} :
       x \in Registered
  /\ \A x \in {"idle", "requested", "loaded", "opening", "started"} : x \notin Registered
  /\ Registered \subseteq Holding
  BY DEF Registered, Holding

(* What the helpers do to the types of the variables they assign. *)

LEMMA FinishRunType ==
  ASSUME TypeOK, NEW st \in Streams, NEW status \in Statuses, FinishRun(st, status)
  PROVE  rows' \in [Sessions -> Row] /\ finished' \subseteq Streams
  BY DEF FinishRun, UpdateRow, TypeOK, Row
LEMMA UpdateRowType ==
  ASSUME TypeOK, NEW s \in Sessions, NEW status \in Statuses, UpdateRow(s, status)
  PROVE  rows' \in [Sessions -> Row]
  BY DEF UpdateRow, TypeOK, Row
LEMMA UpsertType ==
  ASSUME TypeOK, NEW s
  PROVE  UpsertRunning(s) \in [Sessions -> Row]
<1>1. boot \in 0..MaxBoots
  BY BootAssumption DEF TypeOK
<1>2. [status |-> "running", boot |-> boot] \in Row
  BY <1>1, StatusFacts DEF Row
<1> QED
  BY <1>2 DEF UpsertRunning, TypeOK
LEMMA RetireType ==
  ASSUME TypeOK, NEW st \in Streams, NEW to \in Phases, Retire(st, to)
  PROVE  /\ pc' \in [Streams -> Phases]
         /\ msg' \in [Streams -> Message]
         /\ task' \in [Streams -> TaskStates]
  BY EmptyMessage, TaskFacts DEF Retire, TypeOK
LEMMA ReleaseType == TypeOK /\ Release => inFlight' \in Nat
  BY DEF TypeOK, Release
LEMMA DiscardType ==
  ASSUME TypeOK, NEW s, NEW st \in Streams, Discard(s, st)
  PROVE  registry' \in [Sessions -> Streams \union {NoStream}]
  BY DEF TypeOK, Discard
LEMMA ArmType ==
  ASSUME TypeOK, NEW s \in Sessions, NEW r \in Requests, Arm(s, r)
  PROVE  timers' \subseteq Sessions \X Requests /\ aborted' \subseteq Streams
  BY DEF TypeOK, Arm
LEMMA WriteCheckpointType ==
  ASSUME TypeOK, NEW s, NEW r \in Requests \union {NoRequest}, WriteCheckpoint(s, r)
  PROVE  ckpt' \in [Sessions -> Checkpoint]
<1>1. Snapshot(r) \in Checkpoint
  BY DEF Snapshot, Checkpoint
<1> QED
  BY <1>1 DEF TypeOK, WriteCheckpoint
LEMMA ClaimType ==
  ASSUME TypeOK, NEW s \in Sessions, NEW r \in Requests, NEW v \in Verdicts,
         ClaimHumanDecision(s, r, v)
  PROVE  /\ ckpt' \in [Sessions -> Checkpoint]
         /\ claims' \in [Requests -> Nat]
         /\ verdict' \in [Requests -> Verdicts \union {"none"}]
         /\ raised' \subseteq Requests /\ executed' \subseteq Requests
<1>1. <<r, v>> \in Decisions
  BY DEF Decisions
<1>2. ckpt[s] \in Checkpoint
  BY DEF TypeOK
<1>3. ckpt' \in [Sessions -> Checkpoint]
  BY <1>1, <1>2 DEF ClaimHumanDecision, TypeOK, Checkpoint
<1>4. claims' \in [Requests -> Nat] /\ verdict' \in [Requests -> Verdicts \union {"none"}]
  BY DEF ClaimHumanDecision, TypeOK
<1> QED
  BY <1>3, <1>4 DEF ClaimHumanDecision, TypeOK

-----------------------------------------------------------------------------
(* Type correctness *)

LEMMA TypeInit == Init => TypeInv
<1> SUFFICES ASSUME Init PROVE TypeInv
  OBVIOUS
<1>1. TypeOK
  <2>1. NoCheckpoint \in Checkpoint
    BY DEF NoCheckpoint, Checkpoint
  <2>2. [status |-> "none", boot |-> 0] \in Row
    BY BootAssumption, StatusFacts DEF Row
  <2>3. [phase |-> "list", todo |-> {}] \in Scan
    BY DEF Scan
  <2>4. boot \in 1..MaxBoots
    BY BootAssumption DEF Init
  <2> QED
    BY <2>1, <2>2, <2>3, <2>4, PhaseFacts, TaskFacts, EmptyMessage DEF Init, TypeOK
<1>2. Placement
  BY NotHoldingFacts DEF Init, Placement, SessionAssigned, PauseCarriesRequest, TaskPlaced
<1> QED
  BY <1>1, <1>2 DEF TypeInv

LEMMA TypeStep == TypeInv /\ [Next]_vars => TypeInv'
<1> SUFFICES ASSUME TypeInv, [Next]_vars PROVE TypeInv'
  OBVIOUS
<1> USE DEF TypeInv
<1> DEFINE TypedControl == /\ pc' \in [Streams -> Phases]
                           /\ msg' \in [Streams -> Message]
                           /\ task' \in [Streams -> TaskStates]
           TypedRows == rows' \in [Sessions -> Row] /\ finished' \subseteq Streams
           TypedRegistry == registry' \in [Sessions -> Streams \union {NoStream}]
           TypedTimers == timers' \subseteq Sessions \X Requests /\ aborted' \subseteq Streams
<1>1. ASSUME NEW st \in Streams, SolveStream(st) PROVE TypeInv'
  <2>1. pc' \in [Streams -> Phases]
    BY <1>1, PhaseFacts DEF SolveStream, Move, TypeOK
  <2>2. msg' \in [Streams -> Message]
    <3>1. PICK s \in Sessions \union {NoSession}, pin \in BOOLEAN :
            msg' = [msg EXCEPT ![st] = [NoMessage EXCEPT !.from = s, !.pin = pin]]
      BY <1>1 DEF SolveStream
    <3>2. [NoMessage EXCEPT !.from = s, !.pin = pin] \in Message
      BY DEF NoMessage, Message, Origins
    <3> QED
      BY <3>1, <3>2 DEF TypeOK
  <2>3. TypeOK'
    BY <1>1, <2>1, <2>2 DEF SolveStream, TypeOK
  <2>4. Placement'
    BY <1>1, HoldingFacts, NotHoldingFacts, RegisteredFacts DEF SolveStream, TypeOK, Placement, SessionAssigned, PauseCarriesRequest, TaskPlaced, Move
  <2> QED
    BY <2>3, <2>4
<1>2. ASSUME NEW st \in Streams, DecideStream(st) PROVE TypeInv'
  <2>1. /\ ckpt' \in [Sessions -> Checkpoint]
       /\ claims' \in [Requests -> Nat]
       /\ verdict' \in [Requests -> Verdicts \union {"none"}]
       /\ raised' \subseteq Requests /\ executed' \subseteq Requests
    BY <1>2, ClaimType DEF DecideStream
  <2>2. pc' \in [Streams -> Phases]
    BY <1>2, PhaseFacts DEF DecideStream, Move, TypeOK
  <2>3. msg' \in [Streams -> Message]
    <3>1. PICK s \in Sessions, r \in Requests, v \in Verdicts :
            \/ msg' = [msg EXCEPT ![st] =
                        [NoMessage EXCEPT !.from = s, !.decision = <<r, v>>]]
            \/ msg' = msg
      BY <1>2 DEF DecideStream
    <3>2. [NoMessage EXCEPT !.from = s, !.decision = <<r, v>>] \in Message
      BY DEF NoMessage, Message, Origins, Decisions
    <3> QED
      BY <3>1, <3>2 DEF TypeOK
  <2>4. timers' \subseteq Sessions \X Requests
    BY <1>2 DEF DecideStream, TypeOK
  <2>5. TypeOK'
    BY <1>2, <2>1, <2>2, <2>3, <2>4 DEF DecideStream, TypeOK
  <2>6. Placement'
    BY <1>2, HoldingFacts, NotHoldingFacts, RegisteredFacts DEF DecideStream, TypeOK, Placement, SessionAssigned, PauseCarriesRequest, TaskPlaced, Move, ClaimHumanDecision
  <2> QED
    BY <2>5, <2>6
<1>3. ASSUME NEW st \in Streams, NEW s \in Sessions, NEW r \in Requests,
            TimerFires(st, s, r)
     PROVE  TypeInv'
  <2>1. CASE Claimable(s, r)
    <3>1. /\ ckpt' \in [Sessions -> Checkpoint]
          /\ claims' \in [Requests -> Nat]
          /\ verdict' \in [Requests -> Verdicts \union {"none"}]
          /\ raised' \subseteq Requests /\ executed' \subseteq Requests
      BY <1>3, <2>1, ClaimType DEF TimerFires, Verdicts
    <3>2. [NoMessage EXCEPT !.origin = "timer", !.from = s, !.pin = TRUE,
                            !.decision = <<r, "approve">>] \in Message
      BY DEF NoMessage, Message, Origins, Decisions, Verdicts
    <3>3. pc' \in [Streams -> Phases] /\ msg' \in [Streams -> Message]
      BY <1>3, <2>1, <3>2, PhaseFacts DEF TimerFires, Move, TypeOK
    <3>4. TypeOK'
      BY <1>3, <2>1, <3>1, <3>3 DEF TimerFires, TypeOK
    <3>5. Placement'
      BY <1>3, <2>1, HoldingFacts, NotHoldingFacts, RegisteredFacts
         DEF TimerFires, Move, TypeOK, Placement, SessionAssigned, PauseCarriesRequest, TaskPlaced
    <3> QED
      BY <3>4, <3>5
  <2>2. CASE ~Claimable(s, r)
    <3>1. TypeOK'
      BY <1>3, <2>2 DEF TimerFires, TypeOK
    <3>2. Placement'
      BY <1>3, <2>2 DEF TimerFires, Placement, SessionAssigned, PauseCarriesRequest, TaskPlaced
    <3> QED
      BY <3>1, <3>2
  <2> QED
    BY <2>1, <2>2
<1>4. ASSUME NEW s \in Sessions, Interrupt(s) PROVE TypeInv'
  <2>1. registry[s] \in Streams
    BY <1>4 DEF Interrupt, Contains, TypeOK
  <2>2. task' \in [Streams -> TaskStates]
    BY <1>4, <2>1, TaskFacts DEF Interrupt, TypeOK
  <2>3. TypeOK'
    BY <1>4, <2>2 DEF Interrupt, TypeOK
  <2>4. Placement'
    BY <1>4, <2>1 DEF Interrupt, LiveTask, Working, TypeOK, Placement, SessionAssigned, PauseCarriesRequest, TaskPlaced
  <2> QED
    BY <2>3, <2>4
<1>5. ASSUME NEW st \in Streams, Load(st) PROVE TypeInv'
  <2>1. pc' \in [Streams -> Phases]
    BY <1>5, PhaseFacts DEF Load, Move, TypeOK
  <2>2. msg' \in [Streams -> Message]
    <3>1. msg[st] \in Message
      BY DEF TypeOK
    <3>2. CASE msg[st].from = NoSession
      BY <1>5, <3>2 DEF Load, TypeOK
    <3>3. CASE msg[st].from # NoSession
      <4>1. ckpt[msg[st].from] \in Checkpoint
        BY <3>1, <3>3 DEF Message, TypeOK
      <4> QED
        BY <1>5, <3>1, <3>3, <4>1 DEF Load, TypeOK, Message, Checkpoint
    <3> QED
      BY <3>2, <3>3
  <2>3. TypeOK'
    BY <1>5, <2>1, <2>2 DEF Load, TypeOK
  <2>4. Placement'
    BY <1>5, HoldingFacts, NotHoldingFacts, RegisteredFacts DEF Load, TypeOK, Placement, SessionAssigned, PauseCarriesRequest, TaskPlaced, Move
  <2> QED
    BY <2>3, <2>4
<1>6. ASSUME NEW st \in Streams, Reject(st) PROVE TypeInv'
  <2>1. TypedControl
    BY <1>6, RetireType, PhaseFacts DEF Reject
  <2>2. TypeOK'
    BY <1>6, <2>1 DEF Reject, TypeOK
  <2>3. Placement'
    BY <1>6, HoldingFacts, NotHoldingFacts, RegisteredFacts DEF Reject, TypeOK, Placement, SessionAssigned, PauseCarriesRequest, TaskPlaced, Retire
  <2> QED
    BY <2>2, <2>3
<1>7. ASSUME NEW st \in Streams, Admit(st) PROVE TypeInv'
  <2>1. pc' \in [Streams -> Phases]
    BY <1>7, PhaseFacts DEF Admit, Move, TypeOK
  <2>2. inFlight' \in Nat
    BY <1>7 DEF Admit, TryAcquire, TypeOK
  <2>3. sess' \in [Streams -> Sessions \union {NoSession}]
    BY <1>7 DEF Admit, TypeOK
  <2>4. TypeOK'
    BY <1>7, <2>1, <2>2, <2>3 DEF Admit, TypeOK
  <2>5. Placement'
    BY <1>7, HoldingFacts, NotHoldingFacts, RegisteredFacts DEF Admit, TypeOK, Placement, SessionAssigned, PauseCarriesRequest, TaskPlaced, Move
  <2> QED
    BY <2>4, <2>5
<1>8. ASSUME NEW st \in Streams, StartRun(st) PROVE TypeInv'
  <2>1. pc' \in [Streams -> Phases]
    BY <1>8, PhaseFacts DEF StartRun, Move, TypeOK
  <2>2. rows' \in [Sessions -> Row]
    BY <1>8, UpsertType DEF StartRun, TypeOK
  <2>3. TypeOK'
    BY <1>8, <2>1, <2>2 DEF StartRun, TypeOK
  <2>4. Placement'
    BY <1>8, HoldingFacts, NotHoldingFacts, RegisteredFacts DEF StartRun, TypeOK, Placement, SessionAssigned, PauseCarriesRequest, TaskPlaced, Move
  <2> QED
    BY <2>3, <2>4
<1>9. ASSUME NEW st \in Streams, AbandonOpening(st) PROVE TypeInv'
  <2>1. TypedControl
    BY <1>9, RetireType, PhaseFacts DEF AbandonOpening
  <2>2. rows' \in [Sessions -> Row]
    BY <1>9, UpsertType DEF AbandonOpening, TypeOK
  <2>3. TypeOK'
    BY <1>9, <2>1, <2>2 DEF AbandonOpening, TypeOK
  <2>4. Placement'
    BY <1>9, HoldingFacts, NotHoldingFacts, RegisteredFacts DEF AbandonOpening, TypeOK, Placement, SessionAssigned, PauseCarriesRequest, TaskPlaced, Retire
  <2> QED
    BY <2>3, <2>4
<1>10. ASSUME NEW st \in Streams, Launch(st) PROVE TypeInv'
  <2>1. pc' \in [Streams -> Phases]
    BY <1>10, PhaseFacts DEF Launch, Move, TypeOK
  <2>2. task' \in [Streams -> TaskStates]
    BY <1>10, TaskFacts DEF Launch, TypeOK
  <2>3. TypedRegistry
    BY <1>10 DEF Launch, Register, TypeOK
  <2>4. TypeOK'
    BY <1>10, <2>1, <2>2, <2>3 DEF Launch, TypeOK
  <2>5. Placement'
    BY <1>10, HoldingFacts, NotHoldingFacts, RegisteredFacts DEF Launch, TypeOK, Placement, SessionAssigned, PauseCarriesRequest, TaskPlaced, Move
  <2> QED
    BY <2>4, <2>5
<1>11. ASSUME NEW st \in Streams, BuildFails(st) PROVE TypeInv'
  <2>1. pc' \in [Streams -> Phases]
    BY <1>11, PhaseFacts DEF BuildFails, Move, TypeOK
  <2>2. TypedRows
    BY <1>11, FinishRunType, StatusFacts DEF BuildFails
  <2>3. TypeOK'
    BY <1>11, <2>1, <2>2 DEF BuildFails, TypeOK
  <2>4. Placement'
    BY <1>11, HoldingFacts, NotHoldingFacts, RegisteredFacts DEF BuildFails, TypeOK, Placement, SessionAssigned, PauseCarriesRequest, TaskPlaced, Move
  <2> QED
    BY <2>3, <2>4
<1>12. ASSUME NEW st \in Streams, CancelledWhileBuilding(st) PROVE TypeInv'
  <2>1. TypedControl
    BY <1>12, RetireType, PhaseFacts DEF CancelledWhileBuilding
  <2>2. TypedRows
    BY <1>12, FinishRunType, StatusFacts DEF CancelledWhileBuilding
  <2>3. inFlight' \in Nat
    BY <1>12, ReleaseType DEF CancelledWhileBuilding
  <2>4. TypeOK'
    BY <1>12, <2>1, <2>2, <2>3 DEF CancelledWhileBuilding, TypeOK
  <2>5. Placement'
    BY <1>12, HoldingFacts, NotHoldingFacts, RegisteredFacts DEF CancelledWhileBuilding, TypeOK, Placement, SessionAssigned, PauseCarriesRequest, TaskPlaced, Retire
  <2> QED
    BY <2>4, <2>5
<1>13. ASSUME NEW st \in Streams, Persist(st) PROVE TypeInv'
  <2>1. pc' \in [Streams -> Phases]
    BY <1>13, PhaseFacts DEF Persist, Move, TypeOK
  <2>2. answered' \subseteq Sessions
    BY <1>13, HoldingFacts DEF Persist, Move, TypeOK, Placement, SessionAssigned
  <2>3. TypeOK'
    BY <1>13, <2>1, <2>2 DEF Persist, TypeOK
  <2>4. Placement'
    BY <1>13, HoldingFacts, NotHoldingFacts, RegisteredFacts DEF Persist, TypeOK, Placement, SessionAssigned, PauseCarriesRequest, TaskPlaced, Move
  <2> QED
    BY <2>3, <2>4
<1>14. ASSUME NEW st \in Streams, Complete(st) PROVE TypeInv'
  <2>1. pc' \in [Streams -> Phases]
    BY <1>14, PhaseFacts DEF Complete, Move, TypeOK
  <2>2. TypedRows
    BY <1>14, FinishRunType, StatusFacts DEF Complete
  <2>3. TypeOK'
    BY <1>14, <2>1, <2>2 DEF Complete, TypeOK
  <2>4. Placement'
    BY <1>14, HoldingFacts, NotHoldingFacts, RegisteredFacts DEF Complete, TypeOK, Placement, SessionAssigned, PauseCarriesRequest, TaskPlaced, Move
  <2> QED
    BY <2>3, <2>4
<1>15. ASSUME NEW st \in Streams, PauseForHuman(st) PROVE TypeInv'
  <2>1. pc' \in [Streams -> Phases]
    BY <1>15, PhaseFacts DEF PauseForHuman, Move, TypeOK
  <2>2. TypedRows
    BY <1>15, FinishRunType, StatusFacts DEF PauseForHuman
  <2>3. sess[st] \in Sessions /\ msg[st].pending \in Requests
    BY <1>15, HoldingFacts DEF PauseForHuman, Move, TypeOK, Message, Placement, SessionAssigned,
                          PauseCarriesRequest
  <2>4. TypedTimers
    BY <1>15, <2>3, ArmType DEF PauseForHuman
  <2>5. TypeOK'
    BY <1>15, <2>1, <2>2, <2>3, <2>4 DEF PauseForHuman, TypeOK
  <2>6. Placement'
    BY <1>15, HoldingFacts, NotHoldingFacts, RegisteredFacts DEF PauseForHuman, TypeOK, Placement, SessionAssigned, PauseCarriesRequest, TaskPlaced, Move
  <2> QED
    BY <2>5, <2>6
<1>16. ASSUME NEW st \in Streams, Fail(st) PROVE TypeInv'
  <2>1. pc' \in [Streams -> Phases]
    BY <1>16, PhaseFacts DEF Fail, Move, TypeOK
  <2>2. TypedRows
    BY <1>16, FinishRunType, StatusFacts DEF Fail
  <2>3. TypeOK'
    BY <1>16, <2>1, <2>2 DEF Fail, TypeOK
  <2>4. Placement'
    BY <1>16, HoldingFacts, NotHoldingFacts, RegisteredFacts DEF Fail, TypeOK, Placement, SessionAssigned, PauseCarriesRequest, TaskPlaced, Move
  <2> QED
    BY <2>3, <2>4
<1>17. ASSUME NEW st \in Streams, TaskCancelled(st) PROVE TypeInv'
  <2>1. pc' \in [Streams -> Phases]
    BY <1>17, PhaseFacts DEF TaskCancelled, Move, TypeOK
  <2>2. TypedRows
    BY <1>17, FinishRunType, StatusFacts DEF TaskCancelled
  <2>3. TypeOK'
    BY <1>17, <2>1, <2>2 DEF TaskCancelled, TypeOK
  <2>4. Placement'
    BY <1>17, HoldingFacts, NotHoldingFacts, RegisteredFacts DEF TaskCancelled, TypeOK, Placement, SessionAssigned, PauseCarriesRequest, TaskPlaced, Move
  <2> QED
    BY <2>3, <2>4
<1>18. ASSUME NEW st \in Streams, Close(st) PROVE TypeInv'
  <2>1. TypedControl
    BY <1>18, RetireType, PhaseFacts DEF Close, Move, TypeOK
  <2>2. inFlight' \in Nat
    BY <1>18, ReleaseType DEF Close, TypeOK
  <2>3. TypedRegistry
    BY <1>18, DiscardType DEF Close, TypeOK
  <2>4. TypeOK'
    BY <1>18, <2>1, <2>2, <2>3 DEF Close, TypeOK
  <2>5. Placement'
    BY <1>18, HoldingFacts, NotHoldingFacts, RegisteredFacts DEF Close, TypeOK, Placement, SessionAssigned, PauseCarriesRequest, TaskPlaced, Move, Retire
  <2> QED
    BY <2>4, <2>5
<1>19. ASSUME NEW st \in Streams, ClosedAtYield(st) PROVE TypeInv'
  <2>1. pc' \in [Streams -> Phases]
    BY <1>19, PhaseFacts DEF ClosedAtYield, Move, TypeOK
  <2>2. TypeOK'
    BY <1>19, <2>1 DEF ClosedAtYield, TypeOK
  <2>3. Placement'
    BY <1>19, HoldingFacts, NotHoldingFacts, RegisteredFacts DEF ClosedAtYield, TypeOK, Placement, SessionAssigned, PauseCarriesRequest, TaskPlaced, Move
  <2> QED
    BY <2>2, <2>3
<1>20. ASSUME NEW st \in Streams, CancelledWhileWaiting(st) PROVE TypeInv'
  <2>1. pc' \in [Streams -> Phases]
    BY <1>20, PhaseFacts DEF CancelledWhileWaiting, Move, TypeOK
  <2>2. TypedRows
    BY <1>20, FinishRunType, StatusFacts DEF CancelledWhileWaiting
  <2>3. TypeOK'
    BY <1>20, <2>1, <2>2 DEF CancelledWhileWaiting, TypeOK
  <2>4. Placement'
    BY <1>20, HoldingFacts, NotHoldingFacts, RegisteredFacts DEF CancelledWhileWaiting, TypeOK, Placement, SessionAssigned, PauseCarriesRequest, TaskPlaced, Move
  <2> QED
    BY <2>3, <2>4
<1>21. ASSUME NEW st \in Streams, OptedOutTearDown(st) PROVE TypeInv'
  <2>1. TypedControl
    BY <1>21, RetireType, PhaseFacts DEF OptedOutTearDown
  <2>2. TypedRows
    BY <1>21, FinishRunType, StatusFacts DEF OptedOutTearDown
  <2>3. inFlight' \in Nat
    BY <1>21, ReleaseType DEF OptedOutTearDown
  <2>4. TypedRegistry
    BY <1>21, DiscardType DEF OptedOutTearDown
  <2>5. TypeOK'
    BY <1>21, <2>1, <2>2, <2>3, <2>4 DEF OptedOutTearDown, TypeOK
  <2>6. Placement'
    BY <1>21, HoldingFacts, NotHoldingFacts, RegisteredFacts DEF OptedOutTearDown, TypeOK, Placement, SessionAssigned, PauseCarriesRequest, TaskPlaced, Retire
  <2> QED
    BY <2>5, <2>6
<1>22. ASSUME NEW st \in Streams, CancelledWhileFinishing(st) PROVE TypeInv'
  <2>1. TypedControl
    BY <1>22, RetireType, PhaseFacts DEF CancelledWhileFinishing
  <2>2. sess[st] \in Sessions
    BY <1>22, HoldingFacts DEF CancelledWhileFinishing, Placement, SessionAssigned
  <2>3. TypedRows
    BY <1>22, <2>2, UpdateRowType, StatusFacts DEF CancelledWhileFinishing, TypeOK
  <2>4. inFlight' \in Nat
    BY <1>22, ReleaseType DEF CancelledWhileFinishing
  <2>5. TypedRegistry
    BY <1>22, DiscardType DEF CancelledWhileFinishing
  <2>6. TypeOK'
    BY <1>22, <2>1, <2>2, <2>3, <2>4, <2>5 DEF CancelledWhileFinishing, TypeOK
  <2>7. Placement'
    BY <1>22, HoldingFacts, NotHoldingFacts, RegisteredFacts DEF CancelledWhileFinishing, TypeOK, Placement, SessionAssigned, PauseCarriesRequest, TaskPlaced, Retire
  <2> QED
    BY <2>6, <2>7
<1>23. ASSUME NEW st \in Streams, DetachedPersist(st) PROVE TypeInv'
  <2>1. pc' \in [Streams -> Phases]
    BY <1>23, PhaseFacts DEF DetachedPersist, Move, TypeOK
  <2>2. answered' \subseteq Sessions
    BY <1>23, HoldingFacts DEF DetachedPersist, Move, TypeOK, Placement, SessionAssigned
  <2>3. TypeOK'
    BY <1>23, <2>1, <2>2 DEF DetachedPersist, TypeOK
  <2>4. Placement'
    BY <1>23, HoldingFacts, NotHoldingFacts, RegisteredFacts DEF DetachedPersist, TypeOK, Placement, SessionAssigned, PauseCarriesRequest, TaskPlaced, Move
  <2> QED
    BY <2>3, <2>4
<1>24. ASSUME NEW st \in Streams, DetachedEnd(st) PROVE TypeInv'
  <2>1. TypedControl
    BY <1>24, RetireType, PhaseFacts DEF DetachedEnd
  <2>2. TypedRows
    BY <1>24, FinishRunType, StatusFacts DEF DetachedEnd
  <2>3. inFlight' \in Nat
    BY <1>24, ReleaseType DEF DetachedEnd
  <2>4. TypedRegistry
    BY <1>24, DiscardType DEF DetachedEnd
  <2>5. sess[st] \in Sessions /\ (task[st] = "paused" => msg[st].pending \in Requests)
    BY <1>24, HoldingFacts DEF DetachedEnd, TypeOK, Message, Placement, SessionAssigned,
                          PauseCarriesRequest
  <2>6. TypedTimers
    BY <1>24, <2>5, ArmType DEF DetachedEnd, TypeOK
  <2>7. TypeOK'
    BY <1>24, <2>1, <2>2, <2>3, <2>4, <2>5, <2>6 DEF DetachedEnd, TypeOK
  <2>8. Placement'
    BY <1>24, HoldingFacts, NotHoldingFacts, RegisteredFacts DEF DetachedEnd, TypeOK, Placement, SessionAssigned, PauseCarriesRequest, TaskPlaced, Retire
  <2> QED
    BY <2>7, <2>8
<1>25. ASSUME NEW st \in Streams, TaskBegin(st) PROVE TypeInv'
  <2>1. task' \in [Streams -> TaskStates]
    BY <1>25, TaskFacts DEF TaskBegin, Becomes, TypeOK
  <2>2. executed' \subseteq Requests
    BY <1>25 DEF TaskBegin, Matches, TypeOK, Message
  <2>3. TypeOK'
    BY <1>25, <2>1, <2>2 DEF TaskBegin, TypeOK
  <2>4. Placement'
    BY <1>25, HoldingFacts, NotHoldingFacts, RegisteredFacts DEF TaskBegin, TypeOK, Placement, SessionAssigned, PauseCarriesRequest, TaskPlaced, Becomes
  <2> QED
    BY <2>3, <2>4
<1>26. ASSUME NEW st \in Streams, TaskRecord(st) PROVE TypeInv'
  <2>1. task' \in [Streams -> TaskStates]
    BY <1>26, TaskFacts DEF TaskRecord, Becomes, TypeOK
  <2>2. ckpt' \in [Sessions -> Checkpoint]
    BY <1>26, WriteCheckpointType DEF TaskRecord
  <2>3. TypeOK'
    BY <1>26, <2>1, <2>2 DEF TaskRecord, TypeOK
  <2>4. Placement'
    BY <1>26, HoldingFacts, NotHoldingFacts, RegisteredFacts DEF TaskRecord, TypeOK, Placement, SessionAssigned, PauseCarriesRequest, TaskPlaced, Becomes
  <2> QED
    BY <2>3, <2>4
<1>27. ASSUME NEW st \in Streams, TaskStep(st) PROVE TypeInv'
  <2>1. ckpt' \in [Sessions -> Checkpoint]
    BY <1>27, WriteCheckpointType DEF TaskStep
  <2>2. TypeOK'
    BY <1>27, <2>1 DEF TaskStep, TypeOK
  <2>3. Placement'
    BY <1>27, HoldingFacts, NotHoldingFacts, RegisteredFacts DEF TaskStep, TypeOK, Placement, SessionAssigned, PauseCarriesRequest, TaskPlaced
  <2> QED
    BY <2>2, <2>3
<1>28. ASSUME NEW st \in Streams, TaskPause(st) PROVE TypeInv'
  <2>1. task' \in [Streams -> TaskStates]
    BY <1>28, TaskFacts DEF TaskPause, Becomes, TypeOK
  <2>2. ckpt' \in [Sessions -> Checkpoint]
    BY <1>28, WriteCheckpointType DEF TaskPause
  <2>3. msg' \in [Streams -> Message]
    BY <1>28 DEF TaskPause, TypeOK, Message
  <2>4. raised' \subseteq Requests
    BY <1>28 DEF TaskPause, TypeOK
  <2>5. TypeOK'
    BY <1>28, <2>1, <2>2, <2>3, <2>4 DEF TaskPause, TypeOK
  <2>6. Placement'
    BY <1>28, HoldingFacts, NotHoldingFacts, RegisteredFacts, RequestsAssumption DEF TaskPause, TypeOK, Placement, SessionAssigned, PauseCarriesRequest, TaskPlaced, Becomes
  <2> QED
    BY <2>5, <2>6
<1>29. ASSUME NEW st \in Streams, TaskReturn(st) PROVE TypeInv'
  <2>1. task' \in [Streams -> TaskStates]
    BY <1>29, TaskFacts DEF TaskReturn, Becomes, TypeOK
  <2>2. TypeOK'
    BY <1>29, <2>1 DEF TaskReturn, TypeOK
  <2>3. Placement'
    BY <1>29, HoldingFacts, NotHoldingFacts, RegisteredFacts DEF TaskReturn, TypeOK, Placement, SessionAssigned, PauseCarriesRequest, TaskPlaced, Becomes, Working
  <2> QED
    BY <2>2, <2>3
<1>30. CASE ScanList
  <2>1. scan' \in Scan
    BY <1>30 DEF ScanList, Scan
  <2>2. TypeOK'
    BY <1>30, <2>1 DEF ScanList, TypeOK
  <2>3. Placement'
    BY <1>30, HoldingFacts, NotHoldingFacts, RegisteredFacts DEF ScanList, TypeOK, Placement, SessionAssigned, PauseCarriesRequest, TaskPlaced
  <2> QED
    BY <2>2, <2>3
<1>31. CASE ScanMark
  <2>1. scan' \in Scan
    BY <1>31 DEF ScanMark, Scan, TypeOK
  <2>2. rows' \in [Sessions -> Row]
    <3>1. \A row \in Row : [row EXCEPT !.status = "interrupted"] \in Row
      BY StatusFacts DEF Row
    <3> QED
      BY <1>31, <3>1 DEF ScanMark, TypeOK
  <2>3. TypeOK'
    BY <1>31, <2>1, <2>2 DEF ScanMark, TypeOK
  <2>4. Placement'
    BY <1>31, HoldingFacts, NotHoldingFacts, RegisteredFacts DEF ScanMark, TypeOK, Placement, SessionAssigned, PauseCarriesRequest, TaskPlaced
  <2> QED
    BY <2>3, <2>4
<1>32. ASSUME NEW st \in Streams, RecoverRun(st) PROVE TypeInv'
  <2>1. pc' \in [Streams -> Phases]
    BY <1>32, PhaseFacts DEF RecoverRun, Move, TypeOK
  <2>2. scan' \in Scan
    BY <1>32 DEF RecoverRun, Scan, TypeOK
  <2>3. msg' \in [Streams -> Message]
    <3>1. PICK s \in Sessions :
            \/ msg' = [msg EXCEPT ![st] = [NoMessage EXCEPT !.origin = "recovery",
                                              !.from = s, !.pin = TRUE]]
            \/ msg' = msg
      BY <1>32 DEF RecoverRun, Scan, TypeOK
    <3>2. [NoMessage EXCEPT !.origin = "recovery", !.from = s, !.pin = TRUE] \in Message
      BY DEF NoMessage, Message, Origins
    <3> QED
      BY <3>1, <3>2 DEF TypeOK
  <2>4. rows' \in [Sessions -> Row]
    <3>1. scan.todo \subseteq Sessions
      BY DEF TypeOK, Scan
    <3> QED
      BY <1>32, <3>1, UpdateRowType, StatusFacts DEF RecoverRun, TypeOK
  <2>5. TypeOK'
    BY <1>32, <2>1, <2>2, <2>3, <2>4 DEF RecoverRun, TypeOK
  <2>6. Placement'
    BY <1>32, HoldingFacts, NotHoldingFacts, RegisteredFacts DEF RecoverRun, TypeOK, Placement, SessionAssigned, PauseCarriesRequest, TaskPlaced, Move
  <2> QED
    BY <2>5, <2>6
<1>33. CASE Restart
  <2>1. rows' \in [Sessions -> Row]
    <3>1. \A row \in Row : [row EXCEPT !.status = "cancelled"] \in Row
      BY StatusFacts DEF Row
    <3> QED
      BY <1>33, <3>1 DEF Restart, TypeOK
  <2>2. boot' \in 1..MaxBoots
    BY <1>33, BootAssumption DEF Restart, TypeOK
  <2>3. scan' \in Scan
    BY <1>33 DEF Restart, Scan
  <2>4. TypedControl
    BY <1>33, PhaseFacts, TaskFacts, EmptyMessage DEF Restart, TypeOK
  <2>5. TypeOK'
    BY <1>33, <2>1, <2>2, <2>3, <2>4 DEF Restart, TypeOK
  <2>6. Placement'
    BY <1>33, HoldingFacts, NotHoldingFacts, RegisteredFacts DEF Restart, TypeOK, Placement, SessionAssigned, PauseCarriesRequest, TaskPlaced
  <2> QED
    BY <2>5, <2>6
<1>34. CASE UNCHANGED vars
  BY <1>34 DEF vars, TypeOK, Placement, SessionAssigned, PauseCarriesRequest, TaskPlaced
<1>35. ASSUME NEW st \in Streams, TaskParks(st) PROVE TypeInv'
  <2>1. task' \in [Streams -> TaskStates]
    BY <1>35, TaskFacts DEF TaskParks, Becomes, TypeOK
  <2>2. TypeOK'
    BY <1>35, <2>1 DEF TaskParks, TypeOK
  <2>3. Placement'
    BY <1>35, RegisteredFacts DEF TaskParks, TypeOK, Placement, SessionAssigned, PauseCarriesRequest, TaskPlaced, Becomes
  <2> QED
    BY <2>2, <2>3
<1>36. ASSUME NEW st \in Streams, Drain(st) PROVE TypeInv'
  <2>1. task' \in [Streams -> TaskStates]
    BY <1>36, TaskFacts DEF Drain, Becomes, TypeOK
  <2>2. TypeOK'
    BY <1>36, <2>1 DEF Drain, TypeOK
  <2>3. Placement'
    BY <1>36, RegisteredFacts DEF Drain, TypeOK, Placement, SessionAssigned, PauseCarriesRequest, TaskPlaced, Becomes
  <2> QED
    BY <2>2, <2>3
<1> QED
  BY <1>1, <1>2, <1>3, <1>4, <1>5, <1>6, <1>7, <1>8, <1>9, <1>10, <1>11, <1>12, <1>13, <1>14, <1>15, <1>16, <1>17, <1>18, <1>19, <1>20, <1>21, <1>22, <1>23, <1>24, <1>25, <1>26, <1>27, <1>28, <1>29, <1>30, <1>31, <1>32, <1>33, <1>34, <1>35, <1>36
     DEF Next, StreamStep, TearDown, TaskWork, Recovery

(* In every reachable state the variables have their types, every admitted *)
(* stream has a session, every paused task its request, and no task exists  *)
(* outside the phases between its registration and its cleanup.             *)
THEOREM TypeCorrect == Spec => []TypeOK
<1>1. Init => TypeInv
  BY TypeInit
<1>2. TypeInv /\ [Next]_vars => TypeInv'
  BY TypeStep
<1>3. TypeInv => TypeOK
  BY DEF TypeInv
<1> QED
  BY <1>1, <1>2, <1>3, PTL DEF Spec

-----------------------------------------------------------------------------
(* Slots and registrations                                                  *)

RunInv == TypeInv /\ SlotAccounting /\ RegistryFresh

LEMMA HoldersFinite == IsFiniteSet(Holders) /\ IsFiniteSet(Holders')
  BY StreamsAssumption, FS_Subset DEF Holders

\* A phase change that neither takes nor gives back a slot.
LEMMA SlotKept ==
  ASSUME TypeOK, SlotAccounting, NEW st \in Streams, NEW to,
         pc' = [pc EXCEPT ![st] = to], (pc[st] \in Holding) <=> (to \in Holding),
         inFlight' = inFlight
  PROVE  SlotAccounting'
<1>1. Holders' = Holders
  BY DEF Holders, TypeOK
<1> QED
  BY <1>1 DEF SlotAccounting

\* Giving back a slot: the counter is positive, so the release is not clamped.
LEMMA SlotReleased ==
  ASSUME TypeOK, SlotAccounting, NEW st \in Streams, pc[st] \in Holding,
         Retire(st, "closed"), Release
  PROVE  SlotAccounting'
<1>1. Holders' = Holders \ {st} /\ st \in Holders
  BY NotHoldingFacts DEF Holders, Retire, TypeOK
<1>2. /\ Cardinality(Holders') = Cardinality(Holders) - 1
      /\ Cardinality(Holders) \in Nat /\ Cardinality(Holders') \in Nat
  BY <1>1, HoldersFinite, FS_RemoveElement, FS_CardinalityType
<1> QED
  BY <1>2, CapacityAssumption DEF SlotAccounting, Release

\* Entries stay fresh while nothing but the phase of one stream changes, if
\* that stream stays registered or no entry names it.
LEMMA EntriesKept ==
  ASSUME TypeOK, RegistryFresh, NEW st \in Streams, NEW to,
         pc' = [pc EXCEPT ![st] = to],
         pc[st] \notin Registered \/ to \in Registered,
         registry' = registry,
         \A other \in Streams : pc[other] \in Registered => sess'[other] = sess[other]
  PROVE  RegistryFresh'
  BY DEF RegistryFresh, Contains, TypeOK

\* A cleaned-up stream takes its own entry with it, and only that.
LEMMA EntryDiscarded ==
  ASSUME TypeOK, RegistryFresh, NEW st \in Streams, Retire(st, "closed"),
         Discard(sess[st], st), sess' = sess
  PROVE  RegistryFresh'
  BY DEF RegistryFresh, Contains, Retire, Discard, TypeOK

\* Nothing that slots and registrations depend on changes.
LEMMA Untouched ==
  ASSUME SlotAccounting, RegistryFresh, UNCHANGED <<pc, sess, inFlight, registry>>
  PROVE  SlotAccounting' /\ RegistryFresh'
<1>1. Holders' = Holders
  BY DEF Holders
<1> QED
  BY <1>1 DEF SlotAccounting, RegistryFresh, Contains

LEMMA RunInit == Init => RunInv
<1> SUFFICES ASSUME Init PROVE RunInv
  OBVIOUS
<1>1. Holders = {}
  BY NotHoldingFacts DEF Init, Holders
<1>2. SlotAccounting
  BY <1>1, FS_EmptySet, CapacityAssumption DEF SlotAccounting, Init
<1>3. RegistryFresh
  BY DEF Init, RegistryFresh, Contains
<1> QED
  BY <1>2, <1>3, TypeInit DEF RunInv

LEMMA RunStep == RunInv /\ [Next]_vars => (SlotAccounting /\ RegistryFresh)'
<1> SUFFICES ASSUME RunInv, [Next]_vars PROVE SlotAccounting' /\ RegistryFresh'
  OBVIOUS
<1> USE DEF RunInv, TypeInv
<1>1. ASSUME NEW st \in Streams, SolveStream(st) PROVE SlotAccounting' /\ RegistryFresh'
  BY <1>1, SlotKept, EntriesKept, HoldingFacts, NotHoldingFacts, RegisteredFacts
     DEF SolveStream, Move
<1>2. ASSUME NEW st \in Streams, Load(st) PROVE SlotAccounting' /\ RegistryFresh'
  BY <1>2, SlotKept, EntriesKept, HoldingFacts, NotHoldingFacts, RegisteredFacts
     DEF Load, Move
<1>3. ASSUME NEW st \in Streams, StartRun(st) PROVE SlotAccounting' /\ RegistryFresh'
  BY <1>3, SlotKept, EntriesKept, HoldingFacts, NotHoldingFacts, RegisteredFacts
     DEF StartRun, Move
<1>4. ASSUME NEW st \in Streams, BuildFails(st) PROVE SlotAccounting' /\ RegistryFresh'
  BY <1>4, SlotKept, EntriesKept, HoldingFacts, NotHoldingFacts, RegisteredFacts
     DEF BuildFails, Move
<1>5. ASSUME NEW st \in Streams, Persist(st) PROVE SlotAccounting' /\ RegistryFresh'
  BY <1>5, SlotKept, EntriesKept, HoldingFacts, NotHoldingFacts, RegisteredFacts
     DEF Persist, Move
<1>6. ASSUME NEW st \in Streams, Complete(st) PROVE SlotAccounting' /\ RegistryFresh'
  BY <1>6, SlotKept, EntriesKept, HoldingFacts, NotHoldingFacts, RegisteredFacts
     DEF Complete, Move
<1>7. ASSUME NEW st \in Streams, PauseForHuman(st) PROVE SlotAccounting' /\ RegistryFresh'
  BY <1>7, SlotKept, EntriesKept, HoldingFacts, NotHoldingFacts, RegisteredFacts
     DEF PauseForHuman, Move
<1>8. ASSUME NEW st \in Streams, Fail(st) PROVE SlotAccounting' /\ RegistryFresh'
  BY <1>8, SlotKept, EntriesKept, HoldingFacts, NotHoldingFacts, RegisteredFacts
     DEF Fail, Move
<1>9. ASSUME NEW st \in Streams, TaskCancelled(st) PROVE SlotAccounting' /\ RegistryFresh'
  BY <1>9, SlotKept, EntriesKept, HoldingFacts, NotHoldingFacts, RegisteredFacts
     DEF TaskCancelled, Move
<1>10. ASSUME NEW st \in Streams, ClosedAtYield(st) PROVE SlotAccounting' /\ RegistryFresh'
  BY <1>10, SlotKept, EntriesKept, HoldingFacts, NotHoldingFacts, RegisteredFacts
     DEF ClosedAtYield, Move
<1>11. ASSUME NEW st \in Streams, CancelledWhileWaiting(st) PROVE SlotAccounting' /\ RegistryFresh'
  BY <1>11, SlotKept, EntriesKept, HoldingFacts, NotHoldingFacts, RegisteredFacts
     DEF CancelledWhileWaiting, Move
<1>12. ASSUME NEW st \in Streams, DetachedPersist(st) PROVE SlotAccounting' /\ RegistryFresh'
  BY <1>12, SlotKept, EntriesKept, HoldingFacts, NotHoldingFacts, RegisteredFacts
     DEF DetachedPersist, Move
<1>13. ASSUME NEW st \in Streams, DecideStream(st) PROVE SlotAccounting' /\ RegistryFresh'
  BY <1>13, Untouched, SlotKept, EntriesKept, NotHoldingFacts, RegisteredFacts
     DEF DecideStream, Move
<1>14. ASSUME NEW st \in Streams, NEW s \in Sessions, NEW r \in Requests,
            TimerFires(st, s, r)
     PROVE  SlotAccounting' /\ RegistryFresh'
  BY <1>14, Untouched, SlotKept, EntriesKept, NotHoldingFacts, RegisteredFacts
     DEF TimerFires, Move
<1>15. ASSUME NEW st \in Streams, RecoverRun(st) PROVE SlotAccounting' /\ RegistryFresh'
  BY <1>15, Untouched, SlotKept, EntriesKept, NotHoldingFacts, RegisteredFacts
     DEF RecoverRun, Move
<1>16. ASSUME NEW st \in Streams, TaskBegin(st) PROVE SlotAccounting' /\ RegistryFresh'
  BY <1>16, Untouched DEF TaskBegin
<1>17. ASSUME NEW st \in Streams, TaskRecord(st) PROVE SlotAccounting' /\ RegistryFresh'
  BY <1>17, Untouched DEF TaskRecord
<1>18. ASSUME NEW st \in Streams, TaskPause(st) PROVE SlotAccounting' /\ RegistryFresh'
  BY <1>18, Untouched DEF TaskPause
<1>19. ASSUME NEW st \in Streams, TaskReturn(st) PROVE SlotAccounting' /\ RegistryFresh'
  BY <1>19, Untouched DEF TaskReturn
<1>20. ASSUME NEW st \in Streams, TaskStep(st) PROVE SlotAccounting' /\ RegistryFresh'
  BY <1>20, Untouched DEF TaskStep
<1>21. CASE ScanList
  BY <1>21, Untouched DEF ScanList
<1>22. CASE ScanMark
  BY <1>22, Untouched DEF ScanMark
<1>23. ASSUME NEW s \in Sessions, Interrupt(s) PROVE SlotAccounting' /\ RegistryFresh'
  BY <1>23, Untouched DEF Interrupt
<1>24. ASSUME NEW st \in Streams, Reject(st) PROVE SlotAccounting' /\ RegistryFresh'
  BY <1>24, SlotKept, EntriesKept, NotHoldingFacts, RegisteredFacts DEF Reject, Retire
<1>25. ASSUME NEW st \in Streams, AbandonOpening(st) PROVE SlotAccounting' /\ RegistryFresh'
  BY <1>25, SlotKept, EntriesKept, HoldingFacts, RegisteredFacts DEF AbandonOpening, Retire
<1>26. ASSUME NEW st \in Streams, Admit(st) PROVE SlotAccounting' /\ RegistryFresh'
  <2>1. Holders' = Holders \union {st} /\ st \notin Holders
    BY <1>26, HoldingFacts, NotHoldingFacts DEF Admit, Move, Holders, TypeOK
  <2>2. Cardinality(Holders') = Cardinality(Holders) + 1
    BY <2>1, HoldersFinite, FS_AddElement
  <2>3. SlotAccounting'
    BY <1>26, <2>2, CapacityAssumption DEF Admit, TryAcquire, SlotAccounting, TypeOK
  <2>4. \A other \in Streams : pc[other] \in Registered => sess'[other] = sess[other]
    BY <1>26, RegisteredFacts DEF Admit, Move, TypeOK
  <2>5. RegistryFresh'
    BY <1>26, <2>4, EntriesKept, RegisteredFacts DEF Admit, Move
  <2> QED
    BY <2>3, <2>5
<1>27. ASSUME NEW st \in Streams, Launch(st) PROVE SlotAccounting' /\ RegistryFresh'
  <2>1. SlotAccounting'
    BY <1>27, SlotKept, HoldingFacts DEF Launch, Move
  <2>2. sess[st] \in Sessions
    BY <1>27, HoldingFacts DEF Launch, Move, Placement, SessionAssigned
  <2>3. RegistryFresh'
    BY <1>27, <2>2, RegisteredFacts, StreamsAssumption
       DEF Launch, Move, Register, RegistryFresh, Contains, TypeOK
  <2> QED
    BY <2>1, <2>3
<1>28. ASSUME NEW st \in Streams, CancelledWhileBuilding(st)
     PROVE  SlotAccounting' /\ RegistryFresh'
  <2>1. SlotAccounting'
    BY <1>28, SlotReleased, HoldingFacts DEF CancelledWhileBuilding
  <2>2. RegistryFresh'
    BY <1>28, EntriesKept, RegisteredFacts DEF CancelledWhileBuilding, Retire
  <2> QED
    BY <2>1, <2>2
<1>29. ASSUME NEW st \in Streams, Close(st) PROVE SlotAccounting' /\ RegistryFresh'
  <2>1. pc[st] \in Holding
    BY <1>29, HoldingFacts DEF Close
  <2>2. CASE Move(st, "yielding", "detached") /\ UNCHANGED shared
    BY <1>29, <2>2, SlotKept, EntriesKept, HoldingFacts, RegisteredFacts DEF Close, Move
  <2>3. CASE Discard(sess[st], st) /\ Release /\ Retire(st, "closed")
    BY <1>29, <2>1, <2>3, SlotReleased, EntryDiscarded DEF Close
  <2> QED
    BY <1>29, <2>2, <2>3 DEF Close
<1>30. ASSUME NEW st \in Streams, OptedOutTearDown(st) PROVE SlotAccounting' /\ RegistryFresh'
  <2>1. pc[st] \in Holding
    BY <1>30, HoldingFacts DEF OptedOutTearDown
  <2> QED
    BY <1>30, <2>1, SlotReleased, EntryDiscarded DEF OptedOutTearDown
<1>31. ASSUME NEW st \in Streams, CancelledWhileFinishing(st) PROVE SlotAccounting' /\ RegistryFresh'
  <2>1. pc[st] \in Holding
    BY <1>31, HoldingFacts DEF CancelledWhileFinishing
  <2> QED
    BY <1>31, <2>1, SlotReleased, EntryDiscarded DEF CancelledWhileFinishing
<1>32. ASSUME NEW st \in Streams, DetachedEnd(st) PROVE SlotAccounting' /\ RegistryFresh'
  <2>1. pc[st] \in Holding
    BY <1>32, HoldingFacts DEF DetachedEnd
  <2> QED
    BY <1>32, <2>1, SlotReleased, EntryDiscarded DEF DetachedEnd
<1>33. CASE Restart
  <2>1. Holders' = {}
    BY <1>33, NotHoldingFacts DEF Restart, Holders
  <2>2. SlotAccounting'
    BY <1>33, <2>1, FS_EmptySet, CapacityAssumption DEF Restart, SlotAccounting
  <2>3. RegistryFresh'
    BY <1>33 DEF Restart, RegistryFresh, Contains
  <2> QED
    BY <2>2, <2>3
<1>34. CASE UNCHANGED vars
  BY <1>34, Untouched DEF vars
<1>35. ASSUME NEW st \in Streams, TaskParks(st) PROVE SlotAccounting' /\ RegistryFresh'
  BY <1>35, Untouched DEF TaskParks
<1>36. ASSUME NEW st \in Streams, Drain(st) PROVE SlotAccounting' /\ RegistryFresh'
  BY <1>36, Untouched DEF Drain
<1> QED
  BY <1>1, <1>2, <1>3, <1>4, <1>5, <1>6, <1>7, <1>8, <1>9, <1>10, <1>11, <1>12, <1>13, <1>14, <1>15, <1>16, <1>17, <1>18, <1>19, <1>20, <1>21, <1>22, <1>23, <1>24, <1>25, <1>26, <1>27, <1>28, <1>29, <1>30, <1>31, <1>32, <1>33, <1>34, <1>35, <1>36
     DEF Next, StreamStep, TearDown, TaskWork, Recovery

LEMMA RunInvariant == Spec => []RunInv
<1>1. Init => RunInv
  BY RunInit
<1>2. RunInv /\ [Next]_vars => RunInv'
  BY RunStep, TypeStep DEF RunInv
<1> QED
  BY <1>1, <1>2, PTL DEF Spec

(* The admission counter equals the number of streams and finishers that owe a *)
(* release and stays within the limit: no path through the generator, its      *)
(* finally block and the detached finisher releases a slot twice.              *)
THEOREM SlotsAccounted == Spec => []SlotAccounting
<1>1. RunInv => SlotAccounting
  BY DEF RunInv
<1> QED
  BY <1>1, RunInvariant, PTL

(* At no time do more agent tasks run than the admission limit allows. *)
THEOREM CapacityBoundsRuns == Spec => []RunningWithinCapacity
<1>1. RunInv => RunningWithinCapacity
  <2> SUFFICES ASSUME RunInv PROVE RunningWithinCapacity
    OBVIOUS
  <2>1. LiveRuns \subseteq Holders
    BY RegisteredFacts DEF RunInv, TypeInv, Placement, TaskPlaced, LiveRuns, LiveTask, Working, Holders
  <2>2. /\ Cardinality(LiveRuns) <= Cardinality(Holders)
        /\ Cardinality(LiveRuns) \in Nat /\ Cardinality(Holders) \in Nat
    BY <2>1, HoldersFinite, FS_Subset, FS_CardinalityType
  <2> QED
    BY <2>2, CapacityAssumption DEF RunInv, SlotAccounting, RunningWithinCapacity
<1> QED
  BY <1>1, RunInvariant, PTL

(* Every registry entry names a run that has not been cleaned up, under its own *)
(* session id.                                                                   *)
THEOREM RegistryIsFresh == Spec => []RegistryFresh
<1>1. RunInv => RegistryFresh
  BY DEF RunInv
<1> QED
  BY <1>1, RunInvariant, PTL

(* The identity check of discard: whatever ends, the entry of a run that is not *)
(* cleaned up yet is never removed, only replaced by a newer registration.      *)
THEOREM RegistrationsKept == Spec => RegistrationKept
<1> DEFINE Kept == \A s \in Sessions, st \in Streams :
                     registry[s] = st /\ pc'[st] \in Registered => registry'[s] # NoStream
<1>1. ASSUME registry' = registry PROVE Kept
  BY <1>1, StreamsAssumption
<1>2. ASSUME RunInv, NEW st \in Streams, Discard(sess[st], st), Retire(st, "closed")
      PROVE  Kept
  BY <1>2, StreamsAssumption, RegisteredFacts
     DEF Discard, Retire, RunInv, TypeInv, TypeOK, Registered
<1>3. ASSUME RunInv, NEW st \in Streams, Launch(st) PROVE Kept
  BY <1>3, StreamsAssumption DEF Launch, Register, RunInv, TypeInv, TypeOK
<1>4. ASSUME RunInv, Restart PROVE Kept
  BY <1>4 DEF Restart, Registered
<1>5. ASSUME NEW st \in Streams,
             \/ SolveStream(st) \/ DecideStream(st) \/ Load(st)
             \/ Reject(st) \/ Admit(st) \/ StartRun(st)
             \/ AbandonOpening(st) \/ BuildFails(st) \/ Persist(st)
             \/ Complete(st) \/ PauseForHuman(st) \/ Fail(st)
             \/ TaskCancelled(st) \/ ClosedAtYield(st) \/ CancelledWhileWaiting(st)
             \/ DetachedPersist(st) \/ TaskBegin(st) \/ TaskRecord(st)
             \/ TaskStep(st) \/ TaskPause(st) \/ TaskReturn(st)
             \/ RecoverRun(st) \/ TaskParks(st) \/ Drain(st)
      PROVE  Kept
  <2>1. registry' = registry
    BY <1>5 DEF SolveStream, DecideStream, Load, Reject, Admit, StartRun,
                AbandonOpening, BuildFails, Persist, Complete, PauseForHuman,
                Fail, TaskCancelled, ClosedAtYield, CancelledWhileWaiting,
                DetachedPersist, TaskBegin, TaskRecord, TaskStep, TaskPause,
                TaskReturn, RecoverRun, TaskParks, Drain
  <2> QED
    BY <2>1, <1>1
<1>6. ASSUME NEW st \in Streams, NEW s \in Sessions, NEW r \in Requests,
             TimerFires(st, s, r)
      PROVE  Kept
  BY <1>6, <1>1 DEF TimerFires
<1>7. ASSUME NEW s \in Sessions, Interrupt(s) PROVE Kept
  BY <1>7, <1>1 DEF Interrupt
<1>8. ASSUME ScanList \/ ScanMark \/ UNCHANGED vars PROVE Kept
  BY <1>8, <1>1 DEF ScanList, ScanMark, vars
<1>9. ASSUME RunInv, NEW st \in Streams,
             \/ Close(st) \/ OptedOutTearDown(st) \/ CancelledWhileFinishing(st)
             \/ DetachedEnd(st) \/ CancelledWhileBuilding(st)
      PROVE  Kept
  BY <1>9, <1>1, <1>2
     DEF Close, OptedOutTearDown, CancelledWhileFinishing, DetachedEnd,
         CancelledWhileBuilding
<1>10. RunInv /\ [Next]_vars => [Kept]_vars
  BY <1>1, <1>3, <1>4, <1>5, <1>6, <1>7, <1>8, <1>9
     DEF Next, StreamStep, TearDown, TaskWork, Recovery
<1>11. Spec => [][Kept]_vars
  BY <1>10, RunInvariant, PTL DEF Spec
<1> QED
  BY <1>11 DEF RegistrationKept

-----------------------------------------------------------------------------
(* Rows and answers.  Rows are written by this process or an earlier one; of  *)
(* a run of this process that has written its row, the row is this process's, *)
(* so that the scan, which marks the rows of earlier ones, leaves it alone.   *)

Reliable == ~WritesMayFail
Entered == {"started"} \union Registered      \* start_run has been called
Written == {"persisted", "detachedPersisted"}    \* the answer has been written

RowsDated == \A s \in Sessions : rows[s].boot <= boot
AnswersFirst == \A st \in Streams : pc[st] \in Written => sess[st] \in answered
LiveRows ==
  \A st \in Streams : pc[st] \in Entered =>
    rows[sess[st]].boot = boot /\ rows[sess[st]].status \notin {"none", "interrupted"}
RowInv == /\ TypeInv /\ RowsDated /\ NoStuckLeftovers
          /\ Reliable => CompletedIsPersisted /\ AnswersFirst /\ LiveRows

\* What a step may do to a row, and to the phase of a stream.
RowStep(s) ==
  \/ rows'[s] = rows[s]
  \/ /\ rows[s].status # "none" /\ rows'[s].boot = rows[s].boot
     /\ rows'[s].status \in {"completed", "failed", "cancelled", "waiting"}
     /\ (Reliable /\ rows'[s].status = "completed") => s \in answered
  \/ rows'[s].status = "running" /\ rows'[s].boot = boot
PhaseStep(st) ==
  /\ pc'[st] \in Entered =>
       \/ pc[st] \in Entered /\ sess'[st] = sess[st]
       \/ Reliable => (rows'[sess'[st]].status = "running" /\ rows'[sess'[st]].boot = boot)
  /\ pc'[st] \in Written =>
       \/ pc[st] \in Written /\ sess'[st] = sess[st]
       \/ Reliable => sess'[st] \in answered'

LEMMA EnteredFacts ==
  /\ \A x \in {"started", "streaming", "persisted", "yielding", "detached", "detachedPersisted"} : x \in Entered
  /\ \A x \in {"idle", "requested", "loaded", "opening", "closed", "leaked"} : x \notin Entered
  /\ \A x \in {"persisted", "detachedPersisted"} : x \in Written
  /\ \A x \in {"idle", "requested", "loaded", "opening", "closed", "leaked", "started", "streaming",
               "yielding", "detached"} : x \notin Written
  /\ Entered \subseteq Holding
BY DEF Entered, Written, Registered, Holding

LEMMA RowsMove ==
  ASSUME RowInv, TypeInv', boot' = boot, answered \subseteq answered',
         scan'.phase = "resume" => scan.phase = "resume",
         \A s \in Sessions : RowStep(s), \A st \in Streams : PhaseStep(st)
  PROVE  RowInv'
<1>1. RowsDated'
  <2>1. boot \in Int
    BY DEF RowInv, TypeInv, TypeOK
  <2> QED
    BY <2>1 DEF RowInv, RowsDated, RowStep
<1>2. NoStuckLeftovers'
  BY DEF RowInv, NoStuckLeftovers, RowStep
<1>3. Reliable => CompletedIsPersisted'
  BY DEF RowInv, CompletedIsPersisted, RowStep
<1>4. Reliable => AnswersFirst'
  BY DEF RowInv, AnswersFirst, PhaseStep
<1>5. ASSUME Reliable, NEW st \in Streams, pc'[st] \in Entered
      PROVE  rows'[sess'[st]].boot = boot /\ rows'[sess'[st]].status \notin {"none", "interrupted"}
  <2>1. CASE pc[st] \in Entered /\ sess'[st] = sess[st]
    <3>1. rows[sess[st]].boot = boot /\ rows[sess[st]].status \notin {"none", "interrupted"}
      BY <1>5, <2>1 DEF RowInv, LiveRows
    <3>2. sess[st] \in Sessions
      BY <2>1, EnteredFacts DEF RowInv, TypeInv, Placement, SessionAssigned
    <3>3. RowStep(sess[st])
      BY <3>2
    <3> QED
      BY <2>1, <3>1, <3>3 DEF RowStep
  <2>2. CASE rows'[sess'[st]].status = "running" /\ rows'[sess'[st]].boot = boot
    BY <2>2
  <2> QED
    BY <1>5, <2>1, <2>2 DEF PhaseStep
<1>6. Reliable => LiveRows'
  BY <1>5 DEF LiveRows
<1> QED
  BY <1>1, <1>2, <1>3, <1>4, <1>6 DEF RowInv, Reliable

\* A stream moves to a phase that promises no more than the one it leaves.
LEMMA PhaseMoves ==
  ASSUME TypeOK, NEW st \in Streams, NEW to, pc' = [pc EXCEPT ![st] = to], sess' = sess,
         to \in Entered => pc[st] \in Entered, to \in Written => pc[st] \in Written
  PROVE  \A other \in Streams : PhaseStep(other)
BY DEF TypeOK, PhaseStep

LEMMA PhaseStays ==
  ASSUME pc' = pc, sess' = sess
  PROVE  \A st \in Streams : PhaseStep(st)
BY DEF PhaseStep

LEMMA RowsStay ==
  ASSUME rows' = rows
  PROVE  \A s \in Sessions : RowStep(s)
BY DEF RowStep

LEMMA UpdateSteps ==
  ASSUME TypeOK, NEW t, NEW status \in {"completed", "failed", "cancelled", "waiting"},
         UpdateRow(t, status), (Reliable /\ status = "completed") => t \in answered
  PROVE  \A s \in Sessions : RowStep(s)
<1> SUFFICES ASSUME NEW s \in Sessions PROVE RowStep(s)
  OBVIOUS
<1>1. CASE rows' = rows
  BY <1>1, RowsStay
<1>2. CASE rows[t].status # "none" /\ rows' = [rows EXCEPT ![t].status = status]
  <2>1. CASE s = t
    <3>1. rows[s] \in Row
      BY DEF TypeOK
    <3>2. rows'[s].boot = rows[s].boot /\ rows'[s].status = status
      BY <1>2, <2>1, <3>1 DEF TypeOK, Row
    <3> QED
      BY <1>2, <2>1, <3>2 DEF RowStep
  <2>2. CASE s # t
    BY <1>2, <2>2 DEF TypeOK, RowStep
  <2> QED
    BY <2>1, <2>2
<1> QED
  BY <1>1, <1>2 DEF UpdateRow

LEMMA FinishSteps ==
  ASSUME TypeOK, NEW st \in Streams, NEW status \in {"completed", "failed", "cancelled", "waiting"},
         FinishRun(st, status), (Reliable /\ status = "completed") => sess[st] \in answered
  PROVE  \A s \in Sessions : RowStep(s)
BY RowsStay, UpdateSteps DEF FinishRun

LEMMA UpsertSteps ==
  ASSUME TypeOK, NEW t, rows' = UpsertRunning(t)
  PROVE  /\ \A s \in Sessions : RowStep(s)
         /\ t \in Sessions => (rows'[t].status = "running" /\ rows'[t].boot = boot)
BY DEF TypeOK, UpsertRunning, RowStep

LEMMA RowsInit == Init => RowInv
<1> SUFFICES ASSUME Init PROVE RowInv
  OBVIOUS
<1>1. TypeInv
  BY TypeInit
<1>2. RowsDated /\ CompletedIsPersisted
  BY DEF Init, RowsDated, CompletedIsPersisted
<1>3. NoStuckLeftovers
  BY DEF Init, NoStuckLeftovers
<1>4. AnswersFirst /\ LiveRows
  BY EnteredFacts DEF Init, AnswersFirst, LiveRows
<1> QED
  BY <1>1, <1>2, <1>3, <1>4 DEF RowInv

LEMMA RowsStepped == RowInv /\ [Next]_vars => RowInv'
<1> SUFFICES ASSUME RowInv, [Next]_vars PROVE RowInv'
  OBVIOUS
<1>0. TypeInv' /\ TypeInv /\ TypeOK
  BY TypeStep DEF RowInv, TypeInv
\* Neither the rows nor the answers change, and the phase promises no more.
<1>1. ASSUME NEW st \in Streams, SolveStream(st) PROVE RowInv'
  BY <1>0, <1>1, RowsMove, RowsStay, PhaseMoves, EnteredFacts DEF SolveStream, Move
<1>2. ASSUME NEW st \in Streams, DecideStream(st) PROVE RowInv'
  BY <1>0, <1>2, RowsMove, RowsStay, PhaseMoves, PhaseStays, EnteredFacts DEF DecideStream, Move
<1>3. ASSUME NEW st \in Streams, NEW s \in Sessions, NEW r \in Requests, TimerFires(st, s, r)
      PROVE  RowInv'
  BY <1>0, <1>3, RowsMove, RowsStay, PhaseMoves, PhaseStays, EnteredFacts DEF TimerFires, Move
<1>4. ASSUME NEW s \in Sessions, Interrupt(s) PROVE RowInv'
  BY <1>0, <1>4, RowsMove, RowsStay, PhaseStays DEF Interrupt
<1>5. ASSUME NEW st \in Streams, Load(st) PROVE RowInv'
  BY <1>0, <1>5, RowsMove, RowsStay, PhaseMoves, EnteredFacts DEF Load, Move
<1>6. ASSUME NEW st \in Streams, Reject(st) PROVE RowInv'
  BY <1>0, <1>6, RowsMove, RowsStay, PhaseMoves, EnteredFacts DEF Reject, Retire
<1>7. ASSUME NEW st \in Streams, Admit(st) PROVE RowInv'
  <2>1. \A other \in Streams : PhaseStep(other)
    BY <1>0, <1>7, EnteredFacts DEF Admit, Move, TypeOK, PhaseStep
  <2> QED
    BY <1>0, <1>7, <2>1, RowsMove, RowsStay DEF Admit
<1>8. ASSUME NEW st \in Streams, Launch(st) PROVE RowInv'
  BY <1>0, <1>8, RowsMove, RowsStay, PhaseMoves, EnteredFacts DEF Launch, Move
<1>9. ASSUME NEW st \in Streams, Close(st) PROVE RowInv'
  BY <1>0, <1>9, RowsMove, RowsStay, PhaseMoves, EnteredFacts DEF Close, Move, Retire
<1>10. ASSUME NEW st \in Streams, ClosedAtYield(st) PROVE RowInv'
  BY <1>0, <1>10, RowsMove, RowsStay, PhaseMoves, EnteredFacts DEF ClosedAtYield, Move
<1>11. ASSUME NEW st \in Streams, TaskWork(st) PROVE RowInv'
  <2>1. /\ rows' = rows /\ pc' = pc /\ sess' = sess /\ answered' = answered /\ boot' = boot
        /\ scan' = scan
    BY <1>11 DEF TaskWork, TaskBegin, TaskRecord, TaskStep, TaskPause, TaskReturn, TaskParks
  <2> QED
    BY <1>0, <2>1, RowsMove, RowsStay, PhaseStays
<1>12. ASSUME NEW st \in Streams, Drain(st) PROVE RowInv'
  BY <1>0, <1>12, RowsMove, RowsStay, PhaseStays DEF Drain
\* The answer is written before the phase that relies on it.
<1>13. ASSUME NEW st \in Streams, Persist(st) \/ DetachedPersist(st) PROVE RowInv'
  <2>1. /\ rows' = rows /\ sess' = sess /\ boot' = boot /\ scan' = scan
        /\ answered \subseteq answered' /\ (Reliable => sess[st] \in answered')
    BY <1>13 DEF Persist, DetachedPersist, Reliable
  <2>2. PICK to \in {"persisted", "detachedPersisted"} :
          pc' = [pc EXCEPT ![st] = to] /\ pc[st] \in {"streaming", "detached"}
    BY <1>13 DEF Persist, DetachedPersist, Move
  <2>3. \A other \in Streams : PhaseStep(other)
    BY <1>0, <2>1, <2>2, EnteredFacts DEF TypeOK, PhaseStep
  <2> QED
    BY <1>0, <2>1, <2>3, RowsMove, RowsStay
\* The row of the stream is finished.
<1>14. ASSUME NEW st \in Streams, NEW to, NEW status \in {"completed", "failed", "cancelled", "waiting"},
              FinishRun(st, status), status = "completed" => pc[st] \in Written,
              pc' = [pc EXCEPT ![st] = to], to \in Entered => pc[st] \in Entered, to \notin Written,
              sess' = sess, boot' = boot, scan' = scan, answered' = answered
       PROVE  RowInv'
  <2>1. (Reliable /\ status = "completed") => sess[st] \in answered
    BY <1>14 DEF RowInv, AnswersFirst
  <2> QED
    BY <1>0, <1>14, <2>1, RowsMove, FinishSteps, PhaseMoves
<1>15. ASSUME NEW st \in Streams, StreamStep(st) \/ TearDown(st),
              BuildFails(st) \/ CancelledWhileBuilding(st) \/ Complete(st) \/ PauseForHuman(st) \/ Fail(st)
              \/ TaskCancelled(st) \/ CancelledWhileWaiting(st) \/ OptedOutTearDown(st)
       PROVE  RowInv'
  <2>1. CASE BuildFails(st)
    BY <1>14, <2>1, EnteredFacts DEF BuildFails, Move
  <2>2. CASE CancelledWhileBuilding(st)
    BY <1>14, <2>2, EnteredFacts DEF CancelledWhileBuilding, Retire
  <2>3. CASE Complete(st)
    BY <1>14, <2>3, EnteredFacts DEF Complete, Move
  <2>4. CASE PauseForHuman(st)
    BY <1>14, <2>4, EnteredFacts DEF PauseForHuman, Move
  <2>5. CASE Fail(st)
    BY <1>14, <2>5, EnteredFacts DEF Fail, Move
  <2>6. CASE TaskCancelled(st)
    BY <1>14, <2>6, EnteredFacts DEF TaskCancelled, Move
  <2>7. CASE CancelledWhileWaiting(st)
    BY <1>14, <2>7, EnteredFacts DEF CancelledWhileWaiting, Move
  <2>8. CASE OptedOutTearDown(st)
    BY <1>14, <2>8, EnteredFacts DEF OptedOutTearDown, Retire
  <2> QED
    BY <1>15, <2>1, <2>2, <2>3, <2>4, <2>5, <2>6, <2>7, <2>8
<1>16. ASSUME NEW st \in Streams, DetachedEnd(st) PROVE RowInv'
  <2>1. /\ pc' = [pc EXCEPT ![st] = "closed"] /\ sess' = sess /\ boot' = boot /\ scan' = scan
        /\ answered' = answered
    BY <1>16 DEF DetachedEnd, Retire
  <2>2. CASE pc[st] = "detachedPersisted" /\ FinishRun(st, "completed")
    BY <1>14, <2>1, <2>2, EnteredFacts
  <2>3. CASE task[st] = "failed" /\ FinishRun(st, "failed")
    BY <1>14, <2>1, <2>3, EnteredFacts
  <2>4. CASE task[st] = "cancelled" /\ FinishRun(st, "cancelled")
    BY <1>14, <2>1, <2>4, EnteredFacts
  <2>5. CASE FinishRun(st, "waiting")
    BY <1>14, <2>1, <2>5, EnteredFacts
  <2> QED
    BY <1>16, <2>2, <2>3, <2>4, <2>5 DEF DetachedEnd
<1>17. ASSUME NEW st \in Streams, CancelledWhileFinishing(st) PROVE RowInv'
  <2>1. /\ pc' = [pc EXCEPT ![st] = "closed"] /\ sess' = sess /\ boot' = boot /\ scan' = scan
        /\ answered' = answered
    BY <1>17 DEF CancelledWhileFinishing, Retire
  <2>2. PICK status \in {"completed", "waiting"} :
          /\ status = "completed" => pc[st] = "persisted"
          /\ UpdateRow(sess[st], status) \/ rows' = rows
    BY <1>17 DEF CancelledWhileFinishing
  <2>3. (Reliable /\ status = "completed") => sess[st] \in answered
    BY <2>2, EnteredFacts DEF RowInv, AnswersFirst
  <2>4. \A s \in Sessions : RowStep(s)
    BY <1>0, <2>2, <2>3, UpdateSteps, RowsStay
  <2> QED
    BY <1>0, <2>1, <2>4, RowsMove, PhaseMoves, EnteredFacts
\* start_run writes the row of this process.
<1>18. ASSUME NEW st \in Streams, StartRun(st) PROVE RowInv'
  <2>1. /\ pc[st] = "opening" /\ pc' = [pc EXCEPT ![st] = "started"] /\ sess' = sess /\ boot' = boot
        /\ scan' = scan /\ answered' = answered
        /\ rows' = UpsertRunning(sess[st]) \/ (~Reliable /\ rows' = rows)
    BY <1>18 DEF StartRun, Move, Reliable
  <2>2. sess[st] \in Sessions
    BY <1>0, <2>1, HoldingFacts DEF TypeInv, Placement, SessionAssigned
  <2>3. \A s \in Sessions : RowStep(s)
    BY <1>0, <2>1, UpsertSteps, RowsStay
  <2>4. Reliable => (rows'[sess[st]].status = "running" /\ rows'[sess[st]].boot = boot)
    BY <1>0, <2>1, <2>2, UpsertSteps
  <2>5. \A other \in Streams : PhaseStep(other)
    BY <1>0, <2>1, <2>4, EnteredFacts DEF TypeOK, PhaseStep
  <2> QED
    BY <1>0, <2>1, <2>3, <2>5, RowsMove
<1>19. ASSUME NEW st \in Streams, AbandonOpening(st) PROVE RowInv'
  <2>1. /\ pc' = [pc EXCEPT ![st] = "leaked"] /\ sess' = sess /\ boot' = boot
        /\ scan' = scan /\ answered' = answered
        /\ rows' = UpsertRunning(sess[st]) \/ rows' = rows
    BY <1>19 DEF AbandonOpening, Retire
  <2>2. \A s \in Sessions : RowStep(s)
    BY <1>0, <2>1, UpsertSteps, RowsStay
  <2> QED
    BY <1>0, <2>1, <2>2, RowsMove, PhaseMoves, EnteredFacts
\* The scan marks the rows of earlier processes.
<1>20. CASE ScanList
  BY <1>0, <1>20, RowsMove, RowsStay, PhaseStays DEF ScanList
<1>21. CASE ScanMark
  <2>1. pc' = pc /\ sess' = sess /\ answered' = answered /\ boot' = boot
    BY <1>21 DEF ScanMark
  <2>2. CASE rows' = rows /\ scan'.phase # "resume"
    BY <1>0, <2>1, <2>2, RowsMove, RowsStay, PhaseStays
  <2>3. CASE rows' = [s \in Sessions |-> IF Leftover(s) THEN [rows[s] EXCEPT !.status = "interrupted"]
                                         ELSE rows[s]]
    <3>1. ASSUME NEW s \in Sessions
          PROVE  /\ Leftover(s) => (rows'[s].status = "interrupted" /\ rows'[s].boot = rows[s].boot)
                 /\ ~Leftover(s) => rows'[s] = rows[s]
                 /\ rows[s].boot \in Int /\ boot \in Int
      BY <1>0, <2>3 DEF TypeOK, Row
    <3>2. RowsDated'
      BY <2>1, <3>1 DEF RowInv, RowsDated
    <3>3. NoStuckLeftovers'
      BY <2>1, <3>1 DEF RowInv, RowsDated, NoStuckLeftovers, Leftover
    <3>4. Reliable => CompletedIsPersisted' /\ AnswersFirst'
      BY <2>1, <3>1 DEF RowInv, CompletedIsPersisted, AnswersFirst
    <3>5. ASSUME Reliable, NEW st \in Streams, pc[st] \in Entered
          PROVE  rows'[sess[st]] = rows[sess[st]]
      <4>1. sess[st] \in Sessions /\ rows[sess[st]].boot = boot
        BY <3>5, EnteredFacts DEF RowInv, LiveRows, TypeInv, Placement, SessionAssigned
      <4> QED
        BY <3>1, <4>1 DEF Leftover
    <3>6. Reliable => LiveRows'
      BY <2>1, <3>5 DEF RowInv, LiveRows
    <3> QED
      BY <1>0, <3>2, <3>3, <3>4, <3>6 DEF RowInv, Reliable
  <2> QED
    BY <1>21, <2>2, <2>3 DEF ScanMark
<1>22. ASSUME NEW st \in Streams, RecoverRun(st) PROVE RowInv'
  <2>1. /\ sess' = sess /\ answered' = answered /\ boot' = boot
        /\ scan'.phase = "resume" => scan.phase = "resume"
    BY <1>22 DEF RecoverRun
  <2>2. PICK s \in Sessions :
          \/ pc' = pc /\ rows' = rows
          \/ pc' = pc /\ UpdateRow(s, "waiting")
          \/ Move(st, "idle", "requested") /\ rows' = rows
    BY <1>0, <1>22 DEF RecoverRun, TypeOK, Scan
  <2>3. \A t \in Sessions : RowStep(t)
    BY <1>0, <2>2, UpdateSteps, RowsStay
  <2>4. \A other \in Streams : PhaseStep(other)
    BY <1>0, <2>1, <2>2, PhaseMoves, PhaseStays, EnteredFacts DEF Move
  <2> QED
    BY <1>0, <2>1, <2>3, <2>4, RowsMove
<1>23. CASE Restart
  <2>1. /\ \A st \in Streams : pc'[st] \in {"idle", "closed"}
        /\ answered' = answered /\ boot' = boot + 1 /\ scan'.phase = "list"
    BY <1>23 DEF Restart
  <2>2. ASSUME NEW s \in Sessions
        PROVE  /\ rows'[s].boot = rows[s].boot /\ rows[s].boot \in Int /\ boot \in Int
               /\ rows'[s] = rows[s] \/ rows'[s].status = "cancelled"
    BY <1>0, <1>23 DEF Restart, TypeOK, Row
  <2>3. RowsDated'
    BY <2>1, <2>2 DEF RowInv, RowsDated
  <2>4. NoStuckLeftovers'
    BY <2>1 DEF NoStuckLeftovers
  <2>5. Reliable => CompletedIsPersisted'
    BY <2>1, <2>2 DEF RowInv, CompletedIsPersisted
  <2>6. AnswersFirst' /\ LiveRows'
    BY <2>1, EnteredFacts DEF AnswersFirst, LiveRows
  <2> QED
    BY <1>0, <2>3, <2>4, <2>5, <2>6 DEF RowInv, Reliable
<1>24. CASE UNCHANGED vars
  BY <1>0, <1>24, RowsMove, RowsStay, PhaseStays DEF vars
<1> QED
  BY <1>1, <1>2, <1>3, <1>4, <1>5, <1>6, <1>7, <1>8, <1>9, <1>10, <1>11, <1>12, <1>13, <1>15, <1>16, <1>17,
     <1>18, <1>19, <1>20, <1>21, <1>22, <1>23, <1>24
     DEF Next, StreamStep, TearDown, Recovery

LEMMA RowInvariant == Spec => []RowInv
<1> QED
  BY RowsInit, RowsStepped, PTL DEF Spec

(* A row says "completed" only when the answer is stored, on both paths to       *)
(* completion and across restarts; a store whose writes fail is the exception.   *)
THEOREM CompletedArePersisted == Spec => [](~WritesMayFail => CompletedIsPersisted)
<1>1. RowInv => (~WritesMayFail => CompletedIsPersisted)
  BY DEF RowInv, Reliable
<1> QED
  BY <1>1, RowInvariant, PTL

(* The recovery scan never marks the row of a run that is live in this process,  *)
(* a resumed one whose row an earlier process wrote included, if start_run's     *)
(* write reached the table.                                                      *)
THEOREM RecoverySpares == Spec => [](~WritesMayFail => RecoverySparesLiveRuns)
<1>1. RowInv => (~WritesMayFail => RecoverySparesLiveRuns)
  <2> SUFFICES ASSUME RowInv, Reliable, NEW st \in LiveRuns
               PROVE  rows[sess[st]].status # "interrupted"
    BY DEF RecoverySparesLiveRuns, Reliable
  <2>1. st \in Streams /\ task[st] # "none"
    BY DEF LiveRuns, LiveTask, Working
  <2>2. pc[st] \in Entered
    BY <2>1 DEF RowInv, TypeInv, Placement, TaskPlaced, Entered
  <2> QED
    BY <2>1, <2>2 DEF RowInv, LiveRows
<1> QED
  BY <1>1, RowInvariant, PTL

(* Once the scan has marked the leftovers, no row of an earlier process says     *)
(* "running", however few runs the scan was allowed to resume.                   *)
THEOREM LeftoversMarked == Spec => []NoStuckLeftovers
<1>1. RowInv => NoStuckLeftovers
  BY DEF RowInv
<1> QED
  BY <1>1, RowInvariant, PTL

-----------------------------------------------------------------------------
(* Decisions: SolveSession implements HumanDecision.  The step that needs an   *)
(* argument is the claim.  The store accepts it because the checkpoint is      *)
(* unclaimed, the protocol because the request is undecided; DecisionInv ties  *)
(* the two together.  It has to say that no two checkpoints hold the same      *)
(* pending request (PendingUnique) and that a decision a stream or a           *)
(* checkpoint carries is the accepted one (CarriedAccepted,                    *)
(* SubmittedAccepted), which is what lets an approved action run again after   *)
(* a restart and never lets a rejected one run.                                *)

Accepted(d) == claims[d[1]] = 1 /\ verdict[d[1]] = d[2]

PendingRaised == \A s \in Sessions :
  ckpt[s].pending # NoRequest => ckpt[s].pending \in raised
PendingUnique == \A s, t \in Sessions :
  ckpt[s].pending # NoRequest /\ ckpt[s].pending = ckpt[t].pending => s = t
UnclaimedOpen == \A s \in Sessions :
  ckpt[s].pending # NoRequest /\ ~ckpt[s].claimed => claims[ckpt[s].pending] = 0
UnraisedOpen == \A r \in Requests : r \notin raised => claims[r] = 0
SubmittedAccepted == \A s \in Sessions :
  ckpt[s].submitted # NoDecision => Accepted(ckpt[s].submitted)
CarriedAccepted == \A st \in Streams :
  msg[st].decision # NoDecision => Accepted(msg[st].decision)
DecisionInv ==
  /\ PendingRaised /\ PendingUnique /\ UnclaimedOpen /\ UnraisedOpen
  /\ SubmittedAccepted /\ CarriedAccepted

-----------------------------------------------------------------------------
\* A step that touches neither the checkpoints nor the history, and gives no
\* stream a decision it did not carry.
LEMMA DecisionsKept ==
  ASSUME DecisionInv, UNCHANGED <<ckpt, raised, claims, verdict>>,
         \A st \in Streams : \/ msg'[st].decision = NoDecision
                             \/ msg'[st].decision = msg[st].decision
  PROVE  DecisionInv'
<1>1. PendingRaised' /\ PendingUnique' /\ UnclaimedOpen' /\ UnraisedOpen'
  BY DEF DecisionInv, PendingRaised, PendingUnique, UnclaimedOpen, UnraisedOpen
<1>2. SubmittedAccepted' /\ CarriedAccepted'
  BY DEF DecisionInv, SubmittedAccepted, CarriedAccepted, Accepted
<1> QED
  BY <1>1, <1>2 DEF DecisionInv

\* A generator that ends drops what it carried.
LEMMA RetireDrops ==
  ASSUME TypeOK, NEW st \in Streams, NEW to, Retire(st, to)
  PROVE  \A other \in Streams : \/ msg'[other].decision = NoDecision
                                \/ msg'[other].decision = msg[other].decision
BY DEF Retire, NoMessage, TypeOK

\* A snapshot without a pending interaction.
LEMMA SnapshotKeeps ==
  ASSUME TypeOK, DecisionInv, NEW s \in Sessions, WriteCheckpoint(s, NoRequest),
         UNCHANGED <<msg, raised, claims, verdict>>
  PROVE  DecisionInv'
<1>1. \A t \in Sessions : \/ ckpt'[t] = ckpt[t]
                          \/ ckpt'[t] = Snapshot(NoRequest)
  BY DEF WriteCheckpoint, TypeOK
<1>2. /\ Snapshot(NoRequest).pending = NoRequest
      /\ Snapshot(NoRequest).submitted = NoDecision
  BY DEF Snapshot
<1>3. PendingRaised' /\ UnclaimedOpen' /\ PendingUnique'
  BY <1>1, <1>2 DEF DecisionInv, PendingRaised, UnclaimedOpen, PendingUnique
<1>4. SubmittedAccepted'
  BY <1>1, <1>2 DEF DecisionInv, SubmittedAccepted, Accepted
<1> QED
  BY <1>3, <1>4 DEF DecisionInv, UnraisedOpen, CarriedAccepted, Accepted

\* A snapshot that carries a request raised with it.
LEMMA PauseKeeps ==
  ASSUME TypeOK, DecisionInv, NEW s \in Sessions, NEW r \in Requests \ raised,
         WriteCheckpoint(s, r), raised' = raised \union {r},
         UNCHANGED <<claims, verdict>>,
         \A st \in Streams : msg'[st].decision = msg[st].decision
  PROVE  DecisionInv'
<1>1. \A t \in Sessions : \/ ckpt'[t] = ckpt[t]
                          \/ t = s /\ ckpt'[t] = Snapshot(r)
  BY DEF WriteCheckpoint, TypeOK
<1>2. Snapshot(r).pending = r /\ Snapshot(r).submitted = NoDecision
  BY DEF Snapshot
<1>3. PendingRaised'
  BY <1>1, <1>2 DEF DecisionInv, PendingRaised
<1>4. \A t \in Sessions : ckpt[t].pending # r
  BY RequestsAssumption DEF DecisionInv, PendingRaised
<1>5. PendingUnique'
  BY <1>1, <1>2, <1>4 DEF DecisionInv, PendingUnique
<1>6. UnclaimedOpen'
  BY <1>1, <1>2 DEF DecisionInv, UnclaimedOpen, UnraisedOpen
<1>7. SubmittedAccepted' /\ CarriedAccepted'
  BY <1>1, <1>2 DEF DecisionInv, SubmittedAccepted, CarriedAccepted, Accepted
<1> QED
  BY <1>3, <1>5, <1>6, <1>7 DEF DecisionInv, UnraisedOpen

\* The store accepts a claim only for a request the protocol has open.
LEMMA ClaimsOpenRequest ==
  ASSUME TypeOK, DecisionInv, NEW s \in Sessions, NEW r \in Requests, Claimable(s, r)
  PROVE  r \in raised /\ claims[r] = 0
BY DEF DecisionInv, PendingRaised, UnclaimedOpen, Claimable

\* The claim itself, and the stream that is opened with the claimed decision.
LEMMA ClaimKeeps ==
  ASSUME TypeOK, DecisionInv, NEW s \in Sessions, NEW r \in Requests,
         NEW v \in Verdicts, ClaimHumanDecision(s, r, v),
         \A st \in Streams : \/ msg'[st].decision = <<r, v>>
                             \/ msg'[st].decision = msg[st].decision
  PROVE  DecisionInv'
<1>1. r \in raised /\ claims[r] = 0 /\ ckpt[s].pending = r
  BY ClaimsOpenRequest DEF ClaimHumanDecision, Claimable
<1>2. /\ \A x \in Requests : claims'[x] = IF x = r THEN 1 ELSE claims[x]
      /\ \A x \in Requests : verdict'[x] = IF x = r THEN v ELSE verdict[x]
      /\ raised' = raised
  BY <1>1 DEF ClaimHumanDecision, TypeOK
<1>3. \A t \in Sessions : ckpt[t] \in Checkpoint
  BY DEF TypeOK
<1>4. \A t \in Sessions : t # s => ckpt'[t] = ckpt[t]
  BY DEF ClaimHumanDecision, TypeOK
<1>5. /\ ckpt'[s].pending = r /\ ckpt'[s].claimed
      /\ ckpt'[s].submitted = <<r, v>>
  BY <1>1, <1>3 DEF ClaimHumanDecision, TypeOK, Checkpoint
<1>6. \A d \in Decisions : Accepted(d) => Accepted(d)'
  <2> SUFFICES ASSUME NEW d \in Decisions, Accepted(d) PROVE Accepted(d)'
    OBVIOUS
  <2>1. d[1] \in Requests /\ d[1] # r
    BY <1>1 DEF Decisions, Accepted
  <2> QED
    BY <1>2, <2>1 DEF Accepted
<1>7. Accepted(<<r, v>>)'
  BY <1>2 DEF Accepted
<1>8. PendingRaised' /\ PendingUnique'
  BY <1>1, <1>2, <1>4, <1>5 DEF DecisionInv, PendingRaised, PendingUnique
<1>9. UnclaimedOpen'
  <2> SUFFICES ASSUME NEW t \in Sessions, ckpt'[t].pending # NoRequest, ~ckpt'[t].claimed
               PROVE  claims'[ckpt'[t].pending] = 0
    BY DEF UnclaimedOpen
  <2>1. t # s /\ ckpt'[t] = ckpt[t]
    BY <1>4, <1>5
  <2>2. ckpt[t].pending \in Requests /\ ckpt[t].pending # r
    BY <1>1, <1>3, <2>1, RequestsAssumption DEF DecisionInv, PendingUnique, Checkpoint
  <2>3. claims[ckpt[t].pending] = 0
    BY <2>1 DEF DecisionInv, UnclaimedOpen
  <2> QED
    BY <1>2, <2>1, <2>2, <2>3
<1>10. UnraisedOpen'
  BY <1>1, <1>2 DEF DecisionInv, UnraisedOpen
<1>11. SubmittedAccepted'
  BY <1>3, <1>4, <1>5, <1>6, <1>7 DEF DecisionInv, SubmittedAccepted, Checkpoint
<1>12. CarriedAccepted'
  BY <1>6, <1>7 DEF DecisionInv, CarriedAccepted, TypeOK, Message
<1> QED
  BY <1>8, <1>9, <1>10, <1>11, <1>12 DEF DecisionInv

-----------------------------------------------------------------------------
Implements == [Protocol!Next]_(Protocol!decisionVars)
Quiet == UNCHANGED <<raised, claims, verdict, executed>>

LEMMA QuietImplements == Quiet => Implements
BY DEF Quiet, Implements, Protocol!decisionVars

\* A claim of the store is a claim of the protocol.
LEMMA ClaimImplements ==
  ASSUME TypeOK, DecisionInv, NEW s \in Sessions, NEW r \in Requests,
         NEW v \in Verdicts, ClaimHumanDecision(s, r, v)
  PROVE  Implements
<1>1. r \in raised /\ claims[r] = 0
  BY ClaimsOpenRequest DEF ClaimHumanDecision
<1>2. claims' = [claims EXCEPT ![r] = 1]
  BY <1>1 DEF ClaimHumanDecision
<1>3. Protocol!Claim(r, v)
  BY <1>1, <1>2 DEF ClaimHumanDecision, Protocol!Claim
<1> QED
  BY <1>3 DEF Implements, Protocol!Next

LEMMA DecisionInit == Init => DecisionInv
BY DEF Init, NoCheckpoint, NoMessage, DecisionInv, PendingRaised, PendingUnique,
       UnclaimedOpen, UnraisedOpen, SubmittedAccepted, CarriedAccepted

LEMMA DecisionStep == TypeInv /\ DecisionInv /\ [Next]_vars => DecisionInv' /\ Implements
<1> SUFFICES ASSUME TypeInv, DecisionInv, [Next]_vars PROVE DecisionInv' /\ Implements
  OBVIOUS
<1> DEFINE Goal == DecisionInv' /\ Implements
           DropsOnly == \A st \in Streams : \/ msg'[st].decision = NoDecision
                                            \/ msg'[st].decision = msg[st].decision
<1>types. TypeOK
  BY DEF TypeInv
<1>quiet. ASSUME UNCHANGED ckpt, Quiet, DropsOnly PROVE Goal
  BY <1>quiet, DecisionsKept, QuietImplements DEF Quiet
<1>1. ASSUME NEW st \in Streams, SolveStream(st) PROVE Goal
  BY <1>types, <1>1, <1>quiet DEF SolveStream, Quiet, NoMessage, TypeOK
<1>2. ASSUME NEW st \in Streams, DecideStream(st) PROVE Goal
  <2>1. PICK s \in Sessions, r \in Requests, v \in Verdicts :
          /\ ClaimHumanDecision(s, r, v)
          /\ \/ msg' = [msg EXCEPT ![st] =
                          [NoMessage EXCEPT !.from = s, !.decision = <<r, v>>]]
             \/ msg' = msg
    BY <1>2 DEF DecideStream
  <2>2. \A other \in Streams : \/ msg'[other].decision = <<r, v>>
                                \/ msg'[other].decision = msg[other].decision
    BY <1>types, <2>1 DEF NoMessage, TypeOK
  <2> QED
    BY <1>types, <2>1, <2>2, ClaimKeeps, ClaimImplements
<1>3. ASSUME NEW st \in Streams, NEW s \in Sessions, NEW r \in Requests,
            TimerFires(st, s, r)
     PROVE  Goal
  <2>1. CASE Claimable(s, r)
    <3>1. "approve" \in Verdicts /\ ClaimHumanDecision(s, r, "approve")
      BY <1>3, <2>1 DEF TimerFires, Verdicts
    <3>2. \A other \in Streams : \/ msg'[other].decision = <<r, "approve">>
                                  \/ msg'[other].decision = msg[other].decision
      BY <1>types, <1>3, <2>1 DEF TimerFires, NoMessage, TypeOK
    <3> QED
      BY <1>types, <3>1, <3>2, ClaimKeeps, ClaimImplements
  <2>2. CASE ~Claimable(s, r)
    BY <1>3, <2>2, <1>quiet DEF TimerFires, Quiet
  <2> QED
    BY <2>1, <2>2
<1>4. ASSUME NEW s \in Sessions, Interrupt(s) PROVE Goal
  BY <1>4, <1>quiet DEF Interrupt, Quiet
<1>5. ASSUME NEW st \in Streams, Load(st) PROVE Goal
  <2>1. CASE msg[st].from = NoSession
    BY <1>5, <2>1, <1>quiet DEF Load, Quiet
  <2>2. CASE msg[st].from # NoSession
    <3>1. msg[st] \in Message /\ msg[st].from \in Sessions
      BY <1>types, <2>2 DEF TypeOK, Message
    <3>2. \A other \in Streams : other # st => msg'[other] = msg[other]
      BY <1>types, <1>5, <2>2 DEF Load, TypeOK
    <3>3. \/ msg'[st].decision = msg[st].decision
          \/ msg'[st].decision = ckpt[msg[st].from].submitted
      BY <1>types, <1>5, <2>2, <3>1 DEF Load, TypeOK, Message
    <3>4. CarriedAccepted'
      <4>1. \A d : Accepted(d) => Accepted(d)'
        BY <1>5 DEF Load, Accepted
      <4>2. msg'[st].decision # NoDecision => Accepted(msg'[st].decision)
        BY <3>1, <3>3 DEF DecisionInv, CarriedAccepted, SubmittedAccepted
      <4>3. \A other \in Streams :
              msg'[other].decision # NoDecision => Accepted(msg'[other].decision)
        BY <3>2, <4>2 DEF DecisionInv, CarriedAccepted
      <4> QED
        BY <4>1, <4>3 DEF CarriedAccepted, Accepted
    <3>5. UNCHANGED <<ckpt, raised, claims, verdict>> /\ Quiet
      BY <1>5 DEF Load, Quiet
    <3>6. PendingRaised' /\ PendingUnique' /\ UnclaimedOpen' /\ UnraisedOpen'
      BY <3>5 DEF DecisionInv, PendingRaised, PendingUnique, UnclaimedOpen, UnraisedOpen
    <3>7. SubmittedAccepted'
      BY <3>5 DEF DecisionInv, SubmittedAccepted, Accepted
    <3> QED
      BY <3>4, <3>5, <3>6, <3>7, QuietImplements DEF DecisionInv
  <2> QED
    BY <2>1, <2>2
<1>6. ASSUME NEW st \in Streams,
             \/ Reject(st) \/ AbandonOpening(st)
             \/ CancelledWhileBuilding(st) \/ Close(st)
             \/ OptedOutTearDown(st) \/ CancelledWhileFinishing(st)
             \/ DetachedEnd(st)
     PROVE  Goal
  <2>1. \E to : Retire(st, to) \/ UNCHANGED msg
    BY <1>6
       DEF Reject, AbandonOpening, CancelledWhileBuilding, Close, OptedOutTearDown,
           CancelledWhileFinishing, DetachedEnd
  <2>2. UNCHANGED ckpt /\ Quiet
    BY <1>6
       DEF Reject, AbandonOpening, CancelledWhileBuilding, Close, OptedOutTearDown,
           CancelledWhileFinishing, DetachedEnd, Quiet
  <2> QED
    BY <1>types, <2>1, <2>2, <1>quiet, RetireDrops
<1>7. ASSUME NEW st \in Streams,
             \/ Admit(st) \/ StartRun(st) \/ Launch(st) \/ BuildFails(st)
             \/ Drain(st) \/ TaskParks(st) \/ Persist(st) \/ Complete(st)
             \/ PauseForHuman(st) \/ Fail(st) \/ TaskCancelled(st)
             \/ ClosedAtYield(st) \/ CancelledWhileWaiting(st)
             \/ DetachedPersist(st) \/ TaskReturn(st)
     PROVE  Goal
  <2>1. UNCHANGED <<ckpt, msg>> /\ Quiet
    BY <1>7
       DEF Admit, StartRun, Launch, BuildFails, Drain, TaskParks, Persist, Complete,
           PauseForHuman, Fail, TaskCancelled, ClosedAtYield, CancelledWhileWaiting,
           DetachedPersist, TaskReturn, Quiet
  <2> QED
    BY <2>1, <1>quiet
<1>8. ASSUME NEW st \in Streams, TaskBegin(st) PROVE Goal
  <2>1. UNCHANGED <<ckpt, msg, raised, claims, verdict>>
    BY <1>8 DEF TaskBegin
  <2>2. DecisionInv'
    BY <2>1, DecisionsKept
  <2>3. CASE executed' = executed
    BY <2>1, <2>2, <2>3, QuietImplements DEF Quiet
  <2>4. CASE executed' # executed
    <3>1. /\ Matches(st) /\ msg[st].decision[2] = "approve"
          /\ executed' = executed \union {msg[st].pending}
      BY <1>8, <2>4 DEF TaskBegin
    <3>2. msg[st].pending \in Requests /\ verdict[msg[st].pending] = "approve"
      BY <1>types, <3>1
         DEF Matches, DecisionInv, CarriedAccepted, Accepted, TypeOK, Message, Decisions
    <3>3. Protocol!Execute(msg[st].pending)
      BY <2>1, <3>1, <3>2 DEF Protocol!Execute
    <3> QED
      BY <2>2, <3>2, <3>3 DEF Implements, Protocol!Next
  <2> QED
    BY <2>3, <2>4
<1>9. ASSUME NEW st \in Streams, TaskRecord(st) \/ TaskStep(st) PROVE Goal
  <2>1. task[st] # "none"
    BY <1>9 DEF TaskRecord, TaskStep, Becomes
  <2>2. sess[st] \in Sessions
    BY <2>1, RegisteredFacts DEF TypeInv, Placement, TaskPlaced, SessionAssigned
  <2>3. WriteCheckpoint(sess[st], NoRequest) /\ UNCHANGED msg /\ Quiet
    BY <1>9 DEF TaskRecord, TaskStep, Quiet
  <2> QED
    BY <1>types, <2>2, <2>3, SnapshotKeeps, QuietImplements DEF Quiet
<1>10. ASSUME NEW st \in Streams, TaskPause(st) PROVE Goal
  <2>1. PICK r \in Requests \ raised :
          /\ task[st] = "running" /\ raised' = raised \union {r}
          /\ msg' = [msg EXCEPT ![st].pending = r]
          /\ WriteCheckpoint(sess[st], r)
          /\ UNCHANGED <<claims, verdict, executed>>
    BY <1>10 DEF TaskPause, Becomes
  <2>2. sess[st] \in Sessions
    BY <2>1, RegisteredFacts DEF TypeInv, Placement, TaskPlaced, SessionAssigned
  <2>3. \A other \in Streams : msg'[other].decision = msg[other].decision
    BY <1>types, <2>1 DEF TypeOK, Message
  <2>4. DecisionInv'
    BY <1>types, <2>1, <2>2, <2>3, PauseKeeps
  <2>5. Protocol!Raise(r)
    BY <2>1 DEF Protocol!Raise
  <2> QED
    BY <2>4, <2>5 DEF Implements, Protocol!Next
<1>11. ASSUME NEW st \in Streams, RecoverRun(st) PROVE Goal
  <2>1. DropsOnly
    <3>1. PICK s : \/ msg' = msg
                   \/ msg' = [msg EXCEPT ![st] = [NoMessage EXCEPT !.origin = "recovery",
                                                   !.from = s, !.pin = TRUE]]
      BY <1>11 DEF RecoverRun
    <3> QED
      BY <1>types, <3>1 DEF NoMessage, TypeOK
  <2> QED
    BY <1>11, <2>1, <1>quiet DEF RecoverRun, Quiet
<1>12. CASE Restart
  BY <1>12, <1>quiet DEF Restart, Quiet, NoMessage
<1>13. CASE ScanList \/ ScanMark \/ UNCHANGED vars
  BY <1>13, <1>quiet DEF ScanList, ScanMark, Quiet, vars
<1> QED
  BY <1>1, <1>2, <1>3, <1>4, <1>5, <1>6, <1>7, <1>8, <1>9, <1>10, <1>11, <1>12, <1>13
     DEF Next, StreamStep, TearDown, TaskWork, Recovery

(* The detailed model implements the abstract protocol: over any number of     *)
(* streams, crashes, resumes and timers, a request is decided at most once and *)
(* its action never runs without an approving decision.                        *)
THEOREM DecisionProtocolImplemented == Spec => DecisionProtocol
<1>1. Init => TypeInv /\ DecisionInv
  BY TypeInit, DecisionInit
<1>2. TypeInv /\ DecisionInv /\ [Next]_vars => (TypeInv /\ DecisionInv)'
  BY TypeStep, DecisionStep
<1>3. TypeInv /\ DecisionInv /\ [Next]_vars => [Protocol!Next]_(Protocol!decisionVars)
  BY DecisionStep DEF Implements
<1>4. Init => Protocol!Init
  BY DEF Init, Protocol!Init
<1> QED
  BY <1>1, <1>2, <1>3, <1>4, PTL DEF Spec, DecisionProtocol, Protocol!Spec
=============================================================================
