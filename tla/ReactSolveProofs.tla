-------------------------- MODULE ReactSolveProofs --------------------------
(***************************************************************************)
(* Theorems about ReactSolve, for every value of its constants.            *)
(*                                                                         *)
(* A solve that is not running a tool has stored its trace (Stored), which *)
(* is what makes the budgets survive a lost solve: the inductive           *)
(* invariants below compare the running counters with the stored trace.    *)
(***************************************************************************)
EXTENDS ReactSolve, FiniteSetTheorems, TLAPS

USE DEF counters

-----------------------------------------------------------------------------
(* Sets of turns and their sizes *)

LEMMA TurnSetsFinite ==
  ASSUME NEW s \in Seq(Turn)
  PROVE  /\ IsFiniteSet(Concludes(s)) /\ Cardinality(Concludes(s)) \in Nat
         /\ IsFiniteSet(Attempts(s)) /\ Cardinality(Attempts(s)) \in Nat
         /\ IsFiniteSet(Calls(s)) /\ Cardinality(Calls(s)) \in Nat
         /\ Cardinality(Attempts(s)) <= Cardinality(Concludes(s))
<1>1. IsFiniteSet(1..Len(s)) /\ DOMAIN s = 1..Len(s)
  BY FS_Interval
<1>2. /\ Concludes(s) \in SUBSET (1..Len(s))
      /\ Calls(s) \in SUBSET (1..Len(s))
      /\ Attempts(s) \in SUBSET Concludes(s)
  BY <1>1 DEF Concludes, Calls, Attempts
<1>3. IsFiniteSet(Concludes(s)) /\ IsFiniteSet(Calls(s))
  BY <1>1, <1>2, FS_Subset
<1>4. IsFiniteSet(Attempts(s)) /\ Cardinality(Attempts(s)) <= Cardinality(Concludes(s))
  BY <1>2, <1>3, FS_Subset
<1> QED
  BY <1>3, <1>4, FS_CardinalityType

\* What one more turn adds to each of them.
LEMMA TurnAdds ==
  ASSUME NEW s \in Seq(Turn), NEW t \in Turn
  PROVE  LET r == Append(s, t)
         IN /\ r \in Seq(Turn)
            /\ Cardinality(Concludes(r)) = Cardinality(Concludes(s))
                 + (IF t.act = "conclude" THEN 1 ELSE 0)
            /\ Cardinality(Attempts(r)) = Cardinality(Attempts(s))
                 + (IF t.act = "conclude" /\ t.result \notin NonConsuming THEN 1 ELSE 0)
            /\ Cardinality(Calls(r)) = Cardinality(Calls(s))
                 + (IF t.act \in Tools /\ t.result \notin NonConsuming THEN 1 ELSE 0)
<1> DEFINE r == Append(s, t)  n == Len(s) + 1
<1>1. /\ r \in Seq(Turn) /\ DOMAIN s = 1..Len(s) /\ DOMAIN r = 1..n /\ Len(s) \in Nat
      /\ r[n] = t /\ \A i \in 1..Len(s) : r[i] = s[i]
  OBVIOUS
<1>2. n \notin Concludes(s) /\ n \notin Attempts(s) /\ n \notin Calls(s)
  BY <1>1 DEF Concludes, Attempts, Calls
<1>3. Concludes(r) = IF t.act = "conclude" THEN Concludes(s) \union {n} ELSE Concludes(s)
  BY <1>1 DEF Concludes
<1>4. Attempts(r) = IF t.act = "conclude" /\ t.result \notin NonConsuming
                    THEN Attempts(s) \union {n} ELSE Attempts(s)
  BY <1>1, <1>3, <1>2 DEF Attempts, Concludes
<1>5. Calls(r) = IF t.act \in Tools /\ t.result \notin NonConsuming
                 THEN Calls(s) \union {n} ELSE Calls(s)
  BY <1>1 DEF Calls
<1>6. /\ Cardinality(Concludes(s) \union {n}) = Cardinality(Concludes(s)) + 1
      /\ Cardinality(Attempts(s) \union {n}) = Cardinality(Attempts(s)) + 1
      /\ Cardinality(Calls(s) \union {n}) = Cardinality(Calls(s)) + 1
  BY <1>2, TurnSetsFinite, FS_AddElement
<1> HIDE DEF r, n
<1>7. /\ Cardinality(Concludes(s)) \in Nat /\ Cardinality(Attempts(s)) \in Nat
      /\ Cardinality(Calls(s)) \in Nat
  BY TurnSetsFinite
<1>8. Cardinality(Concludes(r)) = Cardinality(Concludes(s))
        + (IF t.act = "conclude" THEN 1 ELSE 0)
  BY <1>3, <1>6, <1>7
<1>9. Cardinality(Attempts(r)) = Cardinality(Attempts(s))
        + (IF t.act = "conclude" /\ t.result \notin NonConsuming THEN 1 ELSE 0)
  BY <1>4, <1>6, <1>7
<1>10. Cardinality(Calls(r)) = Cardinality(Calls(s))
         + (IF t.act \in Tools /\ t.result \notin NonConsuming THEN 1 ELSE 0)
  BY <1>5, <1>6, <1>7
<1> QED
  BY <1>1, <1>8, <1>9, <1>10 DEF r

-----------------------------------------------------------------------------
(* Type correctness *)

LEMMA ToolIsNotASpecialAction ==
  ASSUME NEW act \in Tools
  PROVE  act \notin {"none", "blocked", "exhausted", "think", "conclude"}
  BY ToolsAssumption DEF ToolActs, FormalActs

LEMMA EvidenceType ==
  ASSUME NEW act, NEW goal \in Claims
  PROVE  EvidenceOf(act, goal) \in Ids
  BY DEF EvidenceOf, Ids, EvidenceIds

LEMMA TurnType ==
  ASSUME NEW act \in Acts, NEW result \in Results, NEW id \in Ids
  PROVE  AsTurn(act, result, id) \in Turn
  BY DEF AsTurn, Turn

LEMMA ResultType == \A act : ResultsOf(act) \subseteq Results
  BY DEF ResultsOf, LeanResults, Results

\* A call that is cut off has one of the results its tool may have.
LEMMA AnswersAreResults == \A act, late : Answers(act, late) \subseteq ResultsOf(act)
  BY DEF Answers, ResultsOf, LeanResults

LEMMA AppendType ==
  ASSUME NEW t \in Trace, NEW turn \in Turn
  PROVE  WithTurn(t, turn) \in Trace
  BY DEF WithTurn, Trace

LEMMA RebuiltType ==
  ASSUME NEW t \in Trace
  PROVE  RevisionsOf(t) \in Nat /\ ToolCallsOf(t) \in Nat
  BY TurnSetsFinite DEF RevisionsOf, ToolCallsOf, Larger, Trace

LEMMA StatusFacts ==
  \A x \in {"thinking", "acting", "paused", "stopped", "verified", "reviewed",
            "unreviewed", "best_effort", "blocked"} : x \in Statuses
  BY DEF Statuses, Running, Outcomes

LEMMA ConcludedType ==
  ASSUME TypeOK
  PROVE  Concluded \in Trace
<1>1. AsTurn("conclude", "done", NoId) \in Turn
  BY DEF AsTurn, Turn, Acts, Results, Ids
<1> DEFINE t == WithTurn(trace, AsTurn("conclude", "done", NoId))
<1>2. t \in Trace
  BY <1>1, AppendType DEF TypeOK
<1>3. Larger(revisions, Cardinality(Concludes(t.turns))) \in Nat
  BY <1>2, TurnSetsFinite DEF Trace, TypeOK, Larger
<1> HIDE DEF t
<1>4. [t EXCEPT !.concluded = Larger(revisions, Cardinality(Concludes(t.turns)))] \in Trace
  BY <1>2, <1>3 DEF Trace
<1> QED
  BY <1>4 DEF Concluded, t

LEMMA DecidedType ==
  ASSUME NEW t \in Trace
  PROVE  Decided(t) \in Trace
<1>1. t.decisions + 1 \in Nat /\ "none" \in Pendings
  BY DEF Trace, Pendings
<1> QED
  BY <1>1 DEF Decided, Trace

LEMMA ContinueType ==
  ASSUME NEW t \in Trace, Continue(t)
  PROVE  /\ revisions' \in Nat /\ toolCalls' \in Nat /\ status' \in Statuses
         /\ accepted' \in Ids
         /\ doing' \in [act : Tools \union {"none"}, approved : BOOLEAN]
  BY RebuiltType, StatusFacts DEF Continue, Ids, Idle

LEMMA ToolsType ==
  ASSUME NEW t \in Trace, NEW n \in Nat
  PROVE  [t EXCEPT !.tools = n] \in Trace
BY DEF Trace

LEMMA AskReviewerType ==
  ASSUME NEW kind \in {"blocked", "exhausted"}, NEW t \in Trace,
         NEW outcome \in Statuses, AskReviewer(kind, t, outcome)
  PROVE  trace' \in Trace /\ ckpt' \in Trace /\ status' \in Statuses
<1>1. [t EXCEPT !.pending = kind] \in Trace
  BY DEF Trace, Pendings
<1> QED
  BY <1>1, StatusFacts DEF AskReviewer, Store, End

\* TypeOK is not inductive: the turn a tool leaves behind needs the tool's name.
ActingTool == status = "acting" => doing.act \in Tools
TypeInv == TypeOK /\ ActingTool

LEMMA TypeInit == Init => TypeInv
<1> SUFFICES ASSUME Init PROVE TypeInv
  OBVIOUS
<1>1. \A goal \in Claims : Fresh(goal) \in Trace
  BY DEF Fresh, Trace, Pendings
<1>2. doing \in [act : Tools \union {"none"}, approved : BOOLEAN]
  BY DEF Init, Idle
<1> QED
  BY <1>1, <1>2, StatusFacts DEF Init, TypeInv, TypeOK, ActingTool, Ids

LEMMA TypeStep == TypeInv /\ [Next]_vars => TypeInv'
<1> SUFFICES ASSUME TypeInv, [Next]_vars PROVE TypeInv'
  OBVIOUS
<1> USE DEF TypeInv, ActingTool
<1>0. /\ trace \in Trace /\ ckpt \in Trace /\ status \in Statuses
      /\ revisions \in Nat /\ toolCalls \in Nat /\ demands \in Demands
      /\ accepted \in Ids /\ ran \in Nat /\ crashes \in Nat
      /\ doing \in [act : Tools \union {"none"}, approved : BOOLEAN]
      /\ trace.goal \in Claims /\ NoId \in Ids
      /\ \A act \in Tools : act \in Acts
      /\ {"think", "conclude"} \subseteq Acts
      /\ NonConsuming \subseteq Results /\ {"done", "responded"} \subseteq Results
  BY DEF TypeOK, Trace, Acts, NonConsuming, Results, Ids
<1>1. ASSUME NEW act \in Acts, Invalid(act) \/ RepeatStopped(act) PROVE TypeInv'
  <2>1. WithTurn(trace, AsTurn(act, "invalid", NoId)) \in Trace
    BY <1>0, TurnType, AppendType DEF NonConsuming
  <2> QED
    BY <1>0, <1>1, <2>1, StatusFacts DEF Invalid, RepeatStopped, Store, End, TypeOK
<1>2. ASSUME NEW goal \in Claims, Think(goal) PROVE TypeInv'
  <2>1. WithTurn(trace, AsTurn("think", "done", NoId)) \in Trace
    BY <1>0, TurnType, AppendType
  <2>2. [WithTurn(trace, AsTurn("think", "done", NoId)) EXCEPT !.goal = goal] \in Trace
    BY <2>1 DEF Trace
  <2> QED
    BY <1>0, <1>2, <2>2 DEF Think, Store, TypeOK
<1>3. ASSUME NEW act \in Tools, AskApproval(act) PROVE TypeInv'
  <2>1. [trace EXCEPT !.pending = act] \in Trace
    BY <1>0 DEF Trace, Pendings
  <2> QED
    BY <1>0, <1>3, <2>1, StatusFacts DEF AskApproval, Store, End, TypeOK
<1>4. ASSUME NEW act \in Tools, OverBudget(act) \/ Veto(act) PROVE TypeInv'
  <2>1. ASSUME NEW result \in NonConsuming, NEW id \in Ids
        PROVE  [WithTurn(trace, AsTurn(act, result, id)) EXCEPT !.tools = toolCalls] \in Trace
    <3>1. WithTurn(trace, AsTurn(act, result, id)) \in Trace
      BY <1>0, TurnType, AppendType
    <3> QED
      BY <3>1, <1>0, ToolsType
  <2>2. {"noBudget", "vetoed"} \subseteq NonConsuming /\ EvidenceOf(act, trace.goal) \in Ids
    BY <1>0, EvidenceType DEF NonConsuming
  <2> QED
    BY <1>0, <1>4, <2>1, <2>2, StatusFacts DEF OverBudget, Veto, Store, End, TypeOK
<1>5. ASSUME NEW act \in Tools, CallTool(act) PROVE TypeInv'
  <2>1. [trace EXCEPT !.tools = toolCalls + 1] \in Trace
    <3>1. trace \in Trace /\ toolCalls + 1 \in Nat
      BY <1>0
    <3> QED
      BY <3>1, ToolsType
  <2> QED
    BY <1>0, <1>5, <2>1, StatusFacts DEF CallTool, TypeOK
<1>6. CASE ToolReturns
  <2>1. PICK late \in BOOLEAN, result \in ResultsOf(doing.act) :
          /\ Store(WithTurn(trace, AsTurn(doing.act, result,
                                          EvidenceOf(doing.act, trace.goal))))
          /\ status' = IF late THEN "best_effort" ELSE "thinking"
    BY <1>6, AnswersAreResults DEF ToolReturns
  <2>2. doing.act \in Acts
    BY <1>6, <1>0 DEF ToolReturns
  <2>3. result \in Results /\ EvidenceOf(doing.act, trace.goal) \in Ids
    BY <1>0, ResultType, EvidenceType
  <2>4. WithTurn(trace, AsTurn(doing.act, result, EvidenceOf(doing.act, trace.goal)))
          \in Trace
    BY <1>0, <2>2, <2>3, TurnType, AppendType
  <2> QED
    BY <1>0, <1>6, <2>1, <2>4, StatusFacts DEF ToolReturns, Store, Idle, TypeOK
<1>7. CASE ApprovedReturns
  <2>1. PICK result \in ResultsOf(doing.act) \union {"vetoed"} :
          LET turn == AsTurn(doing.act, result, EvidenceOf(doing.act, trace.goal))
              t == Decided([WithTurn(trace, turn) EXCEPT !.tools = @ + 1])
          IN Store(t) /\ Continue(t)
    BY <1>7 DEF ApprovedReturns
  <2> DEFINE u == WithTurn(trace, AsTurn(doing.act, result, EvidenceOf(doing.act, trace.goal)))
             t == Decided([u EXCEPT !.tools = @ + 1])
  <2>2. doing.act \in Acts
    BY <1>7, <1>0 DEF ApprovedReturns
  <2>3. result \in Results /\ EvidenceOf(doing.act, trace.goal) \in Ids
    BY <1>0, ResultType, EvidenceType DEF Results
  <2>4. u \in Trace
    BY <1>0, <2>2, <2>3, TurnType, AppendType
  <2>5. Store(t) /\ Continue(t)
    BY <2>1
  <2> HIDE DEF u
  <2>6. [u EXCEPT !.tools = @ + 1] \in Trace
    BY <2>4 DEF Trace
  <2>7. t \in Trace
    BY <2>6, DecidedType
  <2> HIDE DEF t
  <2>8. status' # "acting"
    BY <2>5 DEF Continue
  <2> QED
    BY <1>0, <1>7, <2>5, <2>7, <2>8, ContinueType DEF ApprovedReturns, Store, TypeOK
<1>8. CASE GenerationCut \/ Synthesize
  BY <1>0, <1>8, StatusFacts DEF GenerationCut, Synthesize, HasStep, End, TypeOK
<1>9. ASSUME NEW id \in Ids, ConcludeMissing(id) \/ ConcludeLate(id) PROVE TypeInv'
  <2>1. WithTurn(trace, AsTurn("conclude", "missing", NoId)) \in Trace
    BY <1>0, TurnType, AppendType DEF NonConsuming
  <2> QED
    BY <1>0, <1>9, <2>1, ConcludedType, StatusFacts
    DEF ConcludeMissing, ConcludeLate, HasStep, Store, End, TypeOK
<1>10. ASSUME NEW id \in Ids, NEW vote \in Votes, Conclude(id, vote) PROVE TypeInv'
  <2>1. Concluded \in Trace
    BY ConcludedType
  <2>2. PassedOutcome(vote) \in Statuses /\ PassedOutcome(vote) # "acting"
    BY StatusFacts DEF PassedOutcome
  <2>3. /\ status = "thinking"
        /\ UNCHANGED <<demands, doing, toolCalls, ran, crashes>>
    BY <1>10 DEF Conclude, HasStep
  <2>4. /\ trace' \in Trace /\ ckpt' \in Trace
        /\ status' \in Statuses /\ status' # "acting"
    <3>1. CASE AskReviewer("blocked", Concluded, "blocked")
      BY <3>1, <2>1, StatusFacts, AskReviewerType DEF AskReviewer, End
    <3>2. CASE AskReviewer("exhausted", Concluded, "best_effort")
      BY <3>2, <2>1, StatusFacts, AskReviewerType DEF AskReviewer, End
    <3>3. CASE Store(Concluded) /\ (End(PassedOutcome(vote)) \/ UNCHANGED status)
      BY <3>3, <2>1, <2>2, <2>3, <1>0 DEF Store, End
    <3> QED
      BY <1>10, <3>1, <3>2, <3>3 DEF Conclude
  <2>5. revisions' \in Nat /\ accepted' \in Ids
    BY <1>0, <1>10 DEF Conclude
  <2> QED
    BY <1>0, <2>3, <2>4, <2>5 DEF TypeOK
<1>11. CASE Start
  <2>1. status' # "acting" /\ Continue(ckpt)
    BY <1>11 DEF Start, Continue
  <2> QED
    BY <1>0, <1>11, <2>1, ContinueType DEF Start, TypeOK
<1>12. CASE PauseAgain
  BY <1>0, <1>12, StatusFacts DEF PauseAgain, End, TypeOK
<1>13. ASSUME NEW act \in Tools, Approve(act) PROVE TypeInv'
  BY <1>0, <1>13, StatusFacts DEF Approve, TypeOK
<1>14. ASSUME NEW act \in Tools, NEW result \in {"noBudget", "rejected", "responded"},
              Dispose(act, result)
       PROVE  TypeInv'
  <2> DEFINE t == Decided(WithTurn(ckpt, AsTurn(act, result, NoId)))
  <2>1. result \in Results
    BY DEF Results
  <2>2. t \in Trace
    BY <1>0, <2>1, TurnType, AppendType, DecidedType
  <2>3. Store(t) /\ Continue(t)
    BY <1>14 DEF Dispose
  <2> HIDE DEF t
  <2>4. status' # "acting"
    BY <2>3 DEF Continue
  <2> QED
    BY <1>0, <1>14, <2>2, <2>3, <2>4, ContinueType DEF Dispose, Store, TypeOK
<1>15. CASE AcceptBestEffort
  BY <1>0, <1>15, DecidedType, StatusFacts DEF AcceptBestEffort, Store, End, TypeOK
<1>16. CASE Guide
  <2> DEFINE t == Decided(WithTurn(ckpt, AsTurn("think", "done", NoId)))
  <2>1. t \in Trace
    BY <1>0, TurnType, AppendType, DecidedType
  <2>2. Store(t) /\ Continue(t)
    BY <1>16 DEF Guide
  <2> HIDE DEF t
  <2>3. status' # "acting"
    BY <2>2 DEF Continue
  <2> QED
    BY <1>0, <1>16, <2>1, <2>2, <2>3, ContinueType DEF Guide, Store, TypeOK
<1>17. CASE Crash
  BY <1>0, <1>17, StatusFacts DEF Crash, Idle, TypeOK
<1>18. CASE UNCHANGED vars
  BY <1>0, <1>18 DEF vars, TypeOK
<1> QED
  BY <1>1, <1>2, <1>3, <1>4, <1>5, <1>6, <1>7, <1>8, <1>9, <1>10, <1>11, <1>12,
     <1>13, <1>14, <1>15, <1>16, <1>17, <1>18 DEF Next, Step, Resume

\* The trace, the checkpoint and the counters stay what the program's types say.
THEOREM ReactTypesCorrect == Spec => []TypeOK
<1>1. TypeInv => TypeOK
  BY DEF TypeInv
<1> QED
  BY <1>1, TypeInit, TypeStep, PTL DEF Spec

-----------------------------------------------------------------------------
(* What each kind of step does to the outcome and to the stored trace *)

\* The gate alone verifies an answer.
LEMMA OnlyConcludeVerifies ==
  ASSUME Next, status' = "verified"
  PROVE  \E id \in Ids, vote \in Votes : Conclude(id, vote)
<1> USE DEF End, Continue
<1>1. \A act \in Acts : ~Invalid(act) /\ ~RepeatStopped(act)
  BY DEF Invalid, RepeatStopped, HasStep
<1>2. \A goal \in Claims : ~Think(goal)
  BY DEF Think, HasStep
<1>3. \A act \in Tools : /\ ~AskApproval(act) /\ ~OverBudget(act) /\ ~Veto(act)
                         /\ ~CallTool(act) /\ ~Approve(act)
  BY DEF AskApproval, OverBudget, Veto, CallTool, Approve, HasStep
<1>4. ~ToolReturns /\ ~GenerationCut /\ ~Synthesize /\ ~Crash
  BY DEF ToolReturns, GenerationCut, Synthesize, HasStep, Crash
<1>5. ~ApprovedReturns /\ ~Start /\ ~PauseAgain /\ ~AcceptBestEffort /\ ~Guide
  BY DEF ApprovedReturns, Start, PauseAgain, AcceptBestEffort, Guide
<1>6. \A act \in Tools, result \in {"noBudget", "rejected", "responded"} :
        ~Dispose(act, result)
  BY DEF Dispose
<1>7. \A id \in Ids : ~ConcludeMissing(id) /\ ~ConcludeLate(id)
  BY DEF ConcludeMissing, ConcludeLate, HasStep
<1> QED
  BY <1>1, <1>2, <1>3, <1>4, <1>5, <1>6, <1>7 DEF Next, Step, Resume

\* A conclusion that verifies cites evidence that is newer than any other conclusion.
LEMMA ConcludeEstablishes ==
  ASSUME TypeOK, NEW id \in Ids, NEW vote \in Votes, Conclude(id, vote),
         status' = "verified"
  PROVE  VerifiedIsProved'
<1> DEFINE s == trace.turns  last == AsTurn("conclude", "done", NoId)
           bound == {s[i] : i \in Bound(s, id)}
<1>1. s \in Seq(Turn) /\ Len(s) \in Nat /\ DOMAIN s = 1..Len(s)
  BY DEF TypeOK, Trace
<1>2. FormalRequired /\ Acceptable(bound, vote) /\ Store(Concluded) /\ accepted' = id
  <2>1. ~AskReviewer("blocked", Concluded, "blocked")
        /\ ~AskReviewer("exhausted", Concluded, "best_effort")
    BY DEF AskReviewer, End
  <2>2. status # "verified"
    BY DEF Conclude, HasStep
  <2> QED
    BY <2>1, <2>2 DEF Conclude, End, PassedOutcome
<1>3. ProvesGoal(bound)
  BY <1>2 DEF Acceptable
<1>4. PICK i \in Bound(s, id) :
        s[i].act = "formal" /\ s[i].result = "proved"
        /\ s[i].id = EvidenceOf("formal", trace.goal)
  BY <1>3 DEF ProvesGoal
<1>5. i \in DOMAIN s /\ s[i].id = id /\ \A j \in DOMAIN s : j >= i => s[j].act # "conclude"
  BY <1>4 DEF Bound, InScope
<1>6. s[i] = AsTurn("formal", "proved", id)
  <2>1. s[i] \in Turn
    BY <1>1, <1>5
  <2> HIDE DEF s
  <2> QED
    BY <2>1, <1>4, <1>5 DEF AsTurn, Turn
<1>7. trace'.turns = Append(s, last) /\ trace'.goal = trace.goal
  BY <1>2 DEF Store, Concluded, WithTurn, TypeOK, Trace
<1>8. /\ DOMAIN trace'.turns = 1..(Len(s) + 1) /\ Len(trace'.turns) = Len(s) + 1
      /\ trace'.turns[Len(s) + 1] = last
      /\ \A j \in 1..Len(s) : trace'.turns[j] = s[j]
  BY <1>1, <1>7
<1>9. \A j \in Concludes(trace'.turns) : j > i <=> j = Len(s) + 1
  BY <1>1, <1>5, <1>8 DEF Concludes
<1>10. Len(s) + 1 \in Concludes(trace'.turns)
  BY <1>1, <1>8 DEF Concludes, AsTurn
<1>11. {j \in Concludes(trace'.turns) : j > i} = {Len(trace'.turns)}
  BY <1>8, <1>9, <1>10
<1>12. trace'.turns[i] = AsTurn("formal", "proved", accepted') /\ i \in DOMAIN trace'.turns
  BY <1>1, <1>2, <1>5, <1>6, <1>8
<1>13. accepted' = EvidenceOf("formal", trace'.goal)
  BY <1>2, <1>4, <1>5, <1>7
<1> QED
  BY <1>11, <1>12, <1>13 DEF VerifiedIsProved

\* "A formal conclusion must cite an ID created after the most recent rejected
\* conclusion", whatever pauses, crashes and goal changes lie before it.
THEOREM VerifiedAnswerIsProved == Spec => []VerifiedIsProved
<1>1. Init => VerifiedIsProved
  BY DEF Init, VerifiedIsProved
<1>2. TypeOK /\ VerifiedIsProved /\ [Next]_vars => VerifiedIsProved'
  <2>1. ASSUME TypeOK, Next, status' = "verified" PROVE VerifiedIsProved'
    BY <2>1, OnlyConcludeVerifies, ConcludeEstablishes
  <2>2. status' # "verified" => VerifiedIsProved'
    BY DEF VerifiedIsProved
  <2>3. VerifiedIsProved /\ UNCHANGED vars => VerifiedIsProved'
    BY DEF VerifiedIsProved, vars
  <2> QED
    BY <2>1, <2>2, <2>3
<1> QED
  BY <1>1, <1>2, ReactTypesCorrect, PTL DEF Spec

-----------------------------------------------------------------------------
(* What is stored, and the interruptions *)

LEMMA WithTurnFields ==
  ASSUME NEW t \in Trace, NEW turn \in Turn
  PROVE  LET u == WithTurn(t, turn)
         IN /\ u \in Trace
            /\ u.turns = Append(t.turns, turn) /\ u.goal = t.goal /\ u.tools = t.tools
            /\ u.concluded = t.concluded /\ u.decisions = t.decisions
            /\ u.pending = t.pending
<1>1. WithTurn(t, turn) \in Trace
  BY AppendType
<1> QED
  BY <1>1 DEF WithTurn, Trace

LEMMA ConcludedFields ==
  ASSUME TypeOK
  PROVE  /\ Concluded \in Trace
         /\ Concluded.turns = Append(trace.turns, AsTurn("conclude", "done", NoId))
         /\ Concluded.tools = trace.tools /\ Concluded.decisions = trace.decisions
         /\ Concluded.pending = trace.pending
         /\ Concluded.concluded
              = Larger(revisions, Cardinality(Concludes(Concluded.turns)))
  BY ConcludedType DEF Concluded, WithTurn, TypeOK, Trace

LEMMA DecidedFields ==
  ASSUME NEW t \in Trace
  PROVE  /\ Decided(t) \in Trace
         /\ Decided(t).turns = t.turns /\ Decided(t).tools = t.tools
         /\ Decided(t).concluded = t.concluded
         /\ Decided(t).decisions = t.decisions + 1 /\ Decided(t).pending = "none"
  BY DecidedType DEF Decided, Trace

\* A solve that runs no tool has stored its trace; a running tool is at most
\* charged, and an approved one is still pending.
Stored ==
  /\ status # "acting" => trace = ckpt
  /\ status = "acting" /\ doing.approved => trace = ckpt /\ ckpt.pending \in Tools
  /\ status = "acting" /\ ~doing.approved => trace = [ckpt EXCEPT !.tools = toolCalls]
  /\ status = "paused" => ckpt.pending # "none"

LEMMA StoredInit == Init => Stored
  BY DEF Init, Stored

LEMMA StoredStep == TypeInv /\ Stored /\ [Next]_vars => Stored'
<1> SUFFICES ASSUME TypeInv, Stored, [Next]_vars PROVE Stored'
  OBVIOUS
<1>0. TypeOK /\ trace \in Trace /\ ckpt \in Trace
  BY DEF TypeInv, TypeOK
<1>1. ASSUME Store(trace'), status' \notin {"acting", "paused"} PROVE Stored'
  BY <1>1 DEF Store, Stored
<1>2. ASSUME NEW kind \in {"blocked", "exhausted"} \union Tools, NEW t \in Trace,
             Store([t EXCEPT !.pending = kind]), status' = "paused"
      PROVE  Stored'
  <2>1. kind # "none"
    BY ToolIsNotASpecialAction
  <2> QED
    BY <1>2, <2>1 DEF Store, Stored, Trace
<1>3. ASSUME NEW act \in Acts, Invalid(act) \/ RepeatStopped(act) PROVE Stored'
  BY <1>1, <1>3 DEF Invalid, RepeatStopped, Store, End, HasStep
<1>4. ASSUME NEW goal \in Claims, Think(goal) PROVE Stored'
  BY <1>1, <1>4 DEF Think, Store, HasStep
<1>5. ASSUME NEW act \in Tools, AskApproval(act) PROVE Stored'
  BY <1>0, <1>2, <1>5 DEF AskApproval, End
<1>6. ASSUME NEW act \in Tools, OverBudget(act) \/ Veto(act) PROVE Stored'
  BY <1>1, <1>6 DEF OverBudget, Veto, Store, End, HasStep
<1>7. ASSUME NEW act \in Tools, CallTool(act) PROVE Stored'
  BY <1>0, <1>7 DEF CallTool, HasStep, Stored
<1>8. CASE ToolReturns
  BY <1>1, <1>8 DEF ToolReturns, Store
<1>9. CASE ApprovedReturns
  BY <1>1, <1>9 DEF ApprovedReturns, Store, Continue
<1>10. CASE GenerationCut \/ Synthesize
  BY <1>10 DEF GenerationCut, Synthesize, HasStep, End, Stored
<1>11. ASSUME NEW id \in Ids, ConcludeMissing(id) \/ ConcludeLate(id) PROVE Stored'
  BY <1>1, <1>11 DEF ConcludeMissing, ConcludeLate, Store, End, HasStep
<1>12. ASSUME NEW id \in Ids, NEW vote \in Votes, Conclude(id, vote) PROVE Stored'
  <2>1. Concluded \in Trace
    BY <1>0, ConcludedType
  <2>2. ASSUME NEW kind \in {"blocked", "exhausted"}, NEW outcome \in {"blocked", "best_effort"},
               AskReviewer(kind, Concluded, outcome)
        PROVE  Stored'
    BY <2>1, <2>2, <1>1, <1>2 DEF AskReviewer, End, Store
  <2>3. CASE Store(Concluded) /\ (End(PassedOutcome(vote)) \/ UNCHANGED status)
    BY <2>3, <1>1, <1>12 DEF Conclude, HasStep, Store, End, PassedOutcome
  <2> QED
    BY <1>12, <2>2, <2>3 DEF Conclude
<1>13. CASE Start
  BY <1>13 DEF Start, Continue, Stored
<1>14. CASE PauseAgain
  BY <1>14 DEF PauseAgain, End, Stored
<1>15. ASSUME NEW act \in Tools, Approve(act) PROVE Stored'
  BY <1>15 DEF Approve, Stored
<1>16. ASSUME NEW act \in Tools, NEW result \in {"noBudget", "rejected", "responded"},
              Dispose(act, result)
       PROVE  Stored'
  BY <1>1, <1>16 DEF Dispose, Store, Continue
<1>17. CASE AcceptBestEffort
  BY <1>1, <1>17 DEF AcceptBestEffort, Store, End
<1>18. CASE Guide
  BY <1>1, <1>18 DEF Guide, Store, Continue
<1>19. CASE Crash
  BY <1>19 DEF Crash, Stored
<1>20. CASE UNCHANGED vars
  BY <1>20 DEF vars, Stored
<1> QED
  BY <1>3, <1>4, <1>5, <1>6, <1>7, <1>8, <1>9, <1>10, <1>11, <1>12, <1>13, <1>14,
     <1>15, <1>16, <1>17, <1>18, <1>19, <1>20 DEF Next, Step, Resume

LEMMA AlwaysStored == Spec => [](TypeInv /\ Stored)
  BY TypeInit, TypeStep, StoredInit, StoredStep, PTL DEF Spec

\* Whoever resumes a paused run finds its request in the checkpoint.
THEOREM PausesAreRecoverable == Spec => []PauseIsRecoverable
<1>1. Stored => PauseIsRecoverable
  BY DEF Stored, PauseIsRecoverable
<1> QED
  BY <1>1, AlwaysStored, PTL

\* The pauses are compared with the decisions taken so far and one more to come.
LEMMA InterruptsStep ==
  TypeInv /\ Stored /\ InterruptsBounded /\ [Next]_vars => InterruptsBounded'
<1> SUFFICES ASSUME TypeInv, Stored, InterruptsBounded, [Next]_vars
             PROVE  InterruptsBounded'
  OBVIOUS
<1> DEFINE Asked(t) == t.decisions + (IF t.pending = "none" THEN 0 ELSE 1)
<1>0. /\ TypeOK /\ trace \in Trace /\ ckpt \in Trace
      /\ ckpt.decisions = trace.decisions /\ ckpt.pending = trace.pending
      /\ MaxInterrupts \in Nat /\ Asked(trace) <= MaxInterrupts
      /\ trace.decisions \in Nat /\ trace.goal \in Claims
  BY BudgetAssumption DEF TypeInv, TypeOK, Stored, Trace, InterruptsBounded
<1>1. ASSUME trace'.decisions = trace.decisions, trace'.pending = trace.pending
      PROVE  InterruptsBounded'
  BY <1>0, <1>1 DEF InterruptsBounded
<1>2. ASSUME trace'.decisions = trace.decisions, trace.decisions < MaxInterrupts
      PROVE  InterruptsBounded'
  BY <1>0, <1>2 DEF InterruptsBounded
<1>3. ASSUME NEW t \in Trace, t.decisions = trace.decisions, trace.pending # "none",
             trace' = Decided(t)
      PROVE  InterruptsBounded'
  <2>1. trace'.decisions = trace.decisions + 1 /\ trace'.pending = "none"
    BY <1>3, DecidedFields
  <2> QED
    BY <1>0, <1>3, <2>1 DEF InterruptsBounded
<1>4. ASSUME NEW act \in Acts, NEW result \in Results, NEW id \in Ids
      PROVE  LET u == WithTurn(trace, AsTurn(act, result, id))
                 v == WithTurn(ckpt, AsTurn(act, result, id))
             IN /\ u \in Trace /\ u.decisions = trace.decisions /\ u.pending = trace.pending
                /\ v \in Trace /\ v.decisions = ckpt.decisions
  BY <1>0, TurnType, WithTurnFields
<1>5. /\ NonConsuming \subseteq Results /\ {"done", "responded"} \subseteq Results
      /\ {"vetoed", "noBudget", "invalid", "missing", "rejected"} \subseteq NonConsuming
      /\ NoId \in Ids /\ Tools \subseteq Acts /\ {"think", "conclude"} \subseteq Acts
  BY DEF NonConsuming, Results, Ids, Acts
<1>6. ASSUME NEW act \in Acts, Invalid(act) \/ RepeatStopped(act) PROVE InterruptsBounded'
  BY <1>1, <1>4, <1>5, <1>6 DEF Invalid, RepeatStopped, Store
<1>7. ASSUME NEW goal \in Claims, Think(goal) PROVE InterruptsBounded'
  <2> DEFINE u == WithTurn(trace, AsTurn("think", "done", NoId))
  <2>1. u \in Trace /\ u.decisions = trace.decisions /\ u.pending = trace.pending
    BY <1>4, <1>5
  <2>2. trace' = [u EXCEPT !.goal = goal]
    BY <1>7 DEF Think, Store
  <2> QED
    BY <1>1, <2>1, <2>2 DEF Trace
<1>8. ASSUME NEW act \in Tools, AskApproval(act) PROVE InterruptsBounded'
  <2>1. trace'.decisions = trace.decisions /\ trace.decisions < MaxInterrupts
    BY <1>0, <1>8 DEF AskApproval, Store, Trace, NeedsApproval, MayInterrupt
  <2> QED
    BY <1>2, <2>1
<1>9. ASSUME NEW act \in Tools, OverBudget(act) \/ Veto(act) PROVE InterruptsBounded'
  <2>1. PICK result \in NonConsuming, id \in Ids :
          trace' = [WithTurn(trace, AsTurn(act, result, id)) EXCEPT !.tools = toolCalls]
    BY <1>0, <1>5, <1>9, EvidenceType DEF OverBudget, Veto, Store
  <2> DEFINE u == WithTurn(trace, AsTurn(act, result, id))
  <2>2. u \in Trace /\ u.decisions = trace.decisions /\ u.pending = trace.pending
    BY <1>4, <1>5
  <2> QED
    BY <1>1, <2>1, <2>2 DEF Trace
<1>10. ASSUME NEW act \in Tools, CallTool(act) PROVE InterruptsBounded'
  BY <1>0, <1>1, <1>10 DEF CallTool, Trace
<1>11. CASE ToolReturns
  <2>1. PICK result \in ResultsOf(doing.act) :
          trace' = WithTurn(trace, AsTurn(doing.act, result, EvidenceOf(doing.act, trace.goal)))
    BY <1>11, AnswersAreResults DEF ToolReturns, Store
  <2>2. doing.act \in Acts /\ result \in Results /\ EvidenceOf(doing.act, trace.goal) \in Ids
    BY <1>0, <1>5, <1>11, ResultType, EvidenceType DEF ToolReturns, TypeInv, ActingTool
  <2> QED
    BY <1>1, <1>4, <2>1, <2>2
<1>12. CASE ApprovedReturns
  <2>1. PICK result \in ResultsOf(doing.act) \union {"vetoed"} :
          trace' = Decided([WithTurn(trace, AsTurn(doing.act, result,
                              EvidenceOf(doing.act, trace.goal))) EXCEPT !.tools = @ + 1])
    BY <1>12 DEF ApprovedReturns, Store
  <2> DEFINE u == WithTurn(trace, AsTurn(doing.act, result, EvidenceOf(doing.act, trace.goal)))
  <2>2. doing.act \in Acts /\ result \in Results /\ EvidenceOf(doing.act, trace.goal) \in Ids
    BY <1>0, <1>5, <1>12, ResultType, EvidenceType DEF ApprovedReturns, TypeInv, ActingTool
  <2>3. u \in Trace /\ u.decisions = trace.decisions
    BY <1>4, <2>2
  <2>4. trace.pending # "none"
    BY <1>12, ToolIsNotASpecialAction DEF ApprovedReturns, Stored
  <2> HIDE DEF u
  <2>5. [u EXCEPT !.tools = @ + 1] \in Trace
        /\ [u EXCEPT !.tools = @ + 1].decisions = trace.decisions
    BY <2>3 DEF Trace
  <2> QED
    BY <1>3, <2>1, <2>4, <2>5 DEF u
<1>13. CASE GenerationCut \/ Synthesize
  BY <1>1, <1>13 DEF GenerationCut, Synthesize, HasStep
<1>14. ASSUME NEW id \in Ids, ConcludeMissing(id) \/ ConcludeLate(id)
       PROVE  InterruptsBounded'
  BY <1>0, <1>1, <1>4, <1>5, <1>14, ConcludedFields DEF ConcludeMissing, ConcludeLate, Store
<1>15. ASSUME NEW id \in Ids, NEW vote \in Votes, Conclude(id, vote)
       PROVE  InterruptsBounded'
  <2>1. /\ Concluded \in Trace /\ Concluded.decisions = trace.decisions
        /\ Concluded.pending = trace.pending
    BY <1>0, ConcludedFields
  <2>2. ASSUME NEW kind, NEW outcome, AskReviewer(kind, Concluded, outcome)
        PROVE  InterruptsBounded'
    <3>1. CASE MayInterrupt
      <4>1. trace' = [Concluded EXCEPT !.pending = kind]
        BY <2>2, <3>1 DEF AskReviewer, Store
      <4> QED
        BY <1>2, <2>1, <3>1, <4>1 DEF MayInterrupt, Trace
    <3>2. CASE ~MayInterrupt
      BY <1>1, <2>1, <2>2, <3>2 DEF AskReviewer, Store
    <3> QED
      BY <3>1, <3>2
  <2>3. Store(Concluded) => InterruptsBounded'
    BY <1>1, <2>1 DEF Store
  <2> QED
    BY <1>15, <2>2, <2>3 DEF Conclude
<1>16. CASE Start \/ PauseAgain \/ Crash
  BY <1>0, <1>1, <1>16 DEF Start, PauseAgain, Crash
<1>17. ASSUME NEW act \in Tools, Approve(act) PROVE InterruptsBounded'
  BY <1>0, <1>1, <1>17 DEF Approve
<1>18. ASSUME NEW act \in Tools, NEW result \in {"noBudget", "rejected", "responded"},
              Dispose(act, result)
       PROVE  InterruptsBounded'
  <2>1. trace.pending # "none"
    BY <1>0, <1>18, ToolIsNotASpecialAction DEF Dispose
  <2>2. trace' = Decided(WithTurn(ckpt, AsTurn(act, result, NoId)))
    BY <1>18 DEF Dispose, Store
  <2> QED
    BY <1>0, <1>3, <1>4, <1>5, <2>1, <2>2
<1>19. CASE AcceptBestEffort \/ Guide
  <2>1. trace.pending # "none"
    BY <1>0, <1>19 DEF AcceptBestEffort, Guide
  <2>2. \/ trace' = Decided(ckpt)
        \/ trace' = Decided(WithTurn(ckpt, AsTurn("think", "done", NoId)))
    BY <1>19 DEF AcceptBestEffort, Guide, Store
  <2> QED
    BY <1>0, <1>3, <1>4, <1>5, <2>1, <2>2
<1>20. CASE UNCHANGED vars
  BY <1>1, <1>20 DEF vars
<1> QED
  BY <1>6, <1>7, <1>8, <1>9, <1>10, <1>11, <1>12, <1>13, <1>14, <1>15, <1>16, <1>17,
     <1>18, <1>19, <1>20 DEF Next, Step, Resume

\* max_interrupts_per_run bounds the decisions a person is asked for, over all resumes.
THEOREM InterruptsAreBounded == Spec => []InterruptsBounded
<1>1. Init => InterruptsBounded
  BY BudgetAssumption DEF Init, Fresh, InterruptsBounded
<1> QED
  BY <1>1, AlwaysStored, InterruptsStep, PTL DEF Spec

-----------------------------------------------------------------------------
(* The turns each action adds to the checkpoint *)

\* A turn that is not a conclusion the gate has judged.
Quiet == {turn \in Turn : turn.act = "conclude" => turn.result \in NonConsuming}
\* The checkpoint has one more quiet turn, or the turns it had.
QuietlyGrown ==
  /\ ckpt'.concluded = ckpt.concluded
  /\ ckpt'.turns = ckpt.turns \/ \E turn \in Quiet : ckpt'.turns = Append(ckpt.turns, turn)

LEMMA QuietTurns ==
  /\ \A act \in Acts, result \in NonConsuming, id \in Ids : AsTurn(act, result, id) \in Quiet
  /\ \A act \in Tools, result \in Results, id \in Ids : AsTurn(act, result, id) \in Quiet
  /\ AsTurn("think", "done", NoId) \in Quiet
<1>1. /\ NonConsuming \subseteq Results /\ "done" \in Results /\ "think" \in Acts
      /\ Tools \subseteq Acts /\ "conclude" \notin Tools /\ NoId \in Ids
  BY ToolIsNotASpecialAction DEF NonConsuming, Results, Acts, Ids
<1> QED
  BY <1>1 DEF Quiet, Turn, AsTurn

\* What is stored while the agent thinks or a tool runs.
LEMMA LoopStores ==
  ASSUME TypeInv, Stored,
         \/ \E act \in Acts : Invalid(act) \/ RepeatStopped(act)
         \/ \E goal \in Claims : Think(goal)
         \/ \E act \in Tools : OverBudget(act) \/ Veto(act)
         \/ ToolReturns
         \/ \E id \in Ids : ConcludeMissing(id)
  PROVE  QuietlyGrown /\ trace' = ckpt' /\ UNCHANGED counters
<1>0. /\ trace \in Trace /\ ckpt \in Trace /\ trace.goal \in Claims
      /\ trace.turns = ckpt.turns /\ trace.concluded = ckpt.concluded
  <2>1. trace \in Trace /\ ckpt \in Trace /\ trace.goal \in Claims
    BY DEF TypeInv, TypeOK, Trace
  <2>2. trace = ckpt \/ trace = [ckpt EXCEPT !.tools = toolCalls]
    BY DEF TypeInv, TypeOK, Stored, Statuses
  <2> QED
    BY <2>1, <2>2 DEF Trace
<1>1. ASSUME NEW turn \in Quiet, Store(WithTurn(trace, turn))
      PROVE  QuietlyGrown /\ trace' = ckpt'
  <2>1. turn \in Turn
    BY DEF Quiet
  <2> QED
    BY <1>0, <1>1, <2>1, WithTurnFields DEF Store, QuietlyGrown
<1>2. "invalid" \in NonConsuming /\ "missing" \in NonConsuming /\ "noBudget" \in NonConsuming
      /\ "vetoed" \in NonConsuming /\ NoId \in Ids /\ "conclude" \in Acts /\ Tools \subseteq Acts
  BY DEF NonConsuming, Ids, Acts
<1>3. ASSUME NEW act \in Acts, Invalid(act) \/ RepeatStopped(act)
      PROVE  QuietlyGrown /\ trace' = ckpt' /\ UNCHANGED counters
  BY <1>1, <1>2, <1>3, QuietTurns DEF Invalid, RepeatStopped
<1>4. ASSUME NEW goal \in Claims, Think(goal)
      PROVE  QuietlyGrown /\ trace' = ckpt' /\ UNCHANGED counters
  <2> DEFINE turn == AsTurn("think", "done", NoId)  u == WithTurn(trace, turn)
  <2>1. turn \in Quiet /\ turn \in Turn
    BY QuietTurns DEF Quiet
  <2>2. u \in Trace /\ u.turns = Append(trace.turns, turn) /\ u.concluded = trace.concluded
    BY <1>0, <2>1, WithTurnFields
  <2>3. trace' = [u EXCEPT !.goal = goal] /\ ckpt' = [u EXCEPT !.goal = goal]
    BY <1>4 DEF Think, Store
  <2> HIDE DEF u
  <2>4. ckpt'.turns = Append(ckpt.turns, turn) /\ ckpt'.concluded = ckpt.concluded
    BY <1>0, <2>2, <2>3 DEF Trace
  <2> QED
    BY <1>4, <2>1, <2>3, <2>4 DEF Think, QuietlyGrown
<1>5. ASSUME NEW act \in Tools, OverBudget(act) \/ Veto(act)
      PROVE  QuietlyGrown /\ trace' = ckpt' /\ UNCHANGED counters
  <2>1. PICK result \in NonConsuming, id \in Ids :
          Store([WithTurn(trace, AsTurn(act, result, id)) EXCEPT !.tools = toolCalls])
    BY <1>0, <1>2, <1>5, EvidenceType DEF OverBudget, Veto
  <2> DEFINE turn == AsTurn(act, result, id)  u == WithTurn(trace, turn)
  <2>2. turn \in Quiet /\ turn \in Turn
    BY <1>2, QuietTurns DEF Quiet
  <2>3. u \in Trace /\ u.turns = Append(trace.turns, turn) /\ u.concluded = trace.concluded
    BY <1>0, <2>2, WithTurnFields
  <2>4. trace' = [u EXCEPT !.tools = toolCalls] /\ ckpt' = [u EXCEPT !.tools = toolCalls]
    BY <2>1 DEF Store
  <2> HIDE DEF u
  <2>5. ckpt'.turns = Append(ckpt.turns, turn) /\ ckpt'.concluded = ckpt.concluded
    BY <1>0, <2>3, <2>4 DEF Trace
  <2> QED
    BY <1>5, <2>2, <2>4, <2>5 DEF OverBudget, Veto, QuietlyGrown
<1>6. CASE ToolReturns
  <2>1. PICK result \in ResultsOf(doing.act) :
          Store(WithTurn(trace, AsTurn(doing.act, result, EvidenceOf(doing.act, trace.goal))))
    BY <1>6, AnswersAreResults DEF ToolReturns
  <2>2. doing.act \in Tools /\ result \in Results /\ EvidenceOf(doing.act, trace.goal) \in Ids
    BY <1>0, <1>6, ResultType, EvidenceType DEF ToolReturns, TypeInv, ActingTool
  <2> QED
    BY <1>1, <1>6, <2>1, <2>2, QuietTurns DEF ToolReturns
<1>7. ASSUME NEW id \in Ids, ConcludeMissing(id)
      PROVE  QuietlyGrown /\ trace' = ckpt' /\ UNCHANGED counters
  BY <1>1, <1>2, <1>7, QuietTurns DEF ConcludeMissing
<1> QED
  BY <1>3, <1>4, <1>5, <1>6, <1>7

\* What a resume stores: at most one quiet turn, before the counters are rebuilt.
LEMMA ResumeStores ==
  ASSUME TypeInv, Stored, Resume \/ ApprovedReturns
  PROVE  QuietlyGrown /\ (Continue(ckpt') \/ status' = "paused"
                            \/ AcceptBestEffort
                            \/ \E act \in Tools : Approve(act))
<1>0. /\ trace \in Trace /\ ckpt \in Trace /\ trace.goal \in Claims
      /\ NoId \in Ids /\ "rejected" \in NonConsuming /\ "noBudget" \in NonConsuming
      /\ "responded" \in Results /\ NonConsuming \subseteq Results
  BY DEF TypeInv, TypeOK, Trace, Ids, NonConsuming, Results
<1>1. ASSUME NEW turn \in Quiet, Store(Decided(WithTurn(ckpt, turn))) PROVE QuietlyGrown
  <2>1. turn \in Turn
    BY DEF Quiet
  <2>2. /\ WithTurn(ckpt, turn) \in Trace
        /\ WithTurn(ckpt, turn).turns = Append(ckpt.turns, turn)
        /\ WithTurn(ckpt, turn).concluded = ckpt.concluded
    BY <1>0, <2>1, WithTurnFields
  <2> QED
    BY <1>1, <2>2, DecidedFields DEF Store, QuietlyGrown
<1>2. CASE Start
  BY <1>2 DEF Start, QuietlyGrown
<1>3. CASE PauseAgain
  BY <1>3 DEF PauseAgain, End, QuietlyGrown
<1>4. CASE AcceptBestEffort
  BY <1>0, <1>4, DecidedFields DEF AcceptBestEffort, Store, QuietlyGrown
<1>5. CASE Guide
  <2>1. Continue(ckpt')
    BY <1>5 DEF Guide, Store
  <2> QED
    BY <1>1, <1>5, <2>1, QuietTurns DEF Guide
<1>6. ASSUME NEW act \in Tools, Approve(act) PROVE QuietlyGrown
  BY <1>6 DEF Approve, QuietlyGrown
<1>7. ASSUME NEW act \in Tools, NEW result \in {"noBudget", "rejected", "responded"},
             Dispose(act, result)
      PROVE  QuietlyGrown /\ Continue(ckpt')
  <2>1. AsTurn(act, result, NoId) \in Quiet
    BY <1>0, QuietTurns
  <2> QED
    BY <1>1, <1>7, <2>1 DEF Dispose, Store
<1>8. CASE ApprovedReturns
  <2>1. PICK result \in ResultsOf(doing.act) \union {"vetoed"} :
          LET t == Decided([WithTurn(trace, AsTurn(doing.act, result,
                              EvidenceOf(doing.act, trace.goal))) EXCEPT !.tools = @ + 1])
          IN Store(t) /\ Continue(t)
    BY <1>8 DEF ApprovedReturns
  <2> DEFINE turn == AsTurn(doing.act, result, EvidenceOf(doing.act, trace.goal))
             u == WithTurn(trace, turn)  v == [u EXCEPT !.tools = @ + 1]
  <2>2. /\ doing.act \in Tools /\ result \in Results
        /\ EvidenceOf(doing.act, trace.goal) \in Ids /\ trace = ckpt
    BY <1>0, <1>8, ResultType, EvidenceType
    DEF ApprovedReturns, TypeInv, ActingTool, Stored, Results
  <2>3. turn \in Quiet /\ turn \in Turn
    BY <2>2, QuietTurns DEF Quiet
  <2>4. u \in Trace /\ u.turns = Append(ckpt.turns, turn) /\ u.concluded = ckpt.concluded
    BY <1>0, <2>2, <2>3, WithTurnFields
  <2>5. Store(Decided(v)) /\ Continue(Decided(v))
    BY <2>1
  <2> HIDE DEF u
  <2>6. v \in Trace /\ v.turns = u.turns /\ v.concluded = u.concluded
    BY <2>4 DEF Trace
  <2> HIDE DEF v
  <2> QED
    BY <2>3, <2>4, <2>5, <2>6, DecidedFields DEF Store, QuietlyGrown
<1> QED
  BY <1>2, <1>3, <1>4, <1>5, <1>6, <1>7, <1>8 DEF Resume, Start, PauseAgain, Guide, End

-----------------------------------------------------------------------------
(* The revision budget *)

\* The counters are in use: the agent thinks, or waits for a tool it called.
Counting == status = "thinking" \/ (status = "acting" /\ ~doing.approved)

\* The checkpoint's count covers no more than its conclusions, and its judged
\* conclusions are within the budget; a counter in use lies between them and is no
\* larger than what a resume would rebuild.
RevisionInv ==
  /\ ckpt.concluded <= Cardinality(Concludes(ckpt.turns))
  /\ MaxRevisions >= 0 => Cardinality(Attempts(ckpt.turns)) <= MaxRevisions + 1
  /\ Counting =>
       /\ Cardinality(Attempts(ckpt.turns)) <= revisions
       /\ revisions <= Cardinality(Concludes(ckpt.turns))
       /\ revisions <= RevisionsOf(ckpt)
       /\ MaxRevisions >= 0 => revisions <= MaxRevisions

LEMMA RevisionInit == Init => RevisionInv
<1> SUFFICES ASSUME Init PROVE RevisionInv
  OBVIOUS
<1>1. ckpt.turns = <<>> /\ ckpt.concluded = 0 /\ ~Counting
  BY DEF Init, Fresh, Counting
<1>2. Concludes(ckpt.turns) = {} /\ Attempts(ckpt.turns) = {}
  BY <1>1 DEF Concludes, Attempts
<1>3. /\ Cardinality(Concludes(ckpt.turns)) = 0
      /\ Cardinality(Attempts(ckpt.turns)) = 0
  BY <1>2, FS_EmptySet
<1> QED
  BY <1>1, <1>3, BudgetAssumption DEF RevisionInv

\* Quiet turns leave what RevisionInv says of the checkpoint as it was.
LEMMA QuietKeeps ==
  ASSUME TypeInv, TypeInv', QuietlyGrown
  PROVE  /\ Cardinality(Attempts(ckpt'.turns)) = Cardinality(Attempts(ckpt.turns))
         /\ Cardinality(Concludes(ckpt'.turns)) >= Cardinality(Concludes(ckpt.turns))
         /\ Cardinality(Calls(ckpt'.turns)) >= Cardinality(Calls(ckpt.turns))
         /\ ckpt'.concluded = ckpt.concluded
         /\ RevisionsOf(ckpt') = RevisionsOf(ckpt)
<1>1. ckpt.turns \in Seq(Turn) /\ ckpt'.turns \in Seq(Turn)
  BY DEF TypeInv, TypeOK, Trace
<1>2. /\ Cardinality(Attempts(ckpt.turns)) \in Nat
      /\ Cardinality(Concludes(ckpt.turns)) \in Nat
      /\ Cardinality(Calls(ckpt.turns)) \in Nat
  BY <1>1, TurnSetsFinite
<1>3. ASSUME NEW turn \in Quiet, ckpt'.turns = Append(ckpt.turns, turn)
      PROVE  /\ Cardinality(Attempts(ckpt'.turns)) = Cardinality(Attempts(ckpt.turns))
             /\ Cardinality(Concludes(ckpt'.turns)) >= Cardinality(Concludes(ckpt.turns))
             /\ Cardinality(Calls(ckpt'.turns)) >= Cardinality(Calls(ckpt.turns))
  <2>1. turn \in Turn /\ (turn.act = "conclude" => turn.result \in NonConsuming)
    BY DEF Quiet
  <2> QED
    BY <1>1, <1>2, <1>3, <2>1, TurnAdds
<1>4. /\ Cardinality(Attempts(ckpt'.turns)) = Cardinality(Attempts(ckpt.turns))
      /\ Cardinality(Concludes(ckpt'.turns)) >= Cardinality(Concludes(ckpt.turns))
      /\ Cardinality(Calls(ckpt'.turns)) >= Cardinality(Calls(ckpt.turns))
  BY <1>2, <1>3 DEF QuietlyGrown
<1>5. ckpt'.concluded = ckpt.concluded
  BY DEF QuietlyGrown
<1> QED
  BY <1>4, <1>5 DEF RevisionsOf

LEMMA RevisionStep ==
  TypeInv /\ TypeInv' /\ Stored /\ RevisionInv /\ [Next]_vars => RevisionInv'
<1> SUFFICES ASSUME TypeInv, TypeInv', Stored, RevisionInv, [Next]_vars
             PROVE  RevisionInv'
  OBVIOUS
<1> DEFINE Judged(t) == Cardinality(Attempts(t.turns))
           Made(t) == Cardinality(Concludes(t.turns))
<1>0. /\ ckpt \in Trace /\ ckpt' \in Trace /\ MaxRevisions \in Int
      /\ revisions \in Nat /\ revisions' \in Nat
      /\ ckpt.concluded \in Nat /\ ckpt'.concluded \in Nat
  BY BudgetAssumption DEF TypeInv, TypeOK, Trace
<1>1. /\ Judged(ckpt) \in Nat /\ Made(ckpt) \in Nat /\ Judged(ckpt) <= Made(ckpt)
      /\ Judged(ckpt') \in Nat /\ Made(ckpt') \in Nat /\ Judged(ckpt') <= Made(ckpt')
  BY <1>0, TurnSetsFinite DEF Trace
<1>2. /\ ckpt.concluded <= Made(ckpt)
      /\ MaxRevisions >= 0 => Judged(ckpt) <= MaxRevisions + 1
      /\ Counting => /\ Judged(ckpt) <= revisions /\ revisions <= Made(ckpt)
                     /\ revisions <= RevisionsOf(ckpt)
                     /\ MaxRevisions >= 0 => revisions <= MaxRevisions
  BY DEF RevisionInv
<1>3. /\ RevisionsOf(ckpt') = Larger(Judged(ckpt'), ckpt'.concluded)
      /\ RevisionsOf(ckpt) = Larger(Judged(ckpt), ckpt.concluded)
      /\ RevisionsOf(ckpt') \in Nat /\ RevisionsOf(ckpt) \in Nat
  BY <1>0, RebuiltType DEF RevisionsOf
<1>4. RevisionInv' <=>
        /\ ckpt'.concluded <= Made(ckpt')
        /\ MaxRevisions >= 0 => Judged(ckpt') <= MaxRevisions + 1
        /\ Counting' => /\ Judged(ckpt') <= revisions' /\ revisions' <= Made(ckpt')
                        /\ revisions' <= RevisionsOf(ckpt')
                        /\ MaxRevisions >= 0 => revisions' <= MaxRevisions
  BY DEF RevisionInv
<1>5. QuietlyGrown => /\ Judged(ckpt') = Judged(ckpt) /\ Made(ckpt') >= Made(ckpt)
                      /\ ckpt'.concluded = ckpt.concluded
                      /\ RevisionsOf(ckpt') = RevisionsOf(ckpt)
  BY QuietKeeps
<1>6. UNCHANGED ckpt => QuietlyGrown
  BY DEF QuietlyGrown
<1> HIDE DEF Judged, Made
<1>7. ASSUME QuietlyGrown, Counting' => Counting /\ UNCHANGED revisions PROVE RevisionInv'
  BY <1>0, <1>1, <1>2, <1>3, <1>4, <1>5, <1>7
<1>8. ASSUME QuietlyGrown, Continue(ckpt') PROVE RevisionInv'
  <2>1. revisions' = RevisionsOf(ckpt')
        /\ (Counting' => ~(MaxRevisions >= 0 /\ RevisionsOf(ckpt') > MaxRevisions))
    BY <1>8 DEF Continue, Counting, Exhausted
  <2>2. Judged(ckpt') <= RevisionsOf(ckpt') /\ RevisionsOf(ckpt') <= Made(ckpt')
    BY <1>0, <1>1, <1>2, <1>3, <1>5, <1>8 DEF Larger
  <2> QED
    BY <1>0, <1>1, <1>2, <1>3, <1>4, <1>5, <1>8, <2>1, <2>2
<1>9. ASSUME \/ \E act \in Acts : Invalid(act) \/ RepeatStopped(act)
             \/ \E goal \in Claims : Think(goal)
             \/ \E act \in Tools : OverBudget(act) \/ Veto(act)
             \/ ToolReturns
             \/ \E id \in Ids : ConcludeMissing(id)
      PROVE  RevisionInv'
  <2>1. QuietlyGrown /\ UNCHANGED revisions
    BY <1>9, LoopStores
  <2>2. Counting
    BY <1>9 DEF Counting, Invalid, RepeatStopped, Think, OverBudget, Veto, ToolReturns,
                ConcludeMissing, HasStep
  <2> QED
    BY <1>7, <2>1, <2>2
<1>10. CASE Resume \/ ApprovedReturns
  <2>1. QuietlyGrown /\ (Continue(ckpt') \/ status' = "paused" \/ AcceptBestEffort
                           \/ \E act \in Tools : Approve(act))
    BY <1>10, ResumeStores
  <2>2. Continue(ckpt') \/ ~Counting'
    BY <2>1 DEF Counting, AcceptBestEffort, End, Approve
  <2> QED
    BY <1>7, <1>8, <2>1, <2>2
<1>11. ASSUME NEW act \in Tools, AskApproval(act) PROVE RevisionInv'
  <2>1. QuietlyGrown /\ ~Counting'
    BY <1>11 DEF AskApproval, HasStep, Stored, Store, End, Counting, QuietlyGrown,
                 TypeInv, TypeOK, Trace
  <2> QED
    BY <1>7, <2>1
<1>12. ASSUME NEW act \in Tools, CallTool(act) PROVE RevisionInv'
  <2>1. UNCHANGED ckpt /\ UNCHANGED revisions /\ Counting
    BY <1>12 DEF CallTool, HasStep, Counting
  <2> QED
    BY <1>6, <1>7, <2>1
<1>13. CASE GenerationCut \/ Synthesize \/ Crash
  <2>1. UNCHANGED ckpt /\ ~Counting'
    BY <1>13 DEF GenerationCut, Synthesize, HasStep, Crash, End, Counting
  <2> QED
    BY <1>6, <1>7, <2>1
<1>14. ASSUME HasStep, ckpt'.turns = Concluded.turns, ckpt'.concluded = Concluded.concluded,
              Counting' => /\ MaxRevisions >= 0 => revisions < MaxRevisions
                           /\ revisions' = revisions + 1
       PROVE  RevisionInv'
  <2> DEFINE last == AsTurn("conclude", "done", NoId)
  <2>1. Counting /\ ckpt = trace
    BY <1>14 DEF HasStep, Counting, Stored
  <2>2. last \in Turn /\ last.act = "conclude" /\ last.result \notin NonConsuming
    BY DEF AsTurn, Turn, Acts, Results, Ids, NonConsuming
  <2>3. ckpt'.turns = Append(ckpt.turns, last)
        /\ ckpt'.concluded = Larger(revisions, Cardinality(Concludes(ckpt'.turns)))
    BY <1>14, <2>1, ConcludedFields DEF TypeInv
  <2>4. Judged(ckpt') = Judged(ckpt) + 1 /\ Made(ckpt') = Made(ckpt) + 1
        /\ ckpt'.concluded = Larger(revisions, Made(ckpt'))
    <3>1. ckpt.turns \in Seq(Turn)
      BY <1>0 DEF Trace
    <3>2. /\ Cardinality(Attempts(Append(ckpt.turns, last)))
               = Cardinality(Attempts(ckpt.turns)) + 1
          /\ Cardinality(Concludes(Append(ckpt.turns, last)))
               = Cardinality(Concludes(ckpt.turns)) + 1
      BY <2>2, <3>1, TurnAdds
    <3> QED
      BY <2>3, <3>2 DEF Judged, Made
  <2>5. ckpt'.concluded = Made(ckpt') /\ RevisionsOf(ckpt') = Made(ckpt')
    BY <1>0, <1>1, <1>2, <1>3, <2>1, <2>4 DEF Larger
  <2> QED
    BY <1>0, <1>1, <1>2, <1>4, <1>14, <2>1, <2>4, <2>5
<1>15. ASSUME NEW id \in Ids, ConcludeLate(id) PROVE RevisionInv'
  BY <1>14, <1>15 DEF ConcludeLate, Store, End, Counting
<1>16. ASSUME NEW id \in Ids, NEW vote \in Votes, Conclude(id, vote) PROVE RevisionInv'
  <2>1. HasStep
    BY <1>16 DEF Conclude
  <2>2. Concluded \in Trace
    BY ConcludedType DEF TypeInv
  <2>3. ASSUME NEW kind, NEW outcome \in {"blocked", "best_effort"},
               AskReviewer(kind, Concluded, outcome)
        PROVE  RevisionInv'
    <3>1. ckpt'.turns = Concluded.turns /\ ckpt'.concluded = Concluded.concluded
      BY <2>2, <2>3 DEF AskReviewer, Store, Trace
    <3>2. ~Counting'
      BY <2>3 DEF AskReviewer, End, Counting
    <3> QED
      BY <1>14, <2>1, <3>1, <3>2
  <2>4. CASE Store(Concluded) /\ End(PassedOutcome(vote))
    <3>1. ~Counting'
      BY <2>4 DEF End, PassedOutcome, Counting
    <3> QED
      BY <1>14, <2>1, <2>4, <3>1 DEF Store
  <2>5. CASE /\ ~(MaxRevisions >= 0 /\ revisions >= MaxRevisions)
             /\ Store(Concluded) /\ revisions' = revisions + 1
    BY <1>0, <1>14, <2>1, <2>5 DEF Store
  <2> QED
    BY <1>16, <2>3, <2>4, <2>5 DEF Conclude
<1>17. CASE UNCHANGED vars
  <2>1. UNCHANGED ckpt /\ UNCHANGED revisions /\ (Counting' <=> Counting)
    BY <1>17 DEF vars, Counting
  <2> QED
    BY <1>6, <1>7, <2>1
<1> QED
  BY <1>9, <1>10, <1>11, <1>12, <1>13, <1>15, <1>16, <1>17 DEF Next, Step

\* max_conclusion_revisions bounds the conclusions that are judged, over all resumes.
THEOREM RevisionsAreBounded == Spec => []RevisionBound
<1>1. TypeInv /\ Stored /\ RevisionInv => RevisionBound
  <2>1. TypeInv /\ Stored => trace.turns = ckpt.turns
    BY DEF Stored, TypeInv, TypeOK, Trace
  <2> QED
    BY <2>1 DEF RevisionInv, RevisionBound
<1>2. Spec => []RevisionInv
  BY AlwaysStored, RevisionInit, RevisionStep, PTL DEF Spec
<1> QED
  BY <1>1, <1>2, AlwaysStored, PTL

-----------------------------------------------------------------------------
(* The tool budget *)

\* Every tool that was started is charged to the checkpoint, to the running counter,
\* or to the one call a lost solve may take with it; the thinking agent's counter is
\* no larger than what a resume would rebuild.
BudgetInv ==
  /\ ran <= MaxTools + crashes
  /\ status # "acting" => ran <= ckpt.tools + crashes
  /\ status = "acting" => ran <= ckpt.tools + 1 + crashes
  /\ status = "acting" /\ ~doing.approved => ran <= toolCalls + crashes
  /\ status = "thinking" => ckpt.tools <= toolCalls /\ toolCalls <= ToolCallsOf(ckpt)

LEMMA BudgetInit == Init => BudgetInv
  BY BudgetAssumption DEF Init, Fresh, BudgetInv

\* The charge that each turn leaves in the checkpoint.
LEMMA ChargesStored ==
  ASSUME TypeInv, Stored
  PROVE  /\ \A act \in Acts : Invalid(act) \/ RepeatStopped(act) => ckpt'.tools = ckpt.tools
         /\ \A goal \in Claims : Think(goal) => ckpt'.tools = ckpt.tools
         /\ \A act \in Tools : OverBudget(act) \/ Veto(act) => ckpt'.tools = toolCalls
         /\ ToolReturns => ckpt'.tools = toolCalls
         /\ \A id \in Ids : ConcludeMissing(id) => ckpt'.tools = ckpt.tools
         /\ ApprovedReturns => ckpt'.tools = ckpt.tools + 1
<1>0. /\ trace \in Trace /\ ckpt \in Trace /\ trace.goal \in Claims
      /\ toolCalls \in Nat /\ ckpt.tools \in Nat
      /\ "invalid" \in NonConsuming /\ "missing" \in NonConsuming
      /\ "noBudget" \in NonConsuming /\ "vetoed" \in NonConsuming
      /\ NonConsuming \subseteq Results /\ "done" \in Results /\ NoId \in Ids
      /\ "conclude" \in Acts /\ "think" \in Acts /\ Tools \subseteq Acts
  BY DEF TypeInv, TypeOK, Trace, Ids, NonConsuming, Results, Acts
<1>1. ASSUME NEW act \in Acts, NEW result \in Results, NEW id \in Ids
      PROVE  LET u == WithTurn(trace, AsTurn(act, result, id))
             IN u \in Trace /\ u.tools = trace.tools
  BY <1>0, TurnType, WithTurnFields
<1>2. \A act \in Acts : Invalid(act) \/ RepeatStopped(act) => ckpt'.tools = ckpt.tools
  BY <1>0, <1>1 DEF Invalid, RepeatStopped, HasStep, Stored, Store
<1>3. ASSUME NEW goal \in Claims, Think(goal) PROVE ckpt'.tools = ckpt.tools
  <2> DEFINE u == WithTurn(trace, AsTurn("think", "done", NoId))
  <2>1. u \in Trace /\ u.tools = trace.tools
    BY <1>0, <1>1
  <2>2. ckpt' = [u EXCEPT !.goal = goal] /\ trace = ckpt
    BY <1>3 DEF Think, Store, HasStep, Stored
  <2> QED
    BY <2>1, <2>2 DEF Trace
<1>4. ASSUME NEW act \in Tools, OverBudget(act) \/ Veto(act) PROVE ckpt'.tools = toolCalls
  <2>1. PICK result \in NonConsuming, id \in Ids :
          ckpt' = [WithTurn(trace, AsTurn(act, result, id)) EXCEPT !.tools = toolCalls]
    BY <1>0, <1>4, EvidenceType DEF OverBudget, Veto, Store
  <2>2. WithTurn(trace, AsTurn(act, result, id)) \in Trace
    BY <1>0, <1>1
  <2> QED
    BY <2>1, <2>2 DEF Trace
<1>5. ASSUME ToolReturns PROVE ckpt'.tools = toolCalls
  <2>1. PICK result \in ResultsOf(doing.act) :
          ckpt' = WithTurn(trace, AsTurn(doing.act, result, EvidenceOf(doing.act, trace.goal)))
    BY <1>5, AnswersAreResults DEF ToolReturns, Store
  <2>2. doing.act \in Acts /\ result \in Results /\ EvidenceOf(doing.act, trace.goal) \in Ids
    BY <1>0, <1>5, ResultType, EvidenceType DEF ToolReturns, TypeInv, ActingTool
  <2>3. trace = [ckpt EXCEPT !.tools = toolCalls]
    BY <1>5 DEF ToolReturns, Stored
  <2>4. trace.tools = toolCalls
    BY <1>0, <2>3 DEF Trace
  <2> QED
    BY <1>1, <2>1, <2>2, <2>4
<1>6. ASSUME NEW id \in Ids, ConcludeMissing(id) PROVE ckpt'.tools = ckpt.tools
  BY <1>0, <1>1, <1>6 DEF ConcludeMissing, HasStep, Stored, Store
<1>7. ASSUME ApprovedReturns PROVE ckpt'.tools = ckpt.tools + 1
  <2>1. PICK result \in ResultsOf(doing.act) \union {"vetoed"} :
          ckpt' = Decided([WithTurn(trace, AsTurn(doing.act, result,
                             EvidenceOf(doing.act, trace.goal))) EXCEPT !.tools = @ + 1])
    BY <1>7 DEF ApprovedReturns, Store
  <2> DEFINE u == WithTurn(trace, AsTurn(doing.act, result, EvidenceOf(doing.act, trace.goal)))
             v == [u EXCEPT !.tools = @ + 1]
  <2>2. /\ doing.act \in Acts /\ result \in Results /\ trace = ckpt
        /\ EvidenceOf(doing.act, trace.goal) \in Ids
    BY <1>0, <1>7, ResultType, EvidenceType
    DEF ApprovedReturns, TypeInv, ActingTool, Stored
  <2>3. u \in Trace /\ u.tools = ckpt.tools
    BY <1>1, <2>2
  <2>4. ckpt' = Decided(v)
    BY <2>1
  <2> HIDE DEF u
  <2>5. v \in Trace /\ v.tools = ckpt.tools + 1
    <3>1. u.tools + 1 \in Nat /\ u.tools + 1 = ckpt.tools + 1
      BY <1>0, <2>3
    <3>2. [u EXCEPT !.tools = @ + 1] \in Trace
      BY <2>3, <3>1 DEF Trace
    <3>3. [u EXCEPT !.tools = @ + 1].tools = u.tools + 1
      BY <2>3 DEF Trace
    <3> QED
      BY <3>1, <3>2, <3>3
  <2> HIDE DEF v
  <2> QED
    BY <2>4, <2>5, DecidedFields
<1> QED
  BY <1>2, <1>3, <1>4, <1>5, <1>6, <1>7

LEMMA BudgetStep ==
  TypeInv /\ TypeInv' /\ Stored /\ BudgetInv /\ [Next]_vars => BudgetInv'
<1> SUFFICES ASSUME TypeInv, TypeInv', Stored, BudgetInv, [Next]_vars PROVE BudgetInv'
  OBVIOUS
<1>0. /\ ckpt \in Trace /\ ckpt' \in Trace /\ trace \in Trace
      /\ ckpt.tools \in Nat /\ ckpt'.tools \in Nat /\ toolCalls \in Nat
      /\ toolCalls' \in Nat /\ ran \in Nat /\ crashes \in Nat /\ MaxTools \in Nat
      /\ ToolCallsOf(ckpt) \in Nat /\ ToolCallsOf(ckpt') \in Nat
  BY BudgetAssumption, RebuiltType DEF TypeInv, TypeOK, Trace
<1>1. /\ ckpt.tools <= ToolCallsOf(ckpt) /\ ckpt'.tools <= ToolCallsOf(ckpt')
      /\ Cardinality(Calls(ckpt'.turns)) <= ToolCallsOf(ckpt')
  <2>1. Cardinality(Calls(ckpt.turns)) \in Nat /\ Cardinality(Calls(ckpt'.turns)) \in Nat
    BY <1>0, TurnSetsFinite DEF Trace
  <2> QED
    BY <1>0, <2>1 DEF ToolCallsOf, Larger
\* The rebuilt counter never shrinks: neither its calls nor its charge do.
<1>2. ASSUME QuietlyGrown, ckpt'.tools >= ckpt.tools
      PROVE  ToolCallsOf(ckpt') >= ToolCallsOf(ckpt)
  <2>1. Cardinality(Calls(ckpt'.turns)) >= Cardinality(Calls(ckpt.turns))
    BY <1>2, QuietKeeps
  <2>2. Cardinality(Calls(ckpt.turns)) \in Nat /\ Cardinality(Calls(ckpt'.turns)) \in Nat
    BY <1>0, TurnSetsFinite DEF Trace
  <2> QED
    BY <1>0, <1>2, <2>1, <2>2 DEF ToolCallsOf, Larger
\* A turn of the thinking agent that is not a tool's.
<1>3. ASSUME status = "thinking", ckpt'.tools = ckpt.tools, status' # "acting",
             ToolCallsOf(ckpt') >= ToolCallsOf(ckpt), UNCHANGED <<toolCalls, ran, crashes>>
      PROVE  BudgetInv'
  BY <1>0, <1>3 DEF BudgetInv
<1>4. ASSUME status # "acting", ckpt'.tools >= ckpt.tools, status' \notin {"acting", "thinking"},
             UNCHANGED <<ran, crashes>>
      PROVE  BudgetInv'
  <2>1. ran <= MaxTools + crashes /\ ran <= ckpt.tools + crashes
    BY <1>4 DEF BudgetInv
  <2>2. ran' <= MaxTools + crashes' /\ ran' <= ckpt'.tools + crashes'
    BY <1>0, <1>4, <2>1
  <2> QED
    BY <1>4, <2>2 DEF BudgetInv
<1>5. ASSUME ran <= ckpt'.tools + crashes, Continue(ckpt'), UNCHANGED <<ran, crashes>>
      PROVE  BudgetInv'
  BY <1>0, <1>1, <1>5 DEF BudgetInv, Continue
<1>6. ASSUME NEW act \in Acts, Invalid(act) \/ RepeatStopped(act) PROVE BudgetInv'
  <2>1. QuietlyGrown /\ ckpt'.tools = ckpt.tools
    BY <1>6, LoopStores, ChargesStored
  <2> QED
    BY <1>0, <1>2, <1>3, <1>6, <2>1 DEF Invalid, RepeatStopped, HasStep, End
<1>7. ASSUME NEW goal \in Claims, Think(goal) PROVE BudgetInv'
  <2>1. QuietlyGrown /\ ckpt'.tools = ckpt.tools
    BY <1>7, LoopStores, ChargesStored
  <2> QED
    BY <1>0, <1>2, <1>3, <1>7, <2>1 DEF Think, HasStep
<1>8. ASSUME NEW act \in Tools, AskApproval(act) PROVE BudgetInv'
  <2>1. ckpt'.tools = ckpt.tools
    BY <1>0, <1>8 DEF AskApproval, HasStep, Stored, Store, Trace
  <2> QED
    BY <1>0, <1>4, <1>8, <2>1 DEF AskApproval, HasStep, End
<1>9. ASSUME NEW act \in Tools, OverBudget(act) \/ Veto(act) PROVE BudgetInv'
  <2>1. ckpt'.tools = toolCalls /\ ckpt.tools <= toolCalls /\ status = "thinking"
    BY <1>9, ChargesStored DEF BudgetInv, OverBudget, Veto, HasStep
  <2> QED
    BY <1>0, <1>1, <1>9, <2>1 DEF OverBudget, Veto, End, BudgetInv
<1>10. ASSUME NEW act \in Tools, CallTool(act) PROVE BudgetInv'
  <2>1. /\ status = "thinking" /\ status' = "acting" /\ toolCalls < MaxTools
        /\ toolCalls' = toolCalls + 1 /\ ran' = ran + 1 /\ UNCHANGED <<ckpt, crashes>>
    BY <1>10 DEF CallTool, HasStep
  <2> QED
    BY <1>0, <2>1 DEF BudgetInv
<1>11. CASE ToolReturns
  <2>1. ckpt'.tools = toolCalls /\ ran <= toolCalls + crashes
    BY <1>11, ChargesStored DEF ToolReturns, BudgetInv
  <2>2. UNCHANGED <<toolCalls, ran, crashes>> /\ status' # "acting"
    BY <1>11 DEF ToolReturns
  <2> QED
    BY <1>0, <1>1, <2>1, <2>2 DEF BudgetInv
<1>12. CASE ApprovedReturns
  <2>1. ckpt'.tools = ckpt.tools + 1 /\ ran <= ckpt.tools + 1 + crashes
    BY <1>12, ChargesStored DEF ApprovedReturns, BudgetInv
  <2>2. Continue(ckpt') /\ UNCHANGED <<ran, crashes>>
    BY <1>12 DEF ApprovedReturns, Store
  <2> QED
    BY <1>5, <2>1, <2>2
<1>13. CASE GenerationCut \/ Synthesize
  BY <1>0, <1>4, <1>13 DEF GenerationCut, Synthesize, HasStep, End
<1>14. ASSUME NEW id \in Ids, ConcludeMissing(id) PROVE BudgetInv'
  <2>1. QuietlyGrown /\ ckpt'.tools = ckpt.tools
    BY <1>14, LoopStores, ChargesStored
  <2> QED
    BY <1>0, <1>2, <1>3, <1>14, <2>1 DEF ConcludeMissing, HasStep
\* A conclusion is stored, perhaps with a question to a person.
<1>15. ASSUME HasStep, ckpt'.turns = Concluded.turns, ckpt'.tools = Concluded.tools,
              status' # "acting", UNCHANGED <<toolCalls, ran, crashes>>
       PROVE  BudgetInv'
  <2>1. status = "thinking" /\ ckpt = trace
    BY <1>15 DEF HasStep, Stored
  <2> DEFINE last == AsTurn("conclude", "done", NoId)
  <2>2. ckpt'.tools = ckpt.tools /\ ckpt'.turns = Append(ckpt.turns, last)
    BY <1>15, <2>1, ConcludedFields DEF TypeInv
  <2>3. last \in Turn /\ last.act \notin Tools
    BY ToolIsNotASpecialAction DEF AsTurn, Turn, Acts, Results, Ids
  <2>4. ckpt.turns \in Seq(Turn) /\ Cardinality(Calls(ckpt.turns)) \in Nat
    BY <1>0, TurnSetsFinite DEF Trace
  <2>5. Cardinality(Calls(ckpt'.turns)) = Cardinality(Calls(ckpt.turns))
    BY <2>2, <2>3, <2>4, TurnAdds
  <2>6. ToolCallsOf(ckpt') = ToolCallsOf(ckpt)
    BY <2>2, <2>5 DEF ToolCallsOf
  <2> QED
    BY <1>0, <1>3, <1>15, <2>1, <2>2, <2>6
<1>16. ASSUME NEW id \in Ids, ConcludeLate(id) PROVE BudgetInv'
  BY <1>15, <1>16 DEF ConcludeLate, Store, End
<1>17. ASSUME NEW id \in Ids, NEW vote \in Votes, Conclude(id, vote) PROVE BudgetInv'
  <2>1. HasStep /\ UNCHANGED <<toolCalls, ran, crashes>> /\ status = "thinking"
    BY <1>17 DEF Conclude, HasStep
  <2>2. Concluded \in Trace
    BY ConcludedType DEF TypeInv
  <2>3. ASSUME NEW kind, NEW outcome \in {"blocked", "best_effort"},
               AskReviewer(kind, Concluded, outcome)
        PROVE  BudgetInv'
    <3>1. ckpt'.turns = Concluded.turns /\ ckpt'.tools = Concluded.tools
      BY <2>2, <2>3 DEF AskReviewer, Store, Trace
    <3>2. status' # "acting"
      BY <2>3 DEF AskReviewer, End
    <3> QED
      BY <1>15, <2>1, <3>1, <3>2
  <2>4. CASE Store(Concluded) /\ (End(PassedOutcome(vote)) \/ UNCHANGED status)
    <3>1. status' # "acting"
      BY <2>1, <2>4 DEF End, PassedOutcome
    <3> QED
      BY <1>15, <2>1, <2>4, <3>1 DEF Store
  <2> QED
    BY <1>17, <2>3, <2>4 DEF Conclude
<1>18. CASE Start
  BY <1>5, <1>18 DEF Start, AtRest, Running, BudgetInv
<1>19. CASE PauseAgain
  BY <1>0, <1>4, <1>19 DEF PauseAgain, AtRest, Running, End
<1>20. ASSUME NEW act \in Tools, Approve(act) PROVE BudgetInv'
  <2>1. /\ status # "acting" /\ status' = "acting" /\ doing'.approved
        /\ ckpt.tools < MaxTools /\ ran' = ran + 1 /\ UNCHANGED <<ckpt, crashes>>
    BY <1>20 DEF Approve, AtRest, Running
  <2> QED
    BY <1>0, <2>1 DEF BudgetInv
<1>21. ASSUME NEW act \in Tools, NEW result \in {"noBudget", "rejected", "responded"},
              Dispose(act, result)
       PROVE  BudgetInv'
  <2>1. ckpt'.tools = ckpt.tools
    <3>1. AsTurn(act, result, NoId) \in Turn
      BY TurnType DEF Acts, Results, Ids
    <3>2. ckpt' = Decided(WithTurn(ckpt, AsTurn(act, result, NoId)))
      BY <1>21 DEF Dispose, Store
    <3> QED
      BY <1>0, <3>1, <3>2, WithTurnFields, DecidedFields
  <2>2. Continue(ckpt') /\ UNCHANGED <<ran, crashes>> /\ status # "acting"
    BY <1>21 DEF Dispose, Store, AtRest, Running
  <2> QED
    BY <1>5, <2>1, <2>2 DEF BudgetInv
<1>22. CASE AcceptBestEffort
  <2>1. ckpt'.tools = ckpt.tools
    BY <1>0, <1>22, DecidedFields DEF AcceptBestEffort, Store
  <2> QED
    BY <1>0, <1>4, <1>22, <2>1 DEF AcceptBestEffort, AtRest, Running, End
<1>23. CASE Guide
  <2>1. ckpt'.tools = ckpt.tools
    <3>1. AsTurn("think", "done", NoId) \in Turn
      BY TurnType DEF Acts, Results, Ids
    <3>2. ckpt' = Decided(WithTurn(ckpt, AsTurn("think", "done", NoId)))
      BY <1>23 DEF Guide, Store
    <3> QED
      BY <1>0, <3>1, <3>2, WithTurnFields, DecidedFields
  <2>2. Continue(ckpt') /\ UNCHANGED <<ran, crashes>> /\ status # "acting"
    BY <1>23 DEF Guide, Store, AtRest, Running
  <2> QED
    BY <1>5, <2>1, <2>2 DEF BudgetInv
<1>24. CASE Crash
  <2>1. status' = "stopped" /\ crashes' = crashes + 1 /\ UNCHANGED <<ckpt, ran>>
    BY <1>24 DEF Crash
  <2> QED
    BY <1>0, <2>1 DEF BudgetInv
<1>25. CASE UNCHANGED vars
  BY <1>25 DEF vars, BudgetInv
<1> QED
  BY <1>6, <1>7, <1>8, <1>9, <1>10, <1>11, <1>12, <1>13, <1>14, <1>16, <1>17, <1>18,
     <1>19, <1>20, <1>21, <1>22, <1>23, <1>24, <1>25 DEF Next, Step, Resume

\* max_tool_calls bounds the tools that are started over all resumes: only a call
\* that was lost with its solve may be repeated.
THEOREM ToolBudgetIsKept == Spec => []ToolBudgetHolds
<1>1. BudgetInv => ToolBudgetHolds
  BY DEF BudgetInv, ToolBudgetHolds
<1> QED
  BY <1>1, AlwaysStored, BudgetInit, BudgetStep, PTL DEF Spec

\* A thinking agent that is lost gets no budget back.
THEOREM LostSolvesRegainNothing == Spec => []CountersSurvive
<1>1. TypeInv /\ RevisionInv /\ BudgetInv => CountersSurvive
  <2> SUFFICES ASSUME TypeInv, RevisionInv, BudgetInv, status = "thinking"
               PROVE  RevisionsOf(ckpt) >= revisions /\ ToolCallsOf(ckpt) >= toolCalls
    BY DEF CountersSurvive
  <2>1. ckpt \in Trace /\ revisions \in Nat /\ toolCalls \in Nat
    BY DEF TypeInv, TypeOK
  <2>2. revisions <= RevisionsOf(ckpt) /\ toolCalls <= ToolCallsOf(ckpt)
    BY DEF RevisionInv, BudgetInv, Counting
  <2> QED
    BY <2>1, <2>2, RebuiltType
<1> QED
  BY <1>1, AlwaysStored, RevisionInit, RevisionStep, BudgetInit, BudgetStep, PTL DEF Spec
=============================================================================
