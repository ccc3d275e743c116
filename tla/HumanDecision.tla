---------------------------- MODULE HumanDecision ----------------------------
(***************************************************************************)
(* What the human-in-the-loop protocol promises about one kind of thing: a *)
(* request for a decision on a pending action.  A request is raised, then  *)
(* decided at most once, by a person or by the auto-resolve timer, and the *)
(* pending action runs only after an approving decision.  The execution    *)
(* itself is at-least-once: a restart between the action and the next      *)
(* checkpoint runs it again.  SolveSession is shown to implement this      *)
(* specification.                                                          *)
(***************************************************************************)
EXTENDS Naturals

CONSTANTS Requests, Verdicts, NoVerdict

VARIABLES
  raised,    \* requests that have been put to the user
  claims,    \* claims[r]: how many decisions for r were accepted
  verdict,   \* verdict[r]: the last accepted decision
  executed   \* requests whose pending action ran

decisionVars == <<raised, claims, verdict, executed>>

Init ==
  /\ raised = {}
  /\ claims = [r \in Requests |-> 0]
  /\ verdict = [r \in Requests |-> NoVerdict]
  /\ executed = {}

Raise(r) ==
  /\ r \notin raised
  /\ raised' = raised \union {r}
  /\ UNCHANGED <<claims, verdict, executed>>

Claim(r, v) ==
  /\ r \in raised
  /\ claims[r] = 0
  /\ claims' = [claims EXCEPT ![r] = 1]
  /\ verdict' = [verdict EXCEPT ![r] = v]
  /\ UNCHANGED <<raised, executed>>

Execute(r) ==
  /\ verdict[r] = "approve"
  /\ executed' = executed \union {r}
  /\ UNCHANGED <<raised, claims, verdict>>

Next ==
  \E r \in Requests :
    \/ Raise(r)
    \/ \E v \in Verdicts : Claim(r, v)
    \/ Execute(r)

Spec == Init /\ [][Next]_decisionVars
=============================================================================
