------------------------------- MODULE Quota -------------------------------
(***************************************************************************)
(* What one user's solves cost: the check of the daily quota before a      *)
(* stream (_quota_lock and _check_solve_quota in web/agent_factory.py),    *)
(* the tokens an agent counts while it works (llm/tracking.py), and the    *)
(* record that the transport writes when it ends (_record_usage and        *)
(* billing/usage_store.py).  The user may bind or remove a key of their    *)
(* own meanwhile (web/billing_routes.py); solves on that key are free.     *)
(*                                                                         *)
(* The check reads the record and the record is written only at the end,   *)
(* so solves overlap with each other's checks.  A solve also works on      *)
(* after its transport, is resumed without one, or dies with the process.  *)
(* Prices, encryption and the reports are left out.                        *)
(***************************************************************************)
EXTENDS Naturals, FiniteSets

CONSTANTS
  Solves,     \* slots for the user's concurrent requests
  Limit,      \* free_tokens_per_day
  Amounts,    \* what one call of the model may cost
  MaxTokens,  \* bound: tokens of one solve
  MaxStarts,  \* bound: solves ever begun
  MaxDays,    \* bound: days
  Exempt,     \* the quota is disabled, or unlimited for this user
  None

ASSUME BoundsAssumption ==
  /\ {Limit, MaxTokens, MaxStarts} \subseteq Nat /\ Amounts \subseteq Nat /\ MaxDays \in Nat \ {0}
ASSUME SolvesAssumption == IsFiniteSet(Solves)
ASSUME FlagAssumption == Exempt \in BOOLEAN /\ None \notin Solves

VARIABLES
  day,
  own,        \* a key of the user's own is stored
  holder,     \* the request that holds the quota lock
  solve,      \* slot -> where it is, whose key pays, what its accumulator holds
  daily,      \* conjecta_usage_daily: the platform's tokens recorded per day
  spent,      \* history: what the platform's key paid for
  lost,       \* history: what of it no record will ever show
  starts

vars == <<day, own, holder, solve, daily, spent, lost, starts>>

Days == 1 .. MaxDays
Phases == {"idle", "waiting", "key", "usage", "admitted", "running", "ending", "writing",
           "after", "headless"}
\* used is the accumulator's total, bill the part of it that is about to be recorded.
Idle == [phase |-> "idle", own |-> FALSE, used |-> 0, bill |-> 0]

Init == /\ day = 1 /\ own \in BOOLEAN /\ holder = None
        /\ solve = [s \in Solves |-> Idle]
        /\ daily = [d \in Days |-> 0]
        /\ spent = 0 /\ lost = 0 /\ starts = 0

\* The sum of the values of f, naturals: the number of pairs of an argument and a unit of it.
Units(f) == UNION {{x} \X (1 .. f[x]) : x \in DOMAIN f}
SumOf(f) == Cardinality(Units(f))

At(s, p) == solve[s].phase = p
Goes(s, p) == solve' = [solve EXCEPT ![s].phase = p]
Leaves(s) == solve' = [solve EXCEPT ![s] = Idle]
OnPlatform(s, n) == IF solve[s].own THEN 0 ELSE n

-----------------------------------------------------------------------------
(* The check, under the user's lock *)

\* A solve, a person's decision or a goal action is posted.
Request(s) ==
  /\ At(s, "idle") /\ starts < MaxStarts
  /\ Goes(s, "waiting") /\ starts' = starts + 1
  /\ UNCHANGED <<day, own, holder, daily, spent, lost>>

Lock(s) ==
  /\ At(s, "waiting") /\ holder = None
  /\ Goes(s, "key") /\ holder' = s
  /\ UNCHANGED <<day, own, daily, spent, lost, starts>>

\* _load_user_api_key.  With a key, or without a quota, nothing else is read.
LoadKey(s) ==
  /\ At(s, "key")
  /\ LET free == own \/ Exempt IN
       /\ solve' = [solve EXCEPT ![s].own = own, ![s].phase = IF free THEN "admitted" ELSE "usage"]
       /\ holder' = IF free THEN None ELSE s
  /\ UNCHANGED <<day, own, daily, spent, lost, starts>>

\* Mutant: the last free token may be spent twice.
IsAllowedAtLimit(used) == used <= Limit
IsAllowed(used) == used < Limit

\* daily_usage of today: the stream begins, or 429.
ReadUsage(s) ==
  /\ At(s, "usage")
  /\ IF IsAllowed(daily[day]) THEN Goes(s, "admitted") ELSE Leaves(s)
  /\ holder' = None
  /\ UNCHANGED <<day, own, daily, spent, lost, starts>>

\* The database is unavailable (503), or the request is cancelled; the lock is given back.
CheckFails(s) ==
  /\ solve[s].phase \in {"waiting", "key", "usage"}
  /\ Leaves(s) /\ holder' = IF holder = s THEN None ELSE holder
  /\ UNCHANGED <<day, own, daily, spent, lost, starts>>

-----------------------------------------------------------------------------
(* The stream, the agent's work, and the record *)

\* The response is iterated, or the client is gone before it was.
Open(s) ==
  /\ At(s, "admitted")
  /\ Goes(s, "running") \/ Leaves(s)
  /\ UNCHANGED <<day, own, holder, daily, spent, lost, starts>>

\* What of a solve's tokens a record may still show.
Counting == {"running", "ending"}
Pending(s) == OnPlatform(s, IF solve[s].phase \in Counting THEN solve[s].used
                            ELSE IF At(s, "writing") THEN solve[s].bill ELSE 0)
AllPending == SumOf([s \in Solves |-> Pending(s)])

\* A call of the model.  The accumulator counts for the record until that is made.
Work(s) ==
  /\ solve[s].phase \in Counting \union {"writing", "after", "headless"}
  /\ \E n \in Amounts :
       /\ solve[s].used + n <= MaxTokens
       /\ solve' = [solve EXCEPT ![s].used = @ + n]
       /\ spent' = spent + OnPlatform(s, n)
       /\ lost' = IF solve[s].phase \in Counting THEN lost ELSE lost + OnPlatform(s, n)
  /\ UNCHANGED <<day, own, holder, daily, starts>>

\* The events are exhausted, or the client leaves and the run goes on detached.
Close(s) ==
  /\ At(s, "running")
  /\ Goes(s, "ending")
  /\ UNCHANGED <<day, own, holder, daily, spent, lost, starts>>

\* _record_usage reads the accumulator; an empty one is not recorded.
ReadAccumulator(s) ==
  /\ At(s, "ending")
  /\ solve' = [solve EXCEPT ![s].bill = solve[s].used,
                            ![s].phase = IF solve[s].used = 0 THEN "after" ELSE "writing"]
  /\ UNCHANGED <<day, own, holder, daily, spent, lost, starts>>

\* Mutant: the source is the key that is stored now.
IsPlatformNow(s) == ~own
\* source: the key that was loaded at the check.
IsPlatform(s) == ~solve[s].own

\* increment_usage: the day is the database's, and only the platform's tokens are summed.
Record(s) ==
  /\ At(s, "writing")
  /\ daily' = IF IsPlatform(s) THEN [daily EXCEPT ![day] = @ + solve[s].bill] ELSE daily
  /\ Goes(s, "after")
  /\ UNCHANGED <<day, own, holder, spent, lost, starts>>

\* The write fails and is logged, or a cancellation cuts the transport's clean-up short.
RecordFails(s) ==
  /\ solve[s].phase \in {"ending", "writing"}
  /\ Goes(s, "after") /\ lost' = lost + Pending(s)
  /\ UNCHANGED <<day, own, holder, daily, spent, starts>>

\* What the transport left behind, a detached run or the post-solve work, is over.
Over(s) ==
  /\ solve[s].phase \in {"after", "headless"}
  /\ Leaves(s)
  /\ UNCHANGED <<day, own, holder, daily, spent, lost, starts>>

\* A timer resumes the run it was armed by, whose key and accumulator its context has;
\* the recovery scan resumes with neither.  Nobody checks the quota.
AutoResolve(s) ==
  /\ At(s, "after")
  /\ Goes(s, "headless")
  /\ UNCHANGED <<day, own, holder, daily, spent, lost, starts>>
Recover(s) ==
  /\ At(s, "idle") /\ starts < MaxStarts
  /\ Goes(s, "headless") /\ starts' = starts + 1
  /\ UNCHANGED <<day, own, holder, daily, spent, lost>>

-----------------------------------------------------------------------------
\* POST and DELETE /me/api-key.
SetKey == own' = ~own /\ UNCHANGED <<day, holder, solve, daily, spent, lost, starts>>

Midnight == /\ day < MaxDays /\ day' = day + 1
            /\ UNCHANGED <<own, holder, solve, daily, spent, lost, starts>>

\* The process dies with every accumulator in it.
Restart ==
  /\ \E s \in Solves : ~At(s, "idle")
  /\ lost' = lost + AllPending
  /\ solve' = [s \in Solves |-> Idle] /\ holder' = None
  /\ UNCHANGED <<day, own, daily, spent, starts>>

Check(s) == Request(s) \/ Lock(s) \/ LoadKey(s) \/ ReadUsage(s) \/ CheckFails(s)
Stream(s) == Open(s) \/ Work(s) \/ Close(s) \/ ReadAccumulator(s) \/ Record(s) \/ RecordFails(s)
Beyond(s) == Over(s) \/ AutoResolve(s) \/ Recover(s)

Next == \/ \E s \in Solves : Check(s) \/ Stream(s) \/ Beyond(s)
        \/ SetKey \/ Midnight \/ Restart

Spec == Init /\ [][Next]_vars

-----------------------------------------------------------------------------
TypeOK == /\ day \in Days /\ own \in BOOLEAN /\ holder \in Solves \union {None}
          /\ solve \in [Solves -> [phase : Phases, own : BOOLEAN, used : Nat, bill : Nat]]
          /\ daily \in [Days -> Nat]
          /\ {spent, lost, starts} \subseteq Nat

(* Properties *)

\* A token that the platform paid for is recorded once, still counted by a solve that will
\* be recorded, or lost in one of the ways above; tokens on the user's own key are never
\* recorded, whichever key is stored when the solve ends.
TokensAreCountedOnce == spent = SumOf(daily) + AllPending + lost

\* The quota is overrun at most by the solves that were under way when its last free token
\* was recorded: the check is made on a record that lags behind them, and not by more.
\* (A limit of 0 lets nobody begin, and then nothing is ever recorded.)
OverrunIsBounded ==
  ~Exempt => \A d \in Days : daily[d] = 0 \/ daily[d] < Limit + Cardinality(Solves) * MaxTokens
=============================================================================
