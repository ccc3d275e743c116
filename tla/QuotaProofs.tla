---------------------------- MODULE QuotaProofs ----------------------------
(***************************************************************************)
(* Theorems about Quota, for any finite set of slots, limit, costs of a    *)
(* call and bounds.                                                        *)
(*                                                                         *)
(* A sum is the cardinality of a set of units, so that changing one value  *)
(* of a function changes its sum by the difference (SumChanges).  With     *)
(* that every step conserves the tokens (Conserves).  The overrun is       *)
(* bounded because a solve that may still be billed to the platform        *)
(* (Billable) was admitted below the limit or beside one that was: what is *)
(* recorded today and what those solves can still add stay below the limit *)
(* plus a full house (Covered).                                            *)
(***************************************************************************)
EXTENDS Quota, FiniteSetTheorems, TLAPS

-----------------------------------------------------------------------------
(* Sums *)

Column(x, n) == {x} \X (1 .. n)
UnitsOn(f, S) == UNION {Column(x, f[x]) : x \in S}

LEMMA ColumnCardinality ==
  ASSUME NEW x, NEW n \in Nat
  PROVE  IsFiniteSet(Column(x, n)) /\ Cardinality(Column(x, n)) = n
<1>1. IsFiniteSet({x}) /\ Cardinality({x}) = 1
  BY FS_Singleton
<1>2. IsFiniteSet(1 .. n) /\ Cardinality(1 .. n) = n
  BY FS_Interval
<1>3. /\ IsFiniteSet({x} \X (1 .. n))
      /\ Cardinality({x} \X (1 .. n)) = Cardinality({x}) * Cardinality(1 .. n)
  BY <1>1, <1>2, FS_Product
<1> QED
  BY <1>1, <1>2, <1>3 DEF Column

LEMMA UnitsAreFinite ==
  ASSUME NEW S, IsFiniteSet(S), NEW f, \A x \in S : f[x] \in Nat
  PROVE  IsFiniteSet(UnitsOn(f, S))
<1> DEFINE T == {Column(x, f[x]) : x \in S}
           g == [x \in S |-> Column(x, f[x])]
<1>1. g \in Surjection(S, T)
  BY DEF Surjection
<1>2. IsFiniteSet(T)
  <2> HIDE DEF g, T
  <2> QED
    BY <1>1, FS_Surjection
<1>3. \A C \in T : IsFiniteSet(C)
  BY ColumnCardinality
<1>4. IsFiniteSet(UNION T)
  <2> HIDE DEF T
  <2> QED
    BY <1>2, <1>3, FS_UNION
<1> QED
  BY <1>4 DEF UnitsOn

\* The sum is that of the other values and the value of one.
LEMMA SumSplits ==
  ASSUME NEW S, IsFiniteSet(S), NEW f \in [S -> Nat], NEW x \in S
  PROVE  /\ Cardinality(UnitsOn(f, S \ {x})) \in Nat
         /\ SumOf(f) = Cardinality(UnitsOn(f, S \ {x})) + f[x]
<1> DEFINE R == UnitsOn(f, S \ {x})
           C == Column(x, f[x])
<1>1. IsFiniteSet(S \ {x})
  BY FS_RemoveElement
<1>2. IsFiniteSet(R)
  BY <1>1, UnitsAreFinite
<1>3. IsFiniteSet(C) /\ Cardinality(C) = f[x]
  BY ColumnCardinality
<1>4. R \intersect C = {}
  BY DEF UnitsOn, Column
<1>5. Units(f) = R \union C
  BY DEF Units, UnitsOn, Column
<1>6. Cardinality(R) \in Nat
  BY <1>2, FS_CardinalityType
<1>7. Cardinality({}) = 0
  BY FS_EmptySet
<1>8. Cardinality(R \union C) = Cardinality(R) + Cardinality(C) - Cardinality(R \intersect C)
  <2> HIDE DEF R, C
  <2> QED
    BY <1>2, <1>3, FS_Union
<1> QED
  <2> HIDE DEF R, C
  <2>1. SumOf(f) = Cardinality(R) + f[x] - 0
    BY <1>3, <1>4, <1>5, <1>7, <1>8 DEF SumOf
  <2> QED
    BY <1>6, <2>1 DEF R

\* Two functions that differ at one argument have sums that differ by what they differ there.
LEMMA SumChanges ==
  ASSUME NEW S, IsFiniteSet(S), NEW f \in [S -> Nat], NEW g \in [S -> Nat], NEW x \in S,
         \A y \in S \ {x} : g[y] = f[y]
  PROVE  SumOf(f) \in Nat /\ SumOf(g) \in Nat /\ SumOf(g) = SumOf(f) - f[x] + g[x]
<1>1. UnitsOn(f, S \ {x}) = UnitsOn(g, S \ {x})
  BY DEF UnitsOn
<1>2. SumOf(f) = Cardinality(UnitsOn(f, S \ {x})) + f[x] /\ Cardinality(UnitsOn(f, S \ {x})) \in Nat
  BY SumSplits
<1>3. SumOf(g) = Cardinality(UnitsOn(g, S \ {x})) + g[x]
  BY SumSplits
<1> QED
  BY <1>1, <1>2, <1>3

LEMMA SumType ==
  ASSUME NEW S, IsFiniteSet(S), NEW f \in [S -> Nat]
  PROVE  SumOf(f) \in Nat
<1>1. IsFiniteSet(UnitsOn(f, S))
  BY UnitsAreFinite
<1> QED
  BY <1>1, FS_CardinalityType DEF SumOf, Units, UnitsOn, Column

LEMMA SumOfNothing ==
  ASSUME NEW f, \A x \in DOMAIN f : f[x] = 0
  PROVE  SumOf(f) = 0
<1>1. Units(f) = {}
  BY DEF Units
<1> QED
  BY <1>1, FS_EmptySet DEF SumOf

-----------------------------------------------------------------------------
(* Types *)

Solved == [phase : Phases, own : BOOLEAN, used : 0 .. MaxTokens, bill : 0 .. MaxTokens]
Early == {"idle", "waiting", "key", "usage", "admitted"}

\* A solve that has not been opened has used nothing.
Typed == /\ day \in Days /\ own \in BOOLEAN /\ holder \in Solves \union {None}
         /\ solve \in [Solves -> Solved]
         /\ daily \in [Days -> Nat]
         /\ spent \in Nat /\ lost \in Nat /\ starts \in Nat
         /\ \A s \in Solves : solve[s].phase \in Early => solve[s].used = 0

LEMMA Bounds ==
  /\ Limit \in Nat /\ MaxTokens \in Nat /\ MaxStarts \in Nat /\ MaxDays \in Nat /\ 1 <= MaxDays
  /\ Amounts \subseteq Nat /\ None \notin Solves /\ Exempt \in BOOLEAN
BY BoundsAssumption, FlagAssumption

LEMMA DaysAreFinite == IsFiniteSet(Days)
BY Bounds, FS_Interval DEF Days

LEMMA PendingType ==
  ASSUME solve \in [Solves -> Solved], NEW s \in Solves
  PROVE  Pending(s) \in 0 .. MaxTokens
BY Bounds DEF Solved, Pending, OnPlatform, At

LEMMA InitTyped == Init => Typed
BY Bounds DEF Init, Typed, Idle, Solved, Phases, Days

\* What a change of one slot keeps.
Slots == solve \in [Solves -> Solved] /\ \A s \in Solves : solve[s].phase \in Early => solve[s].used = 0

LEMMA GoesKeepsSlots ==
  ASSUME Slots, NEW s \in Solves, NEW p \in Phases, Goes(s, p),
         p \in Early => solve[s].phase \in Early
  PROVE  Slots'
BY DEF Slots, Goes, Solved

LEMMA LeavesKeepsSlots ==
  ASSUME Slots, NEW s \in Solves, Leaves(s)
  PROVE  Slots'
<1>1. Idle \in Solved /\ Idle.used = 0
  BY Bounds DEF Idle, Solved, Phases
<1>2. solve' = [solve EXCEPT ![s] = Idle]
  BY DEF Leaves
<1> QED
  BY <1>1, <1>2 DEF Slots

LEMMA CheckTyped ==
  ASSUME Typed, NEW s \in Solves, Check(s)
  PROVE  Typed'
<1> USE DEF Typed, At
<1>0. Slots
  BY DEF Slots
<1>1. CASE Request(s)
  <2>1. Slots'
    BY <1>0, <1>1, GoesKeepsSlots DEF Request, Phases, Early
  <2> QED
    BY <1>1, <2>1 DEF Request, Slots
<1>2. CASE Lock(s)
  <2>1. Slots'
    BY <1>0, <1>2, GoesKeepsSlots DEF Lock, Phases, Early
  <2> QED
    BY <1>2, <2>1 DEF Lock, Slots
<1>3. CASE LoadKey(s)
  BY <1>3 DEF LoadKey, Solved, Phases, Early
<1>4. CASE ReadUsage(s)
  <2>1. Goes(s, "admitted") \/ Leaves(s)
    BY <1>4 DEF ReadUsage
  <2>2. solve[s].phase = "usage"
    BY <1>4 DEF ReadUsage
  <2>3. Slots'
    BY <1>0, <2>1, <2>2, GoesKeepsSlots, LeavesKeepsSlots DEF Phases, Early
  <2> QED
    BY <1>4, <2>3 DEF ReadUsage, Slots
<1>5. CASE CheckFails(s)
  <2>1. Slots'
    BY <1>0, <1>5, LeavesKeepsSlots DEF CheckFails
  <2> QED
    BY <1>5, <2>1 DEF CheckFails, Slots
<1> QED
  BY <1>1, <1>2, <1>3, <1>4, <1>5 DEF Check

LEMMA StreamTyped ==
  ASSUME Typed, NEW s \in Solves, Stream(s)
  PROVE  Typed'
<1> USE DEF Typed, Solved, Phases, Early, At
<1>1. CASE Open(s)
  <2>1. Goes(s, "running") \/ Leaves(s)
    BY <1>1 DEF Open
  <2>2. Slots'
    BY <2>1, GoesKeepsSlots, LeavesKeepsSlots DEF Slots
  <2> QED
    BY <1>1, <2>2 DEF Open, Slots
<1>2. CASE Work(s)
  <2>1. PICK n \in Amounts :
          /\ solve[s].used + n <= MaxTokens
          /\ solve' = [solve EXCEPT ![s].used = @ + n]
          /\ spent' = spent + OnPlatform(s, n)
          /\ lost' = IF solve[s].phase \in Counting THEN lost ELSE lost + OnPlatform(s, n)
    BY <1>2 DEF Work
  <2>2. OnPlatform(s, n) \in Nat /\ n \in Nat
    BY Bounds DEF OnPlatform
  <2>3. solve[s].used + n \in 0 .. MaxTokens
    BY <2>1, <2>2, Bounds
  <2>4. solve' \in [Solves -> Solved]
    BY <2>1, <2>3
  <2>5. solve[s].phase \notin Early
    BY <1>2 DEF Work, Counting
  <2>6. \A q \in Solves : solve'[q].phase \in Early => solve'[q].used = 0
    BY <2>1, <2>5
  <2>7. spent' \in Nat /\ lost' \in Nat
    BY <2>1, <2>2
  <2>8. UNCHANGED <<day, own, holder, daily, starts>>
    BY <1>2 DEF Work
  <2> QED
    BY <2>4, <2>6, <2>7, <2>8
<1>3. CASE Close(s)
  BY <1>3 DEF Close, Goes
<1>4. CASE ReadAccumulator(s)
  BY <1>4 DEF ReadAccumulator
<1>5. CASE Record(s)
  <2>1. solve[s].bill \in Nat
    BY Bounds
  <2> QED
    BY <1>5, <2>1 DEF Record, Goes
<1>6. CASE RecordFails(s)
  <2>1. Pending(s) \in Nat
    BY PendingType, Bounds
  <2>2. lost' \in Nat
    BY <1>6, <2>1 DEF RecordFails
  <2> QED
    BY <1>6, <2>2 DEF RecordFails, Goes
<1> QED
  BY <1>1, <1>2, <1>3, <1>4, <1>5, <1>6 DEF Stream

LEMMA BeyondTyped ==
  ASSUME Typed, NEW s \in Solves, Beyond(s)
  PROVE  Typed'
<1> USE DEF Typed, Solved, Phases, Early, At
<1>1. CASE Over(s)
  BY <1>1, Bounds DEF Over, Leaves, Idle
<1>2. CASE AutoResolve(s)
  BY <1>2 DEF AutoResolve, Goes
<1>3. CASE Recover(s)
  BY <1>3 DEF Recover, Goes
<1> QED
  BY <1>1, <1>2, <1>3 DEF Beyond

LEMMA AllPendingType ==
  ASSUME solve \in [Solves -> Solved]
  PROVE  AllPending \in Nat
<1>1. [s \in Solves |-> Pending(s)] \in [Solves -> Nat]
  BY PendingType, Bounds
<1> QED
  BY <1>1, SumType, SolvesAssumption DEF AllPending

LEMMA RestTyped ==
  ASSUME Typed, SetKey \/ Midnight \/ Restart
  PROVE  Typed'
<1>1. CASE SetKey
  BY <1>1 DEF Typed, SetKey
<1>2. CASE Midnight
  BY <1>2, Bounds DEF Typed, Midnight, Days
<1>3. CASE Restart
  <2>1. AllPending \in Nat
    BY AllPendingType DEF Typed
  <2> QED
    BY <1>3, <2>1, Bounds DEF Typed, Restart, Solved, Idle, Phases, Early
<1> QED
  BY <1>1, <1>2, <1>3

LEMMA NextTyped ==
  ASSUME Typed, [Next]_vars
  PROVE  Typed'
<1>1. CASE UNCHANGED vars
  BY <1>1 DEF Typed, vars
<1>2. CASE Next
  BY <1>2, CheckTyped, StreamTyped, BeyondTyped, RestTyped DEF Next
<1> QED
  BY <1>1, <1>2

-----------------------------------------------------------------------------
(* Every token is counted once *)

Counted == Typed /\ TokensAreCountedOnce

\* The sum over the slots changes by what one slot changes.
LEMMA PendingMoves ==
  ASSUME Typed, Typed', NEW s \in Solves, \A q \in Solves \ {s} : solve'[q] = solve[q]
  PROVE  /\ AllPending \in Nat /\ AllPending' \in Nat
         /\ AllPending' = AllPending - Pending(s) + Pending(s)'
         /\ Pending(s) \in Nat /\ Pending(s)' \in Nat
<1> DEFINE f == [q \in Solves |-> Pending(q)]
           g == [q \in Solves |-> Pending(q)']
<1>1. \A q \in Solves : Pending(q) \in Nat
  BY PendingType, Bounds DEF Typed
<1>2. \A q \in Solves : Pending(q)' \in Nat
  <2>1. solve' \in [Solves -> Solved]
    BY DEF Typed
  <2> QED
    BY <2>1, Bounds DEF Solved, Pending, OnPlatform, At
<1>3. f \in [Solves -> Nat] /\ g \in [Solves -> Nat]
  BY <1>1, <1>2
<1>4. \A q \in Solves \ {s} : g[q] = f[q]
  BY DEF Pending, OnPlatform, At
<1>5. f[s] = Pending(s) /\ g[s] = Pending(s)'
  OBVIOUS
<1>6. AllPending = SumOf(f) /\ AllPending' = SumOf(g)
  BY DEF AllPending, SumOf, Units
<1>7. SumOf(f) \in Nat /\ SumOf(g) \in Nat /\ SumOf(g) = SumOf(f) - f[s] + g[s]
  <2> HIDE DEF f, g
  <2> QED
    BY <1>3, <1>4, SumChanges, SolvesAssumption
<1> QED
  BY <1>1, <1>2, <1>5, <1>6, <1>7

LEMMA Balance ==
  ASSUME NEW d \in Nat, NEW a \in Nat, NEW b \in Nat, NEW p \in Nat, NEW q \in Nat,
         NEW l \in Nat, NEW m \in Nat, NEW y \in Nat, NEW z \in Nat,
         y = d + a + l, b = a - p + q, z - y = (q - p) + (m - l)
  PROVE  z = d + b + m
OBVIOUS

\* A step of one slot that pays, books and loses as much as it must conserves the tokens.
LEMMA Conserves ==
  ASSUME Counted, Typed', NEW s \in Solves, \A q \in Solves \ {s} : solve'[q] = solve[q],
         daily' = daily,
         spent' - spent = (Pending(s)' - Pending(s)) + (lost' - lost)
  PROVE  TokensAreCountedOnce'
<1>1. /\ AllPending \in Nat /\ AllPending' \in Nat
      /\ AllPending' = AllPending - Pending(s) + Pending(s)'
      /\ Pending(s) \in Nat /\ Pending(s)' \in Nat
  BY PendingMoves DEF Counted
<1>2. SumOf(daily) \in Nat
  BY SumType, DaysAreFinite DEF Counted, Typed
<1>3. spent \in Nat /\ spent' \in Nat /\ lost \in Nat /\ lost' \in Nat
  BY DEF Counted, Typed
<1>4. spent = SumOf(daily) + AllPending + lost
  BY DEF Counted, TokensAreCountedOnce
<1>5. spent' = SumOf(daily) + AllPending' + lost'
  <2>1. PICK p \in Nat, q \in Nat : p = Pending(s) /\ q = Pending(s)'
    BY <1>1
  <2>2. PICK l \in Nat, m \in Nat, y \in Nat, z \in Nat :
          l = lost /\ m = lost' /\ y = spent /\ z = spent'
    BY <1>3
  <2>3. PICK d \in Nat, a \in Nat, b \in Nat :
          d = SumOf(daily) /\ a = AllPending /\ b = AllPending'
    BY <1>1, <1>2
  <2>4. y = d + a + l /\ b = a - p + q /\ z - y = (q - p) + (m - l)
    BY <1>1, <1>4, <2>1, <2>2, <2>3
  <2>5. z = d + b + m
    BY <2>4, Balance
  <2> QED
    BY <2>2, <2>3, <2>5
<1>6. SumOf(daily)' = SumOf(daily)
  BY DEF SumOf, Units
<1> QED
  BY <1>5, <1>6 DEF TokensAreCountedOnce

LEMMA CheckCounts ==
  ASSUME Counted, NEW s \in Solves, Check(s)
  PROVE  TokensAreCountedOnce'
<1>1. Typed'
  BY CheckTyped DEF Counted
<1>2. \A q \in Solves \ {s} : solve'[q] = solve[q]
  BY DEF Check, Request, Lock, LoadKey, ReadUsage, CheckFails, Goes, Leaves, Counted, Typed
<1>3. UNCHANGED <<daily, spent, lost>>
  BY DEF Check, Request, Lock, LoadKey, ReadUsage, CheckFails
<1>4. solve[s].phase \in {"idle", "waiting", "key", "usage"}
  BY DEF Check, Request, Lock, LoadKey, ReadUsage, CheckFails, At
<1>5. solve'[s].phase \in Early
  <2>1. solve[s] \in Solved /\ solve \in [Solves -> Solved]
    BY DEF Counted, Typed
  <2>2. CASE \E p \in Early : Goes(s, p)
    BY <2>1, <2>2 DEF Goes, Solved
  <2>3. CASE Leaves(s)
    BY <2>1, <2>3 DEF Leaves, Idle, Early
  <2>4. CASE LoadKey(s)
    BY <2>1, <2>4 DEF LoadKey, Solved, Early
  <2>5. CASE ReadUsage(s)
    <3>1. Goes(s, "admitted") \/ Leaves(s)
      BY <2>5 DEF ReadUsage
    <3> QED
      BY <2>2, <2>3, <3>1 DEF Early
  <2>6. CASE Request(s) \/ Lock(s)
    BY <2>2, <2>6 DEF Request, Lock, Early
  <2>7. CASE CheckFails(s)
    BY <2>3, <2>7 DEF CheckFails
  <2> QED
    BY <2>4, <2>5, <2>6, <2>7 DEF Check
<1>6. Pending(s) = 0 /\ Pending(s)' = 0
  BY <1>4, <1>5 DEF Pending, OnPlatform, Counting, At, Early
<1>7. spent \in Nat /\ lost \in Nat
  BY DEF Counted, Typed
<1>8. spent' - spent = (Pending(s)' - Pending(s)) + (lost' - lost)
  BY <1>3, <1>6, <1>7
<1> QED
  BY <1>1, <1>2, <1>3, <1>8, Conserves

LEMMA WorkCounts ==
  ASSUME Counted, Typed', NEW s \in Solves, Work(s)
  PROVE  TokensAreCountedOnce'
<1>1. PICK n \in Amounts :
        /\ solve' = [solve EXCEPT ![s].used = @ + n]
        /\ spent' = spent + OnPlatform(s, n)
        /\ lost' = IF solve[s].phase \in Counting THEN lost ELSE lost + OnPlatform(s, n)
  BY DEF Work
<1>2. solve[s] \in Solved /\ solve \in [Solves -> Solved] /\ spent \in Nat /\ lost \in Nat
  BY DEF Counted, Typed
<1>3. n \in Nat /\ solve[s].used \in Nat /\ OnPlatform(s, n) \in Nat
  BY <1>2, Bounds DEF Solved, OnPlatform
<1>4. /\ solve'[s].used = solve[s].used + n /\ solve'[s].own = solve[s].own
      /\ solve'[s].phase = solve[s].phase /\ solve'[s].bill = solve[s].bill
  BY <1>1, <1>2 DEF Solved
<1>5. solve[s].own \in BOOLEAN /\ solve[s].bill \in Nat
  BY <1>2, Bounds DEF Solved
<1>6. spent' - spent = (Pending(s)' - Pending(s)) + (lost' - lost)
  <2>1. CASE solve[s].phase \in Counting
    <3>1. Pending(s) = OnPlatform(s, solve[s].used) /\ Pending(s)' = OnPlatform(s, solve[s].used + n)
      BY <1>4, <2>1 DEF Pending, OnPlatform
    <3>2. Pending(s)' - Pending(s) = OnPlatform(s, n) /\ Pending(s) \in Nat /\ Pending(s)' \in Nat
      BY <1>3, <3>1 DEF OnPlatform
    <3> QED
      BY <1>1, <1>2, <1>3, <2>1, <3>2
  <2>2. CASE solve[s].phase \notin Counting
    <3>1. Pending(s)' = Pending(s)
      BY <1>4, <2>2 DEF Pending, OnPlatform, At
    <3>2. Pending(s) \in Nat
      BY PendingType, Bounds, <1>2
    <3> QED
      BY <1>1, <1>2, <1>3, <2>2, <3>1, <3>2
  <2> QED
    BY <2>1, <2>2
<1>7. \A q \in Solves \ {s} : solve'[q] = solve[q]
  BY <1>1, <1>2
<1> QED
  BY <1>6, <1>7, Conserves DEF Work

\* The record takes over what was pending, or the tokens were never the platform's.
LEMMA RecordCounts ==
  ASSUME Counted, Typed', NEW s \in Solves, Record(s)
  PROVE  TokensAreCountedOnce'
<1>1. solve[s] \in Solved /\ solve \in [Solves -> Solved] /\ daily \in [Days -> Nat] /\ day \in Days
  BY DEF Counted, Typed
<1>2. \A q \in Solves \ {s} : solve'[q] = solve[q]
  BY <1>1 DEF Record, Goes
<1>3. Pending(s)' = 0 /\ Pending(s) = OnPlatform(s, solve[s].bill)
  <2>1. solve'[s].phase = "after" /\ solve[s].phase = "writing"
    BY <1>1 DEF Record, Goes, Solved, At
  <2> QED
    BY <2>1 DEF Pending, Counting, At, OnPlatform
<1>4. UNCHANGED <<spent, lost>>
  BY DEF Record
<1>5. CASE solve[s].own
  <2>1. daily' = daily
    BY <1>5 DEF Record, IsPlatform
  <2>2. Pending(s) = 0
    BY <1>3, <1>5 DEF OnPlatform
  <2>3. spent \in Nat /\ lost \in Nat
    BY DEF Counted, Typed
  <2>4. spent' - spent = (Pending(s)' - Pending(s)) + (lost' - lost)
    BY <1>3, <1>4, <2>2, <2>3
  <2> QED
    BY <1>2, <2>1, <2>4, Conserves
<1>6. CASE ~solve[s].own
  <2>1. daily' = [daily EXCEPT ![day] = @ + solve[s].bill]
    BY <1>6 DEF Record, IsPlatform
  <2>2. Pending(s) = solve[s].bill /\ solve[s].bill \in Nat
    BY <1>1, <1>3, <1>6, Bounds DEF OnPlatform, Solved
  <2>3. daily' \in [Days -> Nat] /\ \A d \in Days \ {day} : daily'[d] = daily[d]
    BY <1>1, <2>1, <2>2
  <2>4. daily'[day] = daily[day] + solve[s].bill
    BY <1>1, <2>1
  <2>5. /\ SumOf(daily) \in Nat /\ SumOf(daily') \in Nat
        /\ SumOf(daily') = SumOf(daily) - daily[day] + daily'[day]
    BY <1>1, <2>3, DaysAreFinite, SumChanges
  <2>6. SumOf(daily)' = SumOf(daily')
    BY DEF SumOf, Units
  <2>7. AllPending \in Nat /\ AllPending' \in Nat /\ AllPending' = AllPending - Pending(s) + Pending(s)'
    BY <1>2, PendingMoves DEF Counted
  <2>8. spent \in Nat /\ lost \in Nat /\ spent = SumOf(daily) + AllPending + lost
    BY DEF Counted, Typed, TokensAreCountedOnce
  <2>9. daily[day] \in Nat
    BY <1>1
  <2>10. spent = SumOf(daily)' + AllPending' + lost
    BY <1>3, <2>2, <2>4, <2>5, <2>6, <2>7, <2>8, <2>9
  <2> QED
    BY <1>4, <2>10 DEF TokensAreCountedOnce
<1> QED
  BY <1>5, <1>6

LEMMA StreamCounts ==
  ASSUME Counted, NEW s \in Solves, Stream(s)
  PROVE  TokensAreCountedOnce'
<1>1. Typed'
  BY StreamTyped DEF Counted
<1>2. solve[s] \in Solved /\ solve \in [Solves -> Solved] /\ spent \in Nat /\ lost \in Nat
  BY DEF Counted, Typed
<1>3. CASE Open(s)
  <2>1. \A q \in Solves \ {s} : solve'[q] = solve[q]
    BY <1>2, <1>3 DEF Open, Goes, Leaves
  <2>2. Pending(s) = 0
    BY <1>3 DEF Open, Pending, OnPlatform, Counting, At
  <2>3. solve'[s].used = 0 /\ solve'[s].phase # "writing"
    <3>1. solve[s].used = 0
      BY <1>3 DEF Open, At, Counted, Typed, Early
    <3>2. CASE Goes(s, "running")
      BY <1>2, <3>1, <3>2 DEF Goes, Solved
    <3>3. CASE Leaves(s)
      BY <1>2, <3>3 DEF Leaves, Idle
    <3> QED
      BY <1>3, <3>2, <3>3 DEF Open
  <2>4. Pending(s)' = 0
    BY <2>3 DEF Pending, OnPlatform, At
  <2>5. UNCHANGED <<daily, spent, lost>>
    BY <1>3 DEF Open
  <2>6. spent' - spent = (Pending(s)' - Pending(s)) + (lost' - lost)
    BY <1>2, <2>2, <2>4, <2>5
  <2> QED
    BY <1>1, <2>1, <2>5, <2>6, Conserves
<1>4. CASE Work(s)
  BY <1>1, <1>4, WorkCounts
<1>5. CASE Close(s) \/ ReadAccumulator(s)
  <2>1. \A q \in Solves \ {s} : solve'[q] = solve[q]
    BY <1>2, <1>5 DEF Close, ReadAccumulator, Goes
  <2>2. Pending(s)' = Pending(s)
    <3>1. CASE Close(s)
      <4>1. solve[s].phase = "running" /\ solve'[s] = [solve[s] EXCEPT !.phase = "ending"]
        BY <1>2, <3>1 DEF Close, Goes, At
      <4> QED
        BY <1>2, <4>1 DEF Pending, OnPlatform, Counting, At, Solved
    <3>2. CASE ReadAccumulator(s)
      <4>1. /\ solve[s].phase = "ending" /\ solve'[s].own = solve[s].own
            /\ solve'[s].bill = solve[s].used
            /\ solve'[s].phase = IF solve[s].used = 0 THEN "after" ELSE "writing"
        BY <1>2, <3>2 DEF ReadAccumulator, At, Solved
      <4> QED
        BY <4>1 DEF Pending, OnPlatform, Counting, At
    <3> QED
      BY <1>5, <3>1, <3>2
  <2>3. UNCHANGED <<daily, spent, lost>>
    BY <1>5 DEF Close, ReadAccumulator
  <2>4. Pending(s) \in Nat
    BY <1>2, PendingType, Bounds
  <2>5. spent' - spent = (Pending(s)' - Pending(s)) + (lost' - lost)
    BY <1>2, <2>2, <2>3, <2>4
  <2> QED
    BY <1>1, <2>1, <2>3, <2>5, Conserves
<1>6. CASE Record(s)
  BY <1>1, <1>6, RecordCounts
<1>7. CASE RecordFails(s)
  <2>1. \A q \in Solves \ {s} : solve'[q] = solve[q]
    BY <1>2, <1>7 DEF RecordFails, Goes
  <2>2. Pending(s)' = 0
    <3>1. solve'[s].phase = "after"
      BY <1>2, <1>7 DEF RecordFails, Goes, Solved
    <3> QED
      BY <3>1 DEF Pending, OnPlatform, Counting, At
  <2>3. UNCHANGED <<daily, spent>> /\ lost' = lost + Pending(s)
    BY <1>7 DEF RecordFails
  <2>4. Pending(s) \in Nat
    BY <1>2, PendingType, Bounds
  <2>5. spent' - spent = (Pending(s)' - Pending(s)) + (lost' - lost)
    BY <1>2, <2>2, <2>3, <2>4
  <2> QED
    BY <1>1, <2>1, <2>3, <2>5, Conserves
<1> QED
  BY <1>3, <1>4, <1>5, <1>6, <1>7 DEF Stream

LEMMA BeyondCounts ==
  ASSUME Counted, NEW s \in Solves, Beyond(s)
  PROVE  TokensAreCountedOnce'
<1>1. Typed'
  BY BeyondTyped DEF Counted
<1>2. solve[s] \in Solved /\ solve \in [Solves -> Solved] /\ spent \in Nat /\ lost \in Nat
  BY DEF Counted, Typed
<1>3. \A q \in Solves \ {s} : solve'[q] = solve[q]
  BY <1>2 DEF Beyond, Over, AutoResolve, Recover, Goes, Leaves
<1>4. UNCHANGED <<daily, spent, lost>>
  BY DEF Beyond, Over, AutoResolve, Recover
<1>5. solve[s].phase \in {"idle", "after", "headless"} /\ solve'[s].phase \in {"idle", "headless"}
  BY <1>2 DEF Beyond, Over, AutoResolve, Recover, Goes, Leaves, Idle, At, Solved
<1>6. Pending(s) = 0 /\ Pending(s)' = 0
  BY <1>5 DEF Pending, OnPlatform, Counting, At
<1>7. spent' - spent = (Pending(s)' - Pending(s)) + (lost' - lost)
  BY <1>2, <1>4, <1>6
<1> QED
  BY <1>1, <1>3, <1>4, <1>7, Conserves

\* What a restart destroys is all that was pending.
LEMMA RestCounts ==
  ASSUME Counted, SetKey \/ Midnight \/ Restart
  PROVE  TokensAreCountedOnce'
<1>1. spent \in Nat /\ lost \in Nat /\ AllPending \in Nat /\ SumOf(daily) \in Nat
  BY AllPendingType, SumType, DaysAreFinite DEF Counted, Typed
<1>2. spent = SumOf(daily) + AllPending + lost
  BY DEF Counted, TokensAreCountedOnce
<1>3. spent' = spent /\ SumOf(daily)' = SumOf(daily)
  BY DEF SetKey, Midnight, Restart, SumOf, Units
<1>4. CASE SetKey \/ Midnight
  <2>1. lost' = lost /\ solve' = solve
    BY <1>4 DEF SetKey, Midnight
  <2>2. AllPending' = AllPending
    BY <2>1 DEF AllPending, SumOf, Units, Pending, OnPlatform, At
  <2> QED
    BY <1>2, <1>3, <2>1, <2>2 DEF TokensAreCountedOnce
<1>5. CASE Restart
  <2>1. \A s \in Solves : Pending(s)' = 0
    BY <1>5 DEF Restart, Idle, Pending, OnPlatform, Counting, At
  <2>2. AllPending' = 0
    <3> DEFINE g == [s \in Solves |-> Pending(s)']
    <3>1. \A s \in DOMAIN g : g[s] = 0
      BY <2>1
    <3>2. SumOf(g) = 0
      <4> HIDE DEF g
      <4> QED
        BY <3>1, SumOfNothing
    <3> QED
      BY <3>2 DEF AllPending, SumOf, Units
  <2>3. lost' = lost + AllPending
    BY <1>5 DEF Restart
  <2> QED
    BY <1>1, <1>2, <1>3, <2>2, <2>3 DEF TokensAreCountedOnce
<1> QED
  BY <1>4, <1>5

LEMMA InitCounts == Init => TokensAreCountedOnce
<1> SUFFICES ASSUME Init PROVE TokensAreCountedOnce
  OBVIOUS
<1>1. SumOf(daily) = 0
  BY SumOfNothing DEF Init
<1>2. \A s \in Solves : Pending(s) = 0
  BY DEF Init, Idle, Pending, OnPlatform, Counting, At
<1>3. AllPending = 0
  BY <1>2, SumOfNothing DEF AllPending
<1> QED
  BY <1>1, <1>3 DEF Init, TokensAreCountedOnce

LEMMA NextCounts ==
  ASSUME Counted, [Next]_vars
  PROVE  TokensAreCountedOnce'
<1>1. CASE UNCHANGED vars
  BY <1>1 DEF Counted, TokensAreCountedOnce, vars, AllPending, SumOf, Units, Pending, OnPlatform, At
<1>2. CASE Next
  BY <1>2, CheckCounts, StreamCounts, BeyondCounts, RestCounts DEF Next
<1> QED
  BY <1>1, <1>2

\* The variables have their types: the accumulators and the records count naturals, a solve
\* that has not been opened has used nothing, and only known slots and phases occur.
THEOREM TypesHold == Spec => []TypeOK
<1>1. Init => Typed
  BY InitTyped
<1>2. Typed /\ [Next]_vars => Typed'
  BY NextTyped
<1>3. Typed => TypeOK
  BY Bounds DEF Typed, TypeOK, Solved
<1> QED
  BY <1>1, <1>2, <1>3, PTL DEF Spec

\* Each token that the platform paid for is in exactly one place: recorded, counted by a solve
\* that is still to be recorded, or lost by a failed write, work after the record or a restart.
THEOREM TokensCounted == Spec => []TokensAreCountedOnce
<1>1. Init => Counted
  BY InitTyped, InitCounts DEF Counted
<1>2. Counted /\ [Next]_vars => Counted'
  BY NextTyped, NextCounts DEF Counted
<1>3. Counted => TokensAreCountedOnce
  BY DEF Counted
<1> QED
  BY <1>1, <1>2, <1>3, PTL DEF Spec

-----------------------------------------------------------------------------
(* The quota is overrun by a bounded amount *)

\* A solve whose record may still charge the platform today.
MayBill(s) == solve[s].phase \in {"admitted", "running", "ending", "writing"} /\ ~solve[s].own
Billable == {s \in Solves : MayBill(s)}
House == Cardinality(Solves) * MaxTokens
Owing == Cardinality(Billable) * MaxTokens

\* Nothing was admitted and nothing is recorded, or there is room for all that may still be.
Room == (Billable = {} /\ daily[day] = 0) \/ daily[day] + Owing < Limit + House
Covered == /\ \A d \in Days : d > day => daily[d] = 0
           /\ Billable # {} => Limit > 0
           /\ Room
           /\ \A d \in Days : daily[d] = 0 \/ daily[d] < Limit + House
Bounded == Typed /\ (~Exempt => Covered)

LEMMA Products ==
  ASSUME NEW c \in Nat, NEW n \in Nat, NEW k \in Nat, c <= n
  PROVE  c * k \in Nat /\ n * k \in Nat /\ c * k <= n * k
<1>1. PICK d \in Nat : n = c + d
  BY n - c \in Nat, n = c + (n - c)
<1>2. (c + d) * k = c * k + d * k
  OBVIOUS
<1>3. c * k \in Nat /\ d * k \in Nat
  OBVIOUS
<1> QED
  BY <1>1, <1>2, <1>3

LEMMA HasRoom ==
  ASSUME NEW b \in Nat, NEW n \in Nat, NEW k \in Nat, NEW h \in Nat, n < k, b <= h
  PROVE  n + b < k + h
OBVIOUS

LEMMA HouseType ==
  /\ Cardinality(Solves) \in Nat /\ House \in Nat
  /\ IsFiniteSet(Billable) /\ Cardinality(Billable) \in Nat
  /\ Cardinality(Billable) <= Cardinality(Solves) /\ Owing \in Nat /\ Owing <= House
<1>1. Cardinality(Solves) \in Nat
  BY SolvesAssumption, FS_CardinalityType
<1>2. Billable \in SUBSET Solves
  BY DEF Billable
<1>3. IsFiniteSet(Billable) /\ Cardinality(Billable) <= Cardinality(Solves)
  BY <1>2, SolvesAssumption, FS_Subset
<1>4. Cardinality(Billable) \in Nat
  BY <1>3, FS_CardinalityType
<1> QED
  BY <1>1, <1>3, <1>4, Products, Bounds DEF House, Owing

LEMMA NextHouseType ==
  /\ IsFiniteSet(Billable') /\ Cardinality(Billable') \in Nat
  /\ Cardinality(Billable') <= Cardinality(Solves) /\ Owing' \in Nat /\ Owing' <= House
<1>1. Cardinality(Solves) \in Nat
  BY SolvesAssumption, FS_CardinalityType
<1>2. Billable' \in SUBSET Solves
  BY DEF Billable
<1>3. IsFiniteSet(Billable') /\ Cardinality(Billable') <= Cardinality(Solves)
  BY <1>2, SolvesAssumption, FS_Subset
<1>4. Cardinality(Billable') \in Nat
  BY <1>3, FS_CardinalityType
<1> QED
  BY <1>1, <1>3, <1>4, Products, Bounds DEF House, Owing

LEMMA OwingShrinks ==
  ASSUME Billable' \subseteq Billable
  PROVE  Owing' <= Owing
<1>1. IsFiniteSet(Billable) /\ Cardinality(Billable) \in Nat /\ Cardinality(Billable') \in Nat
  BY HouseType, NextHouseType
<1>2. Cardinality(Billable') <= Cardinality(Billable)
  BY <1>1, FS_Subset
<1> QED
  BY <1>1, <1>2, Products, Bounds DEF Owing

\* Whatever records nothing and admits nobody needs no more room.
LEMMA ShrinkCovers ==
  ASSUME Typed, Covered, Billable' \subseteq Billable, UNCHANGED <<day, daily>>
  PROVE  Covered'
<1>1. Owing \in Nat /\ Owing' \in Nat /\ Owing' <= Owing /\ House \in Nat /\ Limit \in Nat
  BY HouseType, NextHouseType, OwingShrinks, Bounds
<1>2. daily[day] \in Nat
  BY DEF Typed
<1>3. Room'
  <2>1. CASE Billable = {} /\ daily[day] = 0
    BY <2>1 DEF Room
  <2>2. CASE daily[day] + Owing < Limit + House
    BY <1>1, <1>2, <2>2 DEF Room, House
  <2> QED
    BY <2>1, <2>2 DEF Covered, Room
<1> QED
  BY <1>3 DEF Covered, House

\* A solve is admitted below the limit, and a full house is one solve for every slot.
LEMMA ReadUsageCovers ==
  ASSUME Typed, Covered, NEW s \in Solves, ReadUsage(s)
  PROVE  Covered'
<1>1. CASE IsAllowed(daily[day])
  <2>1. daily[day] < Limit /\ daily[day] \in Nat /\ Limit \in Nat
    BY <1>1, Bounds DEF IsAllowed, Typed
  <2>2. UNCHANGED <<day, daily>>
    BY DEF ReadUsage
  <2>3. Owing' \in Nat /\ Owing' <= House /\ House \in Nat
    BY HouseType, NextHouseType
  <2>4. daily'[day'] + Owing' < Limit + House
    BY <2>1, <2>2, <2>3, HasRoom
  <2>5. Room'
    BY <2>4 DEF Room, House
  <2>6. Limit > 0
    BY <2>1
  <2> QED
    BY <2>2, <2>5, <2>6 DEF Covered, House
<1>2. CASE ~IsAllowed(daily[day])
  <2>1. Leaves(s)
    BY <1>2 DEF ReadUsage
  <2>2. Billable' \subseteq Billable
    BY <2>1 DEF Leaves, Idle, Typed, Billable, MayBill
  <2>3. UNCHANGED <<day, daily>>
    BY DEF ReadUsage
  <2> QED
    BY <2>2, <2>3, ShrinkCovers
<1> QED
  BY <1>1, <1>2

\* The record moves at most one solve's share from what may be recorded to what is.
LEMMA RecordCovers ==
  ASSUME Typed, Covered, NEW s \in Solves, Record(s)
  PROVE  Covered'
<1>1. solve \in [Solves -> Solved] /\ solve[s] \in Solved /\ daily \in [Days -> Nat] /\ day \in Days
  BY DEF Typed
<1>2. /\ solve'[s].phase = "after" /\ solve[s].phase = "writing" /\ day' = day
      /\ \A q \in Solves \ {s} : solve'[q] = solve[q]
  BY <1>1 DEF Record, Goes, At, Solved
<1>3. Billable' = Billable \ {s}
  BY <1>2 DEF Billable, MayBill
<1>4. CASE solve[s].own
  <2>1. daily' = daily
    BY <1>4 DEF Record, IsPlatform
  <2> QED
    BY <1>2, <1>3, <2>1, ShrinkCovers
<1>5. CASE ~solve[s].own
  <2> DEFINE c == Cardinality(Billable)
  <2>1. s \in Billable
    BY <1>2, <1>5 DEF Billable, MayBill
  <2>2. daily' = [daily EXCEPT ![day] = @ + solve[s].bill]
    BY <1>5 DEF Record, IsPlatform
  <2>3. solve[s].bill \in Nat /\ solve[s].bill <= MaxTokens
    BY <1>1, Bounds DEF Solved
  <2>4. c \in Nat /\ c # 0 /\ Cardinality(Billable') = c - 1
    <3>1. IsFiniteSet(Billable)
      BY HouseType
    <3> QED
      BY <1>3, <2>1, <3>1, HouseType, FS_EmptySet, FS_RemoveElement
  <2>5. Owing' = Owing - MaxTokens
    <3>1. (c - 1) * MaxTokens = c * MaxTokens - MaxTokens
      BY <2>4, Bounds
    <3> QED
      BY <2>4, <3>1 DEF Owing
  <2>6. daily[day] + Owing < Limit + House
    BY <2>1 DEF Covered, Room
  <2>7. daily'[day] = daily[day] + solve[s].bill /\ daily[day] \in Nat
    BY <1>1, <2>2
  <2>8. Owing \in Nat /\ Owing' \in Nat /\ House \in Nat /\ Limit \in Nat /\ MaxTokens \in Nat
    BY HouseType, NextHouseType, Bounds
  <2>9. daily'[day] + Owing' < Limit + House /\ daily'[day] < Limit + House
    BY <2>3, <2>5, <2>6, <2>7, <2>8
  <2>10. Room'
    BY <1>2, <2>9 DEF Room, House
  <2>11. \A d \in Days \ {day} : daily'[d] = daily[d]
    BY <1>1, <2>2
  <2>12. \A d \in Days : d > day => daily'[d] = 0
    <3>1. \A d \in Days : d > day => d # day
      BY Bounds, <1>1 DEF Days
    <3> QED
      BY <2>11, <3>1 DEF Covered
  <2>13. \A d \in Days : daily'[d] = 0 \/ daily'[d] < Limit + House
    BY <2>9, <2>11 DEF Covered
  <2>14. Limit > 0
    BY <2>1 DEF Covered
  <2> QED
    BY <1>2, <2>10, <2>12, <2>13, <2>14 DEF Covered, House
<1> QED
  BY <1>4, <1>5

\* The solves under way carry over to a day on which nothing is recorded yet.
LEMMA MidnightCovers ==
  ASSUME Typed, Covered, Midnight
  PROVE  Covered'
<1>1. day \in Nat /\ day' = day + 1 /\ day' \in Days /\ UNCHANGED <<solve, daily>>
  BY Bounds DEF Typed, Midnight, Days
<1>2. daily[day'] = 0
  <2>1. day' > day
    BY <1>1
  <2> QED
    BY <1>1, <2>1 DEF Covered
<1>3. Billable' = Billable
  BY <1>1 DEF Billable, MayBill
<1>4. Room'
  <2>1. CASE Billable = {}
    BY <1>1, <1>2, <1>3, <2>1 DEF Room
  <2>2. CASE Billable # {}
    <3>1. Limit > 0 /\ Limit \in Nat
      BY <2>2, Bounds DEF Covered
    <3>2. Owing' \in Nat /\ Owing' <= House /\ House \in Nat
      BY HouseType, NextHouseType
    <3>3. 0 + Owing' < Limit + House
      BY <3>1, <3>2, HasRoom
    <3> QED
      BY <1>1, <1>2, <3>3 DEF Room, House
  <2> QED
    BY <2>1, <2>2
<1>5. \A d \in Days : d > day' => daily'[d] = 0
  <2>1. \A d \in Days : d > day' => d > day
    BY <1>1, Bounds DEF Days
  <2> QED
    BY <1>1, <2>1 DEF Covered
<1> QED
  BY <1>1, <1>3, <1>4, <1>5 DEF Covered, House

\* Nothing but the reading of the record admits a solve that the platform pays for.
LEMMA OthersShrink ==
  ASSUME Typed, ~Exempt, NEW s \in Solves, Check(s) \/ Stream(s) \/ Beyond(s),
         ~ReadUsage(s), ~Record(s)
  PROVE  Billable' \subseteq Billable /\ UNCHANGED <<day, daily>>
<1>1. solve \in [Solves -> Solved] /\ solve[s] \in Solved
  BY DEF Typed
<1>2. ASSUME Leaves(s)
      PROVE  Billable' \subseteq Billable
  BY <1>1, <1>2 DEF Leaves, Idle, Billable, MayBill
<1>3. ASSUME NEW p \in Phases, Goes(s, p),
             p \in {"admitted", "running", "ending", "writing"} =>
               solve[s].phase \in {"admitted", "running", "ending", "writing"}
      PROVE  Billable' \subseteq Billable
  BY <1>1, <1>3 DEF Goes, Billable, MayBill, Solved
<1>4. CASE LoadKey(s)
  <2>1. \A q \in Solves \ {s} : solve'[q] = solve[q]
    BY <1>1, <1>4 DEF LoadKey
  <2>2. ~MayBill(s)'
    BY <1>1, <1>4 DEF LoadKey, MayBill, Solved
  <2>3. Billable' \subseteq Billable
    BY <2>1, <2>2 DEF Billable, MayBill
  <2> QED
    BY <1>4, <2>3 DEF LoadKey
<1>5. CASE Request(s) \/ Lock(s) \/ CheckFails(s)
  <2>1. Goes(s, "waiting") \/ Goes(s, "key") \/ Leaves(s)
    BY <1>5 DEF Request, Lock, CheckFails
  <2>2. UNCHANGED <<day, daily>>
    BY <1>5 DEF Request, Lock, CheckFails
  <2> QED
    BY <1>2, <1>3, <2>1, <2>2 DEF Phases
<1>6. CASE Work(s)
  <2>1. /\ solve'[s].phase = solve[s].phase /\ solve'[s].own = solve[s].own
        /\ \A q \in Solves \ {s} : solve'[q] = solve[q]
    BY <1>1, <1>6 DEF Work, Solved
  <2> QED
    BY <1>6, <2>1 DEF Work, Billable, MayBill
<1>7. CASE ReadAccumulator(s)
  <2>1. /\ solve[s].phase = "ending" /\ solve'[s].own = solve[s].own
        /\ \A q \in Solves \ {s} : solve'[q] = solve[q]
    BY <1>1, <1>7 DEF ReadAccumulator, Solved, At
  <2> QED
    BY <1>7, <2>1 DEF ReadAccumulator, Billable, MayBill
<1>8. CASE Open(s)
  BY <1>2, <1>3, <1>8 DEF Open, Phases, At
<1>9. CASE Close(s)
  BY <1>3, <1>9 DEF Close, Phases, At
<1>10. CASE RecordFails(s)
  BY <1>3, <1>10 DEF RecordFails, Phases
<1>11. CASE Beyond(s)
  BY <1>2, <1>3, <1>11 DEF Beyond, Over, AutoResolve, Recover, Phases
<1> QED
  BY <1>4, <1>5, <1>6, <1>7, <1>8, <1>9, <1>10, <1>11 DEF Check, Stream

LEMMA NextCovers ==
  ASSUME Bounded, ~Exempt, [Next]_vars
  PROVE  Covered'
<1> USE DEF Bounded
<1>1. ASSUME NEW s \in Solves, Check(s) \/ Stream(s) \/ Beyond(s)
      PROVE  Covered'
  BY <1>1, OthersShrink, ShrinkCovers, ReadUsageCovers, RecordCovers
<1>2. CASE SetKey
  <2>1. Billable' \subseteq Billable /\ UNCHANGED <<day, daily>>
    BY <1>2 DEF SetKey, Billable, MayBill
  <2> QED
    BY <2>1, ShrinkCovers
<1>3. CASE Midnight
  BY <1>3, MidnightCovers
<1>4. CASE Restart
  <2>1. Billable' \subseteq Billable /\ UNCHANGED <<day, daily>>
    BY <1>4 DEF Restart, Idle, Billable, MayBill
  <2> QED
    BY <2>1, ShrinkCovers
<1>5. CASE UNCHANGED vars
  <2>1. Billable' \subseteq Billable /\ UNCHANGED <<day, daily>>
    BY <1>5 DEF vars, Billable, MayBill
  <2> QED
    BY <2>1, ShrinkCovers
<1> QED
  BY <1>1, <1>2, <1>3, <1>4, <1>5 DEF Next

LEMMA InitBounded == Init => Bounded
<1> SUFFICES ASSUME Init PROVE Bounded
  OBVIOUS
<1>1. Billable = {}
  BY DEF Init, Idle, Billable, MayBill
<1>2. \A d \in Days : daily[d] = 0
  BY DEF Init
<1>3. day \in Days
  BY Bounds DEF Init, Days
<1> QED
  BY <1>1, <1>2, <1>3, InitTyped DEF Bounded, Covered, Room

\* Whatever overlaps with whatever, a day's record exceeds the quota by less than one full
\* solve for every slot.
THEOREM OverrunBounded == Spec => []OverrunIsBounded
<1>1. Init => Bounded
  BY InitBounded
<1>2. Bounded /\ [Next]_vars => Bounded'
  BY NextTyped, NextCovers DEF Bounded
<1>3. Bounded => OverrunIsBounded
  BY DEF Bounded, Covered, OverrunIsBounded, House
<1> QED
  BY <1>1, <1>2, <1>3, PTL DEF Spec
=============================================================================
