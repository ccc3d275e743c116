------------------------- MODULE LeanRunnerProofs -------------------------
(***************************************************************************)
(* Theorems about LeanRunner, for any callers, pieces of code, limits and  *)
(* bounds.                                                                 *)
(*                                                                         *)
(* What is remembered is right about its key (Good) and what a caller      *)
(* holds is right about its code (CallTrue), in every state of the check,  *)
(* so an answer is right wherever it comes from.  A wrong refusal needs a  *)
(* workspace with missing files, and as long as nothing goes wrong and     *)
(* nobody interferes Lean runs only in a workspace that is whole (Quiet).  *)
(***************************************************************************)
EXTENDS LeanRunner, SequenceTheorems, TLAPS

-----------------------------------------------------------------------------
(* The invariant *)

AnyCode == Codes \union {NoCall.code}
Ends == {"none", "succeeded", "failed", "cancelled", "timeout"}
Entries == [key : [code : AnyCode, draft : BOOLEAN], result : Result]
Calls == [step : Steps, kind : {"check", "formalize"}, code : AnyCode, draft : BOOLEAN,
          tries : Nat, result : Result, of : SUBSET AnyCode, probe : BOOLEAN, end : Ends]

Disturbed == budget.foreign < MaxForeign \/ budget.fault < MaxFaults \/ budget.cancel < MaxCancels

Right(code, draft, result) == result.ok => Holds(code, draft)
Earned(code, draft, result) == ~result.ok => (~Holds(code, draft) \/ (~result.whole /\ Disturbed))
Good == {e \in Entries : Right(e.key.code, e.key.draft, e.result) /\ Earned(e.key.code, e.key.draft, e.result)}

CallTrue(now) ==
  /\ Right(now.code, now.draft, now.result)
  /\ now.probe => (now.result.ok /\ now.of = {now.code})
  /\ now.step = "repairing" => (~now.result.ok /\ now.of = {now.code} /\ now.tries + 1 < Attempts)
  /\ (now.step = "done" /\ now.end # "cancelled") =>
       (now.of = {now.code} /\ now.end = IF now.result.ok THEN "succeeded" ELSE "failed")

Typed == /\ call \in [Callers -> Calls]
         /\ depsReady \in BOOLEAN /\ space \in Workspace /\ foreign \in {"idle"} \union Setup
         /\ budget \in [fault : 0 .. MaxFaults, foreign : 0 .. MaxForeign, cancel : 0 .. MaxCancels]
         /\ cache \in Seq(Entries) /\ Len(cache) <= CacheSize

\* As long as nothing goes wrong: the workspace is whole, or nobody has got past its set-up.
Whole == space.oleans = "full" /\ space.marker = "ours" /\ \A c \in Callers : call[c].step \notin Setup
Empty == /\ space.oleans = "none" /\ ~depsReady
         /\ \A c \in Callers : call[c].step \notin {"queued", "running", "killing"}
         /\ \A c, d \in Callers : (call[c].step \in Setup /\ call[d].step \in Setup) => c = d
Quiet == foreign = "idle" /\ space.scaffold \in {"none", "ours"} /\ (Whole \/ Empty)

Sound == /\ Typed
         /\ \A c \in Callers : CallTrue(call[c])
         /\ cache \in Seq(Good)
         /\ Disturbed \/ Quiet

-----------------------------------------------------------------------------
(* Results, entries and the cache *)

LEMMA Limits ==
  /\ MaxChecks \in Nat /\ CacheSize \in Nat /\ MaxRepairs \in Nat /\ Attempts \in Nat
  /\ MaxFaults \in Nat /\ MaxForeign \in Nat /\ MaxCancels \in Nat
BY RunnerAssumption DEF Attempts

LEMMA NoCallType ==
  /\ NoCall \in Calls /\ CallTrue(NoCall) /\ NoCall.step = "idle"
  /\ Cancelled \in Calls /\ CallTrue(Cancelled) /\ Cancelled.step = "done"
<1>1. NoCall \in Calls
  BY DEF NoCall, Calls, Steps, Failure, Result, Kinds, Ends, AnyCode
<1>2. NoCall.result.ok = FALSE /\ NoCall.probe = FALSE /\ NoCall.step = "idle"
  BY DEF NoCall, Failure
<1>3. Cancelled \in Calls /\ Cancelled.step = "done" /\ Cancelled.end = "cancelled"
  BY <1>1 DEF Cancelled, Calls, Steps, Ends
<1>4. Cancelled.result.ok = FALSE /\ Cancelled.probe = FALSE
  BY <1>1, <1>2 DEF Cancelled, Calls
<1>5. CallTrue(NoCall)
  BY <1>2 DEF CallTrue, Right
<1>6. CallTrue(Cancelled)
  BY <1>3, <1>4 DEF CallTrue, Right
<1> QED
  BY <1>1, <1>2, <1>3, <1>5, <1>6

LEMMA FailureType ==
  ASSUME NEW kind \in Kinds
  PROVE  /\ Failure(kind) \in Result /\ ~Failure(kind).ok /\ Failure(kind).kind = kind
         /\ \A code, draft : Right(code, draft, Failure(kind))
BY DEF Failure, Result, Right

\* An answer is right if the result is, and the probe of a proof's axioms changes nothing.
LEMMA AnswerIsTrue ==
  ASSUME call \in [Callers -> Calls], NEW c \in Callers, CallTrue(call[c]), NEW result \in Result,
         Right(call[c].code, call[c].draft, result), Answer(c, result)
  PROVE  /\ call' \in [Callers -> Calls] /\ CallTrue(call'[c])
         /\ \A d \in Callers \ {c} : call'[d] = call[d]
         /\ call'[c].step \in {"done", "repairing", "deps"}
<1> DEFINE now == [call[c] EXCEPT !.result = result, !.of = {call[c].code}]
<1>1. call[c] \in Calls /\ result.ok \in BOOLEAN /\ call[c].code \in AnyCode
  BY DEF Calls, Result
<1>2. now \in Calls /\ now.result = result /\ now.of = {now.code} /\ now.probe = call[c].probe
      /\ now.code = call[c].code /\ now.draft = call[c].draft /\ now.tries = call[c].tries
  BY <1>1 DEF Calls
<1>3. ASSUME NEW n \in Calls, n.of = {n.code}, Right(n.code, n.draft, n.result),
             n.probe => n.result.ok
      PROVE  /\ Ended(n) \in Calls /\ CallTrue(Ended(n)) /\ Ended(n).step = "done"
  <2>1. /\ Ended(n) \in Calls /\ Ended(n).step = "done" /\ Ended(n).result = n.result
        /\ Ended(n).of = n.of /\ Ended(n).code = n.code /\ Ended(n).draft = n.draft
        /\ Ended(n).probe = n.probe
        /\ Ended(n).end = IF n.result.ok THEN "succeeded" ELSE "failed"
    BY <1>3 DEF Ended, Calls, Steps, Ends
  <2>2. CallTrue(Ended(n))
    BY <1>3, <2>1 DEF CallTrue
  <2> QED
    BY <2>1, <2>2
<1>4. ASSUME NEW new \in Calls, CallTrue(new), new.step \in {"done", "repairing", "deps"}, Put(c, new)
      PROVE  /\ call' \in [Callers -> Calls] /\ CallTrue(call'[c])
             /\ \A d \in Callers \ {c} : call'[d] = call[d]
             /\ call'[c].step \in {"done", "repairing", "deps"}
  <2>1. call' = [call EXCEPT ![c] = new]
    BY <1>4 DEF Put
  <2>2. call'[c] = new
    BY <2>1
  <2> HIDE DEF now
  <2> QED
    BY <1>4, <2>1, <2>2
<1>5. CASE call[c].probe
  <2>1. Ended(call[c]) \in Calls /\ CallTrue(Ended(call[c])) /\ Ended(call[c]).step = "done"
    BY <1>1, <1>3, <1>5 DEF CallTrue
  <2> QED
    BY <1>4, <1>5, <2>1 DEF Answer
<1>6. CASE ~call[c].probe
  <2>1. PICK new \in Judged(c, result) : Put(c, new)
    BY <1>6 DEF Answer
  <2>2. \/ /\ ~result.ok /\ MayRepair(now) /\ new = [now EXCEPT !.step = "repairing"]
        \/ new = Ended(now)
        \/ result.ok /\ new = [now EXCEPT !.step = "deps", !.probe = TRUE]
    BY <2>1 DEF Judged
  <2>3. CASE ~result.ok /\ MayRepair(now) /\ new = [now EXCEPT !.step = "repairing"]
    <3>1. /\ new \in Calls /\ new.step = "repairing" /\ new.result = result /\ new.of = {new.code}
          /\ new.code = now.code /\ new.draft = now.draft /\ new.probe = now.probe /\ new.tries = now.tries
      BY <1>2, <2>3 DEF Calls, Steps
    <3>2. now.tries + 1 < Attempts
      BY <2>3 DEF MayRepair
    <3>3. CallTrue(new)
      BY <1>2, <1>6, <2>3, <3>1, <3>2 DEF CallTrue
    <3> HIDE DEF now
    <3> QED
      BY <1>4, <2>1, <3>1, <3>3
  <2>4. CASE new = Ended(now)
    <3>1. Ended(now) \in Calls /\ CallTrue(Ended(now)) /\ Ended(now).step = "done"
      <4> HIDE DEF now
      <4> QED
        BY <1>2, <1>3, <1>6
    <3> HIDE DEF now
    <3> QED
      BY <1>4, <2>1, <2>4, <3>1
  <2>5. CASE result.ok /\ new = [now EXCEPT !.step = "deps", !.probe = TRUE]
    <3>1. /\ new \in Calls /\ new.step = "deps" /\ new.result = result /\ new.of = {new.code}
          /\ new.code = now.code /\ new.draft = now.draft
      BY <1>2, <2>5 DEF Calls, Steps
    <3>2. CallTrue(new)
      BY <1>2, <2>5, <3>1 DEF CallTrue
    <3> HIDE DEF now
    <3> QED
      BY <1>4, <2>1, <3>1, <3>2
  <2> QED
    BY <2>2, <2>3, <2>4, <2>5
<1> QED
  BY <1>5, <1>6

LEMMA RemoveAtProperties ==
  ASSUME NEW S, NEW s \in Seq(S), NEW i \in 1 .. Len(s)
  PROVE  RemoveAt(s, i) \in Seq(S) /\ Len(RemoveAt(s, i)) = Len(s) - 1
<1>1. Len(s) \in Nat /\ \A j \in 1 .. Len(s) : s[j] \in S
  BY LenProperties, ElementOfSeq
<1>2. SubSeq(s, 1, i - 1) \in Seq(S) /\ Len(SubSeq(s, 1, i - 1)) = i - 1
  <2>1. \A j \in 1 .. i - 1 : s[j] \in S
    BY <1>1
  <2>2. Len(SubSeq(s, 1, i - 1)) = IF 1 <= i - 1 THEN (i - 1) - 1 + 1 ELSE 0
    BY <1>1, <2>1, SubSeqProperties
  <2> QED
    BY <1>1, <2>1, <2>2, SubSeqProperties
<1>3. SubSeq(s, i + 1, Len(s)) \in Seq(S) /\ Len(SubSeq(s, i + 1, Len(s))) = Len(s) - i
  <2>1. \A j \in i + 1 .. Len(s) : s[j] \in S
    BY <1>1
  <2>2. Len(SubSeq(s, i + 1, Len(s))) = IF i + 1 <= Len(s) THEN Len(s) - (i + 1) + 1 ELSE 0
    BY <1>1, <2>1, SubSeqProperties
  <2> QED
    BY <1>1, <2>1, <2>2, SubSeqProperties
<1> DEFINE before == SubSeq(s, 1, i - 1)
           after == SubSeq(s, i + 1, Len(s))
<1>4. RemoveAt(s, i) = before \o after
  BY DEF RemoveAt
<1> HIDE DEF before, after
<1>5. before \o after \in Seq(S) /\ Len(before \o after) = Len(before) + Len(after)
  BY <1>2, <1>3, ConcatProperties DEF before, after
<1>6. Len(before) = i - 1 /\ Len(after) = Len(s) - i
  BY <1>2, <1>3 DEF before, after
<1> QED
  BY <1>1, <1>4, <1>5, <1>6

\* The cache keeps its entries and its length, and gains the new one if it is worth keeping.
LEMMA RememberKeeps ==
  ASSUME NEW S, cache \in Seq(S), Len(cache) <= CacheSize, NEW c \in Callers, NEW result,
         (Cacheable(result) /\ ~call[c].probe) => [key |-> Key(c), result |-> result] \in S,
         Remember(c, result)
  PROVE  cache' \in Seq(S) /\ Len(cache') <= CacheSize
<1> DEFINE kept == IF Hits(c) = {} THEN cache ELSE RemoveAt(cache, CHOOSE i \in Hits(c) : TRUE)
           entry == [key |-> Key(c), result |-> result]
           all == Append(kept, entry)
           from == 1 + (IF Len(all) > CacheSize THEN Len(all) - CacheSize ELSE 0)
<1>1. CASE ~(Cacheable(result) /\ ~call[c].probe)
  BY <1>1 DEF Remember
<1>2. CASE Cacheable(result) /\ ~call[c].probe
  <2>1. kept \in Seq(S)
    <3>1. CASE Hits(c) = {}
      BY <3>1
    <3>2. CASE Hits(c) # {}
      <4>1. (CHOOSE i \in Hits(c) : TRUE) \in 1 .. Len(cache)
        BY <3>2, LenProperties DEF Hits
      <4>2. RemoveAt(cache, CHOOSE i \in Hits(c) : TRUE) \in Seq(S)
        BY <4>1, RemoveAtProperties
      <4> QED
        BY <3>2, <4>2
    <3> QED
      BY <3>1, <3>2
  <2>2. all \in Seq(S) /\ Len(all) \in Nat
    <3>1. entry \in S
      BY <1>2
    <3> HIDE DEF kept, entry
    <3>2. Append(kept, entry) \in Seq(S)
      BY <2>1, <3>1, AppendProperties
    <3> QED
      BY <3>2, LenProperties
  <2>3. cache' = SubSeq(all, from, Len(all))
    BY <1>2 DEF Remember
  <2> HIDE DEF all
  <2>4. from \in Nat /\ from >= 1 /\ Len(all) - from + 1 <= CacheSize
    BY <2>2, Limits
  <2>5. \A j \in from .. Len(all) : all[j] \in S
    BY <2>2, <2>4, ElementOfSeq
  <2> HIDE DEF from
  <2>6. /\ SubSeq(all, from, Len(all)) \in Seq(S)
        /\ Len(SubSeq(all, from, Len(all))) = IF from <= Len(all) THEN Len(all) - from + 1 ELSE 0
    BY <2>2, <2>4, <2>5, SubSeqProperties
  <2> QED
    BY <2>2, <2>3, <2>4, <2>6, Limits
<1> QED
  BY <1>1, <1>2

-----------------------------------------------------------------------------
(* Steps of a call *)

LEMMA SpendDisturbs ==
  ASSUME Typed, NEW what \in {"fault", "foreign", "cancel"}, Spend(what)
  PROVE  Disturbed' /\ budget' \in [fault : 0 .. MaxFaults, foreign : 0 .. MaxForeign, cancel : 0 .. MaxCancels]
<1>1. budget \in [fault : 0 .. MaxFaults, foreign : 0 .. MaxForeign, cancel : 0 .. MaxCancels]
  BY DEF Typed
<1>2. CASE what = "fault"
  BY <1>1, <1>2, Limits DEF Spend, Disturbed
<1>3. CASE what = "foreign"
  BY <1>1, <1>3, Limits DEF Spend, Disturbed
<1>4. CASE what = "cancel"
  BY <1>1, <1>4, Limits DEF Spend, Disturbed
<1> QED
  BY <1>2, <1>3, <1>4

\* What was wrong with a refusal stays wrong with it.
LEMMA GoodStays ==
  ASSUME cache \in Seq(Good), cache' = cache, Disturbed => Disturbed'
  PROVE  cache' \in Seq(Good')
<1>1. Good \subseteq Good'
  BY DEF Good, Earned, Right
<1> QED
  BY <1>1, SeqMonotonic

\* One call moves, and nothing that is remembered changes.
LEMMA CallMoves ==
  ASSUME Sound, NEW c \in Callers, call' \in [Callers -> Calls], CallTrue(call'[c]),
         \A d \in Callers \ {c} : call'[d] = call[d],
         cache' = cache, Disturbed => Disturbed',
         depsReady' \in BOOLEAN, space' \in Workspace, foreign' = foreign,
         budget' \in [fault : 0 .. MaxFaults, foreign : 0 .. MaxForeign, cancel : 0 .. MaxCancels],
         Disturbed' \/ Quiet'
  PROVE  Sound'
<1>1. Typed'
  BY DEF Sound, Typed
<1>2. \A d \in Callers : CallTrue(call'[d])
  BY DEF Sound
<1>3. cache' \in Seq(Good')
  BY GoodStays DEF Sound
<1>4. \A d \in Callers : CallTrue(call[d])'
  BY <1>2 DEF CallTrue, Right
<1> QED
  BY <1>1, <1>3, <1>4 DEF Sound

\* A call that does not come near the workspace leaves it as it was.
LEMMA QuietStays ==
  ASSUME Quiet, NEW c \in Callers, UNCHANGED <<space, depsReady, foreign>>,
         \A d \in Callers \ {c} : call'[d] = call[d],
         call'[c].step \in Setup => call[c].step \in Setup,
         call'[c].step \in {"queued", "running", "killing"} =>
           call[c].step \in {"queued", "running", "killing"}
  PROVE  Quiet'
<1>1. CASE Whole
  BY <1>1 DEF Quiet, Whole
<1>2. CASE Empty
  <2>1. \A d, e \in Callers : (call'[d].step \in Setup /\ call'[e].step \in Setup) => d = e
    BY <1>2 DEF Empty
  <2>2. \A d \in Callers : call'[d].step \notin {"queued", "running", "killing"}
    BY <1>2 DEF Empty
  <2> QED
    BY <1>2, <2>1, <2>2 DEF Quiet, Empty
<1> QED
  BY <1>1, <1>2 DEF Quiet

LEMMA GoIsTrue ==
  ASSUME Sound, NEW c \in Callers, NEW step \in Steps \ {"repairing", "done"}, Go(c, step)
  PROVE  /\ call' \in [Callers -> Calls] /\ CallTrue(call'[c]) /\ call'[c].step = step
         /\ \A d \in Callers \ {c} : call'[d] = call[d]
<1>1. call \in [Callers -> Calls] /\ call[c] \in Calls /\ CallTrue(call[c])
  BY DEF Sound, Typed
<1> DEFINE new == [call[c] EXCEPT !.step = step]
<1>2. /\ new \in Calls /\ new.step = step /\ new.result = call[c].result /\ new.of = call[c].of
      /\ new.code = call[c].code /\ new.draft = call[c].draft /\ new.probe = call[c].probe
  BY <1>1 DEF Calls
<1>3. CallTrue(new)
  BY <1>1, <1>2 DEF CallTrue
<1>4. call' = [call EXCEPT ![c] = new]
  BY DEF Go, Put
<1> HIDE DEF new
<1>5. call'[c] = new
  BY <1>1, <1>4
<1> QED
  BY <1>1, <1>2, <1>3, <1>4, <1>5

LEMMA CallSound ==
  ASSUME Sound, NEW c \in Callers, Call(c)
  PROVE  Sound'
<1>1. PICK kind \in {"check", "formalize"}, code \in Codes, draft \in BOOLEAN :
        Put(c, [NoCall EXCEPT !.step = "check", !.kind = kind, !.code = code, !.draft = draft])
  BY DEF Call
<1> DEFINE new == [NoCall EXCEPT !.step = "check", !.kind = kind, !.code = code, !.draft = draft]
<1>2. new \in Calls /\ new.step = "check" /\ new.result = NoCall.result /\ new.probe = NoCall.probe
  BY NoCallType DEF Calls, Steps, AnyCode
<1>3. CallTrue(new)
  <2>1. NoCall.result.ok = FALSE /\ NoCall.probe = FALSE
    BY DEF NoCall, Failure
  <2> HIDE DEF new
  <2> QED
    BY <1>2, <2>1 DEF CallTrue, Right
<1>4. call' = [call EXCEPT ![c] = new] /\ call \in [Callers -> Calls]
  BY <1>1 DEF Put, Sound, Typed
<1> HIDE DEF new
<1>5. /\ call' \in [Callers -> Calls] /\ CallTrue(call'[c]) /\ call'[c].step = "check"
      /\ \A d \in Callers \ {c} : call'[d] = call[d]
  BY <1>2, <1>3, <1>4
<1>6. UNCHANGED <<cache, depsReady, space, foreign, budget>>
  BY DEF Call
<1>7. Disturbed' \/ Quiet'
  <2>1. Quiet => Quiet'
    BY <1>5, <1>6, QuietStays DEF Setup
  <2> QED
    BY <1>6, <2>1 DEF Sound, Disturbed
<1> QED
  BY <1>5, <1>6, <1>7, CallMoves DEF Sound, Typed, Disturbed

\* An answer that costs nothing and changes neither the cache nor the workspace.
LEMMA AnswerSound ==
  ASSUME Sound, NEW c \in Callers, NEW result \in Result, Right(call[c].code, call[c].draft, result),
         Answer(c, result), UNCHANGED <<cache, depsReady, space, foreign, budget>>
  PROVE  Sound'
<1>1. /\ call' \in [Callers -> Calls] /\ CallTrue(call'[c])
      /\ \A d \in Callers \ {c} : call'[d] = call[d]
      /\ call'[c].step \in {"done", "repairing", "deps"}
  BY AnswerIsTrue DEF Sound, Typed
<1>2. Disturbed' \/ Quiet'
  <2>1. Quiet => Quiet'
    BY <1>1, QuietStays DEF Setup
  <2> QED
    BY <2>1 DEF Sound, Disturbed
<1> QED
  BY <1>1, <1>2, CallMoves DEF Sound, Typed, Disturbed

LEMMA CheckProofSound ==
  ASSUME Sound, NEW c \in Callers, CheckProof(c)
  PROVE  Sound'
<1>1. UNCHANGED <<depsReady, space, foreign, budget>>
  BY DEF CheckProof
<1>2. CASE Answer(c, Failure("placeholder")) /\ UNCHANGED cache
  BY <1>1, <1>2, AnswerSound, FailureType DEF Kinds
<1>3. CASE Hits(c) # {} /\ \E i \in Hits(c) : /\ Answer(c, cache[i].result)
                                              /\ cache' = Append(RemoveAt(cache, i), cache[i])
  <2>1. PICK i \in Hits(c) : Answer(c, cache[i].result) /\ cache' = Append(RemoveAt(cache, i), cache[i])
    BY <1>3
  <2>2. i \in 1 .. Len(cache) /\ cache[i].key = Key(c)
    BY LenProperties DEF Hits, Sound
  <2>3. cache[i] \in Good
    BY <2>2, ElementOfSeq DEF Sound
  <2>4. cache[i].result \in Result /\ Right(call[c].code, call[c].draft, cache[i].result)
    BY <2>2, <2>3 DEF Good, Entries, Key
  <2>5. /\ call' \in [Callers -> Calls] /\ CallTrue(call'[c])
        /\ \A d \in Callers \ {c} : call'[d] = call[d]
        /\ call'[c].step \in {"done", "repairing", "deps"}
    BY <2>1, <2>4, AnswerIsTrue DEF Sound, Typed
  <2>6. ASSUME NEW S, cache \in Seq(S), cache[i] \in S
        PROVE  cache' \in Seq(S) /\ Len(cache') = Len(cache)
    <3>1. RemoveAt(cache, i) \in Seq(S) /\ Len(RemoveAt(cache, i)) = Len(cache) - 1
      BY <2>2, <2>6, RemoveAtProperties
    <3>2. Len(cache) \in Nat
      BY <2>6, LenProperties
    <3>3. /\ Append(RemoveAt(cache, i), cache[i]) \in Seq(S)
          /\ Len(Append(RemoveAt(cache, i), cache[i])) = Len(RemoveAt(cache, i)) + 1
      BY <2>6, <3>1, AppendProperties
    <3> QED
      BY <2>1, <3>1, <3>2, <3>3
  <2>7. cache' \in Seq(Good) /\ cache' \in Seq(Entries) /\ Len(cache') <= CacheSize
    <3>1. cache[i] \in Entries
      BY <2>3 DEF Good
    <3> QED
      BY <2>3, <2>6, <3>1 DEF Sound, Typed
  <2>8. Good' = Good
    BY <1>1 DEF Good, Earned, Disturbed
  <2>9. Disturbed' \/ Quiet'
    <3>1. Quiet => Quiet'
      BY <1>1, <2>5, QuietStays DEF Setup
    <3> QED
      BY <1>1, <3>1 DEF Sound, Disturbed
  <2>10. \A d \in Callers : CallTrue(call[d])'
    BY <2>5 DEF Sound, CallTrue, Right
  <2>11. Typed'
    BY <1>1, <2>5, <2>7 DEF Sound, Typed
  <2> QED
    BY <2>7, <2>8, <2>9, <2>10, <2>11 DEF Sound
<1>4. CASE Go(c, "deps") /\ UNCHANGED cache
  <2>1. /\ call' \in [Callers -> Calls] /\ CallTrue(call'[c]) /\ call'[c].step = "deps"
        /\ \A d \in Callers \ {c} : call'[d] = call[d]
    BY <1>4, GoIsTrue DEF Steps
  <2>2. Disturbed' \/ Quiet'
    <3>1. Quiet => Quiet'
      BY <1>1, <2>1, QuietStays DEF Setup
    <3> QED
      BY <1>1, <3>1 DEF Sound, Disturbed
  <2> QED
    BY <1>1, <1>4, <2>1, <2>2, CallMoves DEF Sound, Typed, Disturbed
<1> QED
  BY <1>2, <1>3, <1>4 DEF CheckProof

\* An answer that is remembered: of a run, where it ends, is missing or is killed.
LEMMA RememberedSound ==
  ASSUME Sound, NEW c \in Callers, NEW result \in Result, Right(call[c].code, call[c].draft, result),
         Cacheable(result) => Earned(call[c].code, call[c].draft, result),
         Answer(c, result), Remember(c, result), UNCHANGED <<depsReady, space, foreign>>,
         budget' \in [fault : 0 .. MaxFaults, foreign : 0 .. MaxForeign, cancel : 0 .. MaxCancels],
         Disturbed => Disturbed'
  PROVE  Sound'
<1>1. /\ call' \in [Callers -> Calls] /\ CallTrue(call'[c])
      /\ \A d \in Callers \ {c} : call'[d] = call[d]
      /\ call'[c].step \in {"done", "repairing", "deps"}
  BY AnswerIsTrue DEF Sound, Typed
<1> DEFINE entry == [key |-> Key(c), result |-> result]
<1>2. entry \in Entries
  BY DEF Key, Entries, Sound, Typed, Calls
<1>3. Cacheable(result) => entry \in Good
  BY <1>2 DEF Good, Key
<1> HIDE DEF entry
<1>4. cache' \in Seq(Entries) /\ Len(cache') <= CacheSize
  BY <1>2, RememberKeeps DEF Sound, Typed, entry
<1>5. cache' \in Seq(Good)
  BY <1>3, RememberKeeps DEF Sound, Typed, entry
<1>6. cache' \in Seq(Good')
  <2>1. Good \subseteq Good'
    BY DEF Good, Earned, Right
  <2> QED
    BY <1>5, <2>1, SeqMonotonic
<1>7. Disturbed' \/ Quiet'
  <2>1. Quiet => Quiet'
    BY <1>1, QuietStays DEF Setup
  <2> QED
    BY <2>1 DEF Sound
<1>8. \A d \in Callers : CallTrue(call[d])'
  BY <1>1 DEF Sound, CallTrue, Right
<1>9. Typed'
  BY <1>1, <1>4 DEF Sound, Typed
<1> QED
  BY <1>6, <1>7, <1>8, <1>9 DEF Sound

\* A run that is refused its holes, or by Lean in a whole workspace, is refused rightly; in
\* one that is not whole something has gone wrong before.
LEMMA FinishSound ==
  ASSUME Sound, NEW c \in Callers, Finish(c)
  PROVE  Sound'
<1> DEFINE code == call[c].code
           draft == call[c].draft
<1>1. At(c, "running") /\ Answer(c, Verdict(c)) /\ Remember(c, Verdict(c))
  BY DEF Finish
<1>2. UNCHANGED <<depsReady, space, foreign, budget>>
  BY DEF Finish
<1>3. Verdict(c) \in Result
  BY DEF Verdict, Failure, Result, Kinds, Compiled
<1>4. Right(code, draft, Verdict(c))
  BY DEF Verdict, Failure, Right
<1>5. Earned(code, draft, Verdict(c))
  <2>1. CASE ~Gate(code, draft)
    BY <2>1 DEF Earned, Holds
  <2>2. CASE Gate(code, draft) /\ Compiled
    <3>1. CASE Holds(code, draft)
      BY <2>2, <3>1 DEF Verdict, Earned
    <3>2. CASE ~Holds(code, draft)
      BY <3>2 DEF Earned
    <3> QED
      BY <3>1, <3>2
  <2>3. CASE Gate(code, draft) /\ ~Compiled
    <3>1. ~Quiet
      BY <1>1, <2>3 DEF Quiet, Whole, Empty, Compiled, At
    <3>2. Disturbed
      BY <3>1 DEF Sound
    <3>3. ~Verdict(c).whole
      BY <2>3 DEF Verdict
    <3> QED
      BY <3>2, <3>3 DEF Earned
  <2> QED
    BY <2>1, <2>2, <2>3
<1> QED
  BY <1>1, <1>2, <1>3, <1>4, <1>5, RememberedSound DEF Sound, Typed, Disturbed

LEMMA MissingSound ==
  ASSUME Sound, NEW c \in Callers, Missing(c)
  PROVE  Sound'
<1> DEFINE result == Failure("lean_unavailable")
<1>1. result \in Result /\ ~Cacheable(result) /\ Right(call[c].code, call[c].draft, result)
  BY FailureType DEF Kinds, Cacheable
<1>2. Disturbed' /\ budget' \in [fault : 0 .. MaxFaults, foreign : 0 .. MaxForeign, cancel : 0 .. MaxCancels]
  BY SpendDisturbs DEF Missing, Sound
<1>3. Answer(c, result) /\ Remember(c, result) /\ UNCHANGED <<depsReady, space, foreign>>
  BY DEF Missing
<1> HIDE DEF result
<1> QED
  BY <1>1, <1>2, <1>3, RememberedSound

LEMMA TimeOutSound ==
  ASSUME Sound, NEW c \in Callers, TimeOut(c)
  PROVE  Sound'
<1>1. call \in [Callers -> Calls] /\ call[c] \in Calls /\ CallTrue(call[c])
  BY DEF Sound, Typed
<1> DEFINE new == [call[c] EXCEPT !.step = "killing", !.end = "timeout"]
<1>2. /\ new \in Calls /\ new.step = "killing" /\ new.result = call[c].result /\ new.of = call[c].of
      /\ new.code = call[c].code /\ new.draft = call[c].draft /\ new.probe = call[c].probe
  BY <1>1 DEF Calls, Steps, Ends
<1>3. CallTrue(new)
  BY <1>1, <1>2 DEF CallTrue
<1>4. call' = [call EXCEPT ![c] = new]
  BY DEF TimeOut, Put
<1> HIDE DEF new
<1>5. Disturbed' /\ budget' \in [fault : 0 .. MaxFaults, foreign : 0 .. MaxForeign, cancel : 0 .. MaxCancels]
  BY SpendDisturbs DEF TimeOut, Sound
<1>6. UNCHANGED <<cache, depsReady, space, foreign>>
  BY DEF TimeOut
<1>7. /\ call' \in [Callers -> Calls] /\ CallTrue(call'[c]) /\ \A d \in Callers \ {c} : call'[d] = call[d]
  BY <1>1, <1>2, <1>3, <1>4
<1> QED
  BY <1>5, <1>6, <1>7, CallMoves DEF Sound, Typed

\* A cancelled call is over, wherever it was.
LEMMA CancelledIsTrue ==
  ASSUME Sound, NEW c \in Callers, NEW step \in {"done", "killing"},
         Put(c, [Cancelled EXCEPT !.step = step])
  PROVE  /\ call' \in [Callers -> Calls] /\ CallTrue(call'[c]) /\ call'[c].step = step
         /\ \A d \in Callers \ {c} : call'[d] = call[d]
<1> DEFINE new == [Cancelled EXCEPT !.step = step]
<1>1. /\ new \in Calls /\ new.step = step /\ new.result = Cancelled.result /\ new.probe = Cancelled.probe
      /\ new.end = Cancelled.end
  BY NoCallType DEF Calls, Steps
<1>2. Cancelled.result.ok = FALSE /\ Cancelled.probe = FALSE /\ Cancelled.end = "cancelled"
  BY NoCallType DEF Cancelled, NoCall, Failure
<1>3. call' = [call EXCEPT ![c] = new] /\ call \in [Callers -> Calls]
  BY DEF Put, Sound, Typed
<1> HIDE DEF new
<1>4. CallTrue(new)
  BY <1>1, <1>2 DEF CallTrue, Right
<1>5. call'[c] = new
  BY <1>3
<1> QED
  BY <1>1, <1>3, <1>4, <1>5

LEMMA KilledSound ==
  ASSUME Sound, NEW c \in Callers, Killed(c)
  PROVE  Sound'
<1>1. At(c, "killing") /\ UNCHANGED <<depsReady, space, foreign, budget>>
  BY DEF Killed
<1>2. CASE call[c].end = "timeout"
  <2>1. Answer(c, Failure("timeout")) /\ Remember(c, Failure("timeout"))
    BY <1>2 DEF Killed
  <2>2. Failure("timeout") \in Result /\ ~Cacheable(Failure("timeout"))
        /\ Right(call[c].code, call[c].draft, Failure("timeout"))
    BY FailureType DEF Kinds, Cacheable
  <2> QED
    BY <1>1, <2>1, <2>2, RememberedSound DEF Sound, Typed, Disturbed
<1>3. CASE call[c].end # "timeout"
  <2>1. Put(c, Cancelled) /\ UNCHANGED cache
    BY <1>3 DEF Killed
  <2>2. Cancelled = [Cancelled EXCEPT !.step = "done"]
    BY NoCallType DEF Calls
  <2>3. /\ call' \in [Callers -> Calls] /\ CallTrue(call'[c]) /\ call'[c].step = "done"
        /\ \A d \in Callers \ {c} : call'[d] = call[d]
    BY <2>1, <2>2, CancelledIsTrue
  <2>4. Disturbed' \/ Quiet'
    <3>1. Quiet => Quiet'
      BY <1>1, <2>3, QuietStays DEF Setup
    <3> QED
      BY <1>1, <3>1 DEF Sound, Disturbed
  <2> QED
    BY <1>1, <2>1, <2>3, <2>4, CallMoves DEF Sound, Typed, Disturbed
<1> QED
  BY <1>2, <1>3

LEMMA CancelSound ==
  ASSUME Sound, NEW c \in Callers, Cancel(c)
  PROVE  Sound'
<1>1. /\ call' \in [Callers -> Calls] /\ CallTrue(call'[c])
      /\ \A d \in Callers \ {c} : call'[d] = call[d]
  <2>1. Cancelled = [Cancelled EXCEPT !.step = "done"]
    BY NoCallType DEF Calls
  <2>2. Put(c, [Cancelled EXCEPT !.step = "killing"]) \/ Put(c, Cancelled)
    BY DEF Cancel
  <2> QED
    BY <2>1, <2>2, CancelledIsTrue
<1>2. Disturbed' /\ budget' \in [fault : 0 .. MaxFaults, foreign : 0 .. MaxForeign, cancel : 0 .. MaxCancels]
  BY SpendDisturbs DEF Cancel, Sound
<1>3. space' \in Workspace
  BY DEF Cancel, Workspace, Sound, Typed
<1>4. UNCHANGED <<cache, depsReady, foreign>>
  BY DEF Cancel
<1> QED
  BY <1>1, <1>2, <1>3, <1>4, CallMoves DEF Sound, Typed

LEMMA RepairSound ==
  ASSUME Sound, NEW c \in Callers, Repair(c)
  PROVE  Sound'
<1>1. /\ call \in [Callers -> Calls] /\ call[c] \in Calls /\ CallTrue(call[c]) /\ call[c].step = "repairing"
  BY DEF Sound, Typed, Repair, At
<1>2. ~call[c].result.ok /\ call[c].of = {call[c].code} /\ call[c].tries + 1 < Attempts
  BY <1>1 DEF CallTrue
<1>3. UNCHANGED <<cache, depsReady, space, foreign, budget>>
  BY DEF Repair
<1>4. /\ call' \in [Callers -> Calls] /\ CallTrue(call'[c])
      /\ \A d \in Callers \ {c} : call'[d] = call[d]
      /\ call'[c].step \in {"check", "done"}
  <2>1. PICK code \in Codes :
          IF code = call[c].code THEN Put(c, Ended(call[c]))
          ELSE Put(c, [call[c] EXCEPT !.code = code, !.tries = @ + 1,
                         !.step = IF call[c].tries + 1 < Attempts THEN "check" ELSE "done",
                         !.end = IF call[c].tries + 1 < Attempts THEN @ ELSE "failed"])
    BY DEF Repair
  <2>2. CASE code = call[c].code
    <3> DEFINE new == Ended(call[c])
    <3>1. /\ new \in Calls /\ new.step = "done" /\ new.result = call[c].result /\ new.of = call[c].of
          /\ new.code = call[c].code /\ new.draft = call[c].draft /\ new.probe = call[c].probe
          /\ new.end = "failed"
      BY <1>1, <1>2 DEF Ended, Calls, Steps, Ends
    <3>2. CallTrue(new)
      <4> HIDE DEF new
      <4> QED
        BY <1>1, <1>2, <3>1 DEF CallTrue
    <3>3. call' = [call EXCEPT ![c] = new]
      BY <2>1, <2>2 DEF Put
    <3> HIDE DEF new
    <3>4. call'[c] = new
      BY <1>1, <3>3
    <3> QED
      BY <1>1, <3>1, <3>2, <3>3, <3>4
  <2>3. CASE code # call[c].code
    <3> DEFINE new == [call[c] EXCEPT !.code = code, !.tries = @ + 1, !.step = "check"]
    <3>1. call' = [call EXCEPT ![c] = [call[c] EXCEPT !.code = code, !.tries = @ + 1,
                                          !.step = "check", !.end = @]]
      BY <1>2, <2>1, <2>3 DEF Put
    <3>2. call' = [call EXCEPT ![c] = new]
      BY <1>1, <3>1 DEF Calls
    <3>3. /\ new \in Calls /\ new.step = "check" /\ new.result = call[c].result /\ new.probe = call[c].probe
      <4>1. code \in AnyCode
        BY DEF AnyCode
      <4>2. call[c].tries + 1 \in Nat
        BY <1>1 DEF Calls
      <4> QED
        BY <1>1, <4>1, <4>2 DEF Calls, Steps
    <3>4. CallTrue(new)
      <4> HIDE DEF new
      <4> QED
        BY <1>1, <1>2, <3>3 DEF CallTrue, Right
    <3> HIDE DEF new
    <3>5. call'[c] = new
      BY <1>1, <3>2
    <3> QED
      BY <1>1, <3>2, <3>3, <3>4, <3>5
  <2> QED
    BY <2>2, <2>3
<1>5. Disturbed' \/ Quiet'
  <2>1. Quiet => Quiet'
    BY <1>3, <1>4, QuietStays DEF Setup
  <2> QED
    BY <1>3, <2>1 DEF Sound, Disturbed
<1> QED
  BY <1>3, <1>4, <1>5, CallMoves DEF Sound, Typed, Disturbed

-----------------------------------------------------------------------------
(* The set-up *)

\* Without a disturbance a call passes the set-up of a whole workspace, or begins that of an
\* empty one alone.
LEMMA EnterDepsSound ==
  ASSUME Sound, NEW c \in Callers, EnterDeps(c)
  PROVE  Sound'
<1>1. ~DepsLocked /\ At(c, "deps") /\ UNCHANGED <<cache, foreign, budget>>
  BY DEF EnterDeps
<1>2. \A d \in Callers : call[d].step \notin Setup
  BY <1>1 DEF DepsLocked
<1>3. CASE Go(c, "queued") /\ UNCHANGED space /\ depsReady' \in {depsReady, TRUE} /\ (depsReady \/ IsReady)
  <2>1. /\ call' \in [Callers -> Calls] /\ CallTrue(call'[c]) /\ call'[c].step = "queued"
        /\ \A d \in Callers \ {c} : call'[d] = call[d]
    BY <1>3, GoIsTrue DEF Steps
  <2>2. Quiet => Quiet'
    <3>1. SUFFICES ASSUME Quiet PROVE Quiet'
      OBVIOUS
    <3>2. ~Empty
      BY <1>3 DEF Empty, IsReady, Healthy
    <3>3. Whole
      BY <3>1, <3>2 DEF Quiet
    <3> QED
      BY <1>1, <1>3, <2>1, <3>1, <3>3 DEF Quiet, Whole, Setup
  <2> QED
    BY <1>1, <1>3, <2>1, <2>2, CallMoves DEF Sound, Typed, Disturbed
<1>4. CASE /\ ~IsReady /\ Go(c, "updating") /\ depsReady' = FALSE
           /\ space' = [space EXCEPT !.scaffold = "ours", !.marker = IF @ = "ours" THEN @ ELSE "none"]
  <2>1. /\ call' \in [Callers -> Calls] /\ CallTrue(call'[c]) /\ call'[c].step = "updating"
        /\ \A d \in Callers \ {c} : call'[d] = call[d]
    BY <1>4, GoIsTrue DEF Steps
  <2>2. space \in Workspace
    BY DEF Sound, Typed
  <2>3. space' \in Workspace /\ space'.oleans = space.oleans /\ space'.scaffold = "ours"
    BY <1>4, <2>2 DEF Workspace
  <2>4. Quiet => Quiet'
    <3>1. SUFFICES ASSUME Quiet PROVE Quiet'
      OBVIOUS
    <3>2. Empty
      BY <1>4, <3>1 DEF Quiet, Whole, IsReady, Healthy
    <3>3. \A d, e \in Callers : (call'[d].step \in Setup /\ call'[e].step \in Setup) => d = e
      BY <1>2, <2>1
    <3>4. \A d \in Callers : call'[d].step \notin {"queued", "running", "killing"}
      BY <2>1, <3>2 DEF Empty
    <3> QED
      BY <1>1, <1>4, <2>3, <3>1, <3>2, <3>3, <3>4 DEF Quiet, Empty
  <2> QED
    BY <1>1, <1>4, <2>1, <2>3, <2>4, CallMoves DEF Sound, Typed, Disturbed
<1> QED
  BY <1>3, <1>4 DEF EnterDeps

LEMMA UpdateSound ==
  ASSUME Sound, NEW c \in Callers, Update(c)
  PROVE  Sound'
<1>1. At(c, "updating") /\ UNCHANGED <<cache, depsReady, foreign>> /\ space \in Workspace
  BY DEF Update, Sound, Typed
<1>2. CASE Go(c, "fetching") /\ UNCHANGED budget /\ \E oleans \in {"none", space.oleans} : space' = [space EXCEPT !.oleans = oleans]
  <2>1. /\ call' \in [Callers -> Calls] /\ CallTrue(call'[c]) /\ call'[c].step = "fetching"
        /\ \A d \in Callers \ {c} : call'[d] = call[d]
    BY <1>2, GoIsTrue DEF Steps
  <2>2. space' \in Workspace /\ space'.scaffold = space.scaffold /\ space'.oleans \in {"none", space.oleans}
    BY <1>1, <1>2 DEF Workspace
  <2>3. Quiet => Quiet'
    <3>1. SUFFICES ASSUME Quiet PROVE Quiet'
      OBVIOUS
    <3>2. Empty
      BY <1>1, <3>1 DEF Quiet, Whole, At, Setup
    <3>3. \A d, e \in Callers : (call'[d].step \in Setup /\ call'[e].step \in Setup) => d = e
      BY <1>1, <2>1, <3>2 DEF Empty, At, Setup
    <3>4. \A d \in Callers : call'[d].step \notin {"queued", "running", "killing"}
      BY <2>1, <3>2 DEF Empty
    <3>5. space'.oleans = "none"
      BY <2>2, <3>2 DEF Empty
    <3> QED
      BY <1>1, <2>2, <3>1, <3>2, <3>3, <3>4, <3>5 DEF Quiet, Empty
  <2> QED
    BY <1>1, <1>2, <2>1, <2>2, <2>3, CallMoves DEF Sound, Typed, Disturbed
<1>3. CASE Spend("fault") /\ Answer(c, Failure("none")) /\ UNCHANGED space
  <2>1. Failure("none") \in Result /\ Right(call[c].code, call[c].draft, Failure("none"))
    BY FailureType DEF Kinds
  <2>2. /\ call' \in [Callers -> Calls] /\ CallTrue(call'[c])
        /\ \A d \in Callers \ {c} : call'[d] = call[d]
    BY <1>3, <2>1, AnswerIsTrue DEF Sound, Typed
  <2>3. Disturbed' /\ budget' \in [fault : 0 .. MaxFaults, foreign : 0 .. MaxForeign, cancel : 0 .. MaxCancels]
    BY <1>3, SpendDisturbs DEF Sound
  <2> QED
    BY <1>1, <1>3, <2>2, <2>3, CallMoves DEF Sound, Typed
<1> QED
  BY <1>2, <1>3 DEF Update

LEMMA FetchSound ==
  ASSUME Sound, NEW c \in Callers, Fetch(c)
  PROVE  Sound'
<1>1. At(c, "fetching") /\ UNCHANGED <<cache, foreign>> /\ space \in Workspace
      /\ depsReady' = (space'.oleans # "none")
  BY DEF Fetch, Sound, Typed
<1>2. /\ call' \in [Callers -> Calls] /\ CallTrue(call'[c])
      /\ \A d \in Callers \ {c} : call'[d] = call[d]
      /\ depsReady' => call'[c].step = "queued"
  <2>1. CASE depsReady'
    <3>1. Go(c, "queued")
      BY <2>1 DEF Fetch
    <3> QED
      BY <3>1, GoIsTrue DEF Steps
  <2>2. CASE ~depsReady'
    <3>1. Answer(c, Failure("lean_unavailable"))
      BY <2>2 DEF Fetch
    <3>2. /\ Failure("lean_unavailable") \in Result
          /\ Right(call[c].code, call[c].draft, Failure("lean_unavailable"))
      BY FailureType DEF Kinds
    <3> QED
      BY <2>2, <3>1, <3>2, AnswerIsTrue DEF Sound, Typed
  <2> QED
    BY <2>1, <2>2
<1>3. CASE space' = [space EXCEPT !.oleans = "full", !.marker = "ours"] /\ UNCHANGED budget
  <2>1. space' \in Workspace /\ space'.oleans = "full" /\ space'.marker = "ours" /\ space'.scaffold = space.scaffold
    BY <1>1, <1>3 DEF Workspace
  <2>2. Quiet => Quiet'
    <3>1. SUFFICES ASSUME Quiet PROVE Quiet'
      OBVIOUS
    <3>2. Empty
      BY <1>1, <3>1 DEF Quiet, Whole, At, Setup
    <3>3. \A d \in Callers \ {c} : call[d].step \notin Setup
      BY <1>1, <3>2 DEF Empty, At, Setup
    <3>4. \A d \in Callers : call'[d].step \notin Setup
      BY <1>1, <1>2, <2>1, <3>3 DEF Setup
    <3> QED
      BY <1>1, <2>1, <3>1, <3>4 DEF Quiet, Whole
  <2> QED
    BY <1>1, <1>2, <1>3, <2>1, <2>2, CallMoves DEF Sound, Typed, Disturbed
<1>4. CASE /\ Spend("fault")
           /\ \E oleans \in {space.oleans, "partial"} :
                space' = [space EXCEPT !.oleans = oleans, !.marker = IF oleans = "none" THEN @ ELSE "ours"]
  <2>1. Disturbed' /\ budget' \in [fault : 0 .. MaxFaults, foreign : 0 .. MaxForeign, cancel : 0 .. MaxCancels]
    BY <1>4, SpendDisturbs DEF Sound
  <2>2. space' \in Workspace
    BY <1>1, <1>4 DEF Workspace
  <2>3. depsReady' \in BOOLEAN
    BY <1>1
  <2> QED
    BY <1>1, <1>2, <2>1, <2>2, <2>3, CallMoves DEF Sound, Typed
<1> QED
  BY <1>3, <1>4 DEF Fetch

LEMMA RunSound ==
  ASSUME Sound, NEW c \in Callers, Run(c)
  PROVE  Sound'
<1>1. At(c, "queued") /\ UNCHANGED <<cache, depsReady, space, foreign, budget>>
  BY DEF Run
<1>2. /\ call' \in [Callers -> Calls] /\ CallTrue(call'[c]) /\ call'[c].step = "running"
      /\ \A d \in Callers \ {c} : call'[d] = call[d]
  BY GoIsTrue DEF Run, Steps
<1>3. Disturbed' \/ Quiet'
  <2>1. Quiet => Quiet'
    BY <1>1, <1>2, QuietStays DEF Setup, At
  <2> QED
    BY <1>1, <2>1 DEF Sound, Disturbed
<1> QED
  BY <1>1, <1>2, <1>3, CallMoves DEF Sound, Typed, Disturbed

\* Another process disturbs the workspace, and nothing but it.
LEMMA ForeignSound ==
  ASSUME Sound, ForeignStart \/ ForeignUpdate \/ ForeignEnds
  PROVE  Sound'
<1>1. UNCHANGED <<call, cache, depsReady>> /\ space' \in Workspace /\ foreign' \in {"idle"} \union Setup
  BY DEF ForeignStart, ForeignUpdate, ForeignEnds, Sound, Typed, Workspace, Setup
<1>2. Disturbed' /\ budget' \in [fault : 0 .. MaxFaults, foreign : 0 .. MaxForeign, cancel : 0 .. MaxCancels]
  <2>1. CASE ForeignStart
    BY <2>1, SpendDisturbs DEF ForeignStart, Sound
  <2>2. CASE ForeignUpdate \/ ForeignEnds
    <3>1. foreign # "idle" /\ UNCHANGED budget
      BY <2>2 DEF ForeignUpdate, ForeignEnds
    <3>2. Disturbed
      BY <3>1 DEF Sound, Quiet
    <3> QED
      BY <3>1, <3>2 DEF Disturbed, Sound, Typed
  <2> QED
    BY <2>1, <2>2
<1>3. cache' \in Seq(Good')
  BY <1>1, <1>2, GoodStays DEF Sound
<1>4. \A c \in Callers : CallTrue(call[c])'
  BY <1>1 DEF Sound, CallTrue, Right
<1>5. Typed'
  BY <1>1, <1>2 DEF Sound, Typed
<1> QED
  BY <1>2, <1>3, <1>4, <1>5 DEF Sound

-----------------------------------------------------------------------------
(* The theorems *)

LEMMA InitSound == Init => Sound
<1> SUFFICES ASSUME Init PROVE Sound
  OBVIOUS
<1>1. call = [c \in Callers |-> NoCall] /\ cache = <<>> /\ depsReady = FALSE /\ foreign = "idle"
  BY DEF Init
<1>2. space \in Workspace /\ space.oleans = "none" /\ space.scaffold \in {"none", "ours"}
  BY DEF Init, Workspace
<1>3. budget \in [fault : 0 .. MaxFaults, foreign : 0 .. MaxForeign, cancel : 0 .. MaxCancels]
  BY Limits DEF Init
<1>4. cache \in Seq(Entries) /\ cache \in Seq(Good) /\ Len(cache) = 0
  BY <1>1, EmptySeq
<1>5. Quiet
  BY <1>1, <1>2, NoCallType DEF Quiet, Empty, Setup
<1>6. Typed
  <2>1. call \in [Callers -> Calls]
    BY <1>1, NoCallType
  <2>2. Len(cache) <= CacheSize
    BY <1>4, Limits
  <2> QED
    BY <1>1, <1>2, <1>3, <1>4, <2>1, <2>2 DEF Typed
<1> QED
  BY <1>1, <1>4, <1>5, <1>6, NoCallType DEF Sound

LEMMA StutterSound ==
  ASSUME Sound, UNCHANGED vars
  PROVE  Sound'
<1>1. UNCHANGED <<call, cache, depsReady, space, foreign, budget>>
  BY DEF vars
<1>2. Typed' /\ \A c \in Callers : CallTrue(call[c])'
  BY <1>1 DEF Sound, Typed, CallTrue, Right
<1>3. Disturbed' = Disturbed /\ (Quiet => Quiet')
  BY <1>1 DEF Disturbed, Quiet, Whole, Empty
<1>4. cache' \in Seq(Good')
  BY <1>1, <1>3, GoodStays DEF Sound
<1> QED
  BY <1>2, <1>3, <1>4 DEF Sound

LEMMA NextSound == Sound /\ [Next]_vars => Sound'
<1> SUFFICES ASSUME Sound, [Next]_vars PROVE Sound'
  OBVIOUS
<1>1. ASSUME NEW c \in Callers, Advance(c)
      PROVE  Sound'
  BY <1>1, CheckProofSound, EnterDepsSound, UpdateSound, FetchSound, RunSound, FinishSound, MissingSound,
     TimeOutSound, KilledSound, RepairSound DEF Advance
<1>2. ASSUME NEW c \in Callers, Call(c) \/ Cancel(c)
      PROVE  Sound'
  BY <1>2, CallSound, CancelSound
<1> QED
  BY <1>1, <1>2, ForeignSound, StutterSound DEF Next

\* The state is well formed: steps, results and the workspace, and a cache within its size.
THEOREM TypesHold == Spec => []TypeOK
<1>1. Sound => TypeOK
  <2> SUFFICES ASSUME Sound PROVE TypeOK
    OBVIOUS
  <2>1. \A i \in DOMAIN cache : cache[i].result \in Result
    <3>1. DOMAIN cache = 1 .. Len(cache) /\ \A i \in 1 .. Len(cache) : cache[i] \in Entries
      BY LenProperties, ElementOfSeq DEF Sound, Typed
    <3> QED
      BY <3>1 DEF Entries
  <2>2. \A c \in Callers : call[c].step \in Steps /\ call[c].result \in Result
    BY DEF Sound, Typed, Calls
  <2> QED
    BY <2>1, <2>2 DEF TypeOK, Sound, Typed
<1> QED
  BY <1>1, InitSound, NextSound, PTL DEF Spec

\* What is returned is about the code that was judged last, and what is returned as verified
\* Lean accepts in the mode that was asked for, from the cache as from a run.
THEOREM AnswersTrue == Spec => []AnswersAreTrue
<1>1. Sound => AnswersAreTrue
  <2> SUFFICES ASSUME Sound, NEW c \in Callers, At(c, "done"), call[c].end \in {"succeeded", "failed"}
               PROVE  /\ call[c].of = {call[c].code}
                      /\ call[c].probe => call[c].end = "succeeded"
                      /\ call[c].result.ok => Holds(call[c].code, call[c].draft)
    BY DEF AnswersAreTrue
  <2>1. CallTrue(call[c]) /\ call[c].step = "done" /\ call[c].end # "cancelled"
    BY DEF Sound, At
  <2>2. call[c].of = {call[c].code} /\ call[c].end = IF call[c].result.ok THEN "succeeded" ELSE "failed"
    BY <2>1 DEF CallTrue
  <2>3. call[c].probe => call[c].result.ok
    BY <2>1 DEF CallTrue
  <2>4. call[c].result.ok => Holds(call[c].code, call[c].draft)
    BY <2>1 DEF CallTrue, Right
  <2> QED
    BY <2>2, <2>3, <2>4
<1> QED
  BY <1>1, InitSound, NextSound, PTL DEF Spec

\* A refusal that is remembered is of code that fails, or of a check in a workspace with missing
\* files, and those come only from a broken set-up or another process.
THEOREM RefusalsEarned == Spec => []RefusalsAreEarned
<1>1. Sound => RefusalsAreEarned
  <2> SUFFICES ASSUME Sound, NEW i \in DOMAIN cache
               PROVE  Earned(cache[i].key.code, cache[i].key.draft, cache[i].result)
    BY DEF RefusalsAreEarned, Earned, Disturbed
  <2>1. cache[i] \in Good
    BY LenProperties, ElementOfSeq DEF Sound
  <2> QED
    BY <2>1 DEF Good
<1> QED
  BY <1>1, InitSound, NextSound, PTL DEF Spec
=============================================================================
