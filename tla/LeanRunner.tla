----------------------------- MODULE LeanRunner -----------------------------
(***************************************************************************)
(* Lean checks: LeanRunner (lean/runner.py) with its result cache, its     *)
(* semaphore and the workspace it prepares (lean/workspace.py), and those  *)
(* who call it: the lean_check tool, the code generator's repair loop      *)
(* (lean/codegen.py) and the jobs of the web server (web/lean_jobs.py).    *)
(*                                                                         *)
(* A piece of code is a model value and its truth a constant: Complete     *)
(* code is a proof, Sketches have holes that only draft mode tolerates,    *)
(* other code fails.  Another process may set the same workspace up.       *)
(***************************************************************************)
EXTENDS Naturals, Sequences, FiniteSets, SequencesExt

CONSTANTS
  Callers,
  Complete, Sketches, Wrong, \* the pieces of code
  MaxChecks,      \* max_concurrent_checks
  CacheSize,      \* result_cache_size
  MaxRepairs,     \* max_repair_attempts
  MaxFaults,      \* bound: time-outs, missing executables, failed downloads
  MaxForeign,     \* bound: set-ups by another process
  MaxCancels      \* bound: calls that are cancelled

ASSUME RunnerAssumption ==
  /\ MaxChecks \in Nat \ {0} /\ CacheSize \in Nat /\ MaxRepairs \in Nat
  /\ MaxFaults \in Nat /\ MaxForeign \in Nat /\ MaxCancels \in Nat

VARIABLES
  call,       \* what each caller is doing
  cache,      \* _RESULT_CACHE, the oldest entry first
  depsReady,  \* _LoopRuntime.deps_ready
  space,      \* the workspace directory
  foreign,    \* the set-up of another process: its step
  budget      \* what is left of the bounds

vars == <<call, cache, depsReady, space, foreign, budget>>

-----------------------------------------------------------------------------
(* Code, results and calls *)

Codes == Complete \union Sketches \union Wrong
\* The source gate reads the code and what it imports, without comments and strings; in
\* draft mode it lets holes pass.
Closed(code) == code \notin Sketches
Gate(code, draft) == draft \/ Closed(code)
\* What is read from Lean's output where it runs as it should.
Holds(code, draft) == Gate(code, draft) /\ code \notin Wrong
\* none is a success or a failure without a kind.  whole: the packages were all there.
Kinds == {"none", "placeholder", "lean_error", "timeout", "lean_unavailable"}
Result == [ok : BOOLEAN, kind : Kinds, whole : BOOLEAN]
Failure(kind) == [ok |-> FALSE, kind |-> kind, whole |-> TRUE]
\* lean_failure_policy
Policy(kind) ==
  IF kind \in {"timeout", "lean_unavailable"} THEN "retry"
  ELSE IF kind \in {"none", "lean_error"} THEN "repair" ELSE "replan"

Steps == {"idle", "check", "deps", "updating", "fetching", "queued", "running", "killing",
          "repairing", "done"}
Setup == {"updating", "fetching"}
\* of: the code the last result is about; probe: its axioms are asked for.
NoCall == [step |-> "idle", kind |-> "check", code |-> CHOOSE c \in Codes : TRUE, draft |-> FALSE,
           tries |-> 0, result |-> Failure("none"), of |-> {}, probe |-> FALSE, end |-> "none"]

Cancelled == [NoCall EXCEPT !.step = "done", !.end = "cancelled"]

At(c, step) == call[c].step = step
Put(c, new) == call' = [call EXCEPT ![c] = new]
Go(c, step) == Put(c, [call[c] EXCEPT !.step = step])
\* The call ends with the code and its result.
Ended(now) == [now EXCEPT !.step = "done", !.tries = 0,
                          !.end = IF now.result.ok THEN "succeeded" ELSE "failed"]
Attempts == IF MaxRepairs > 1 THEN MaxRepairs ELSE 1
\* The code generator tries again unless the failure cannot be repaired or was the last.
MayRepair(now) == now.tries + 1 < Attempts /\ Policy(now.result.kind) = "repair"
\* check_proof returns: a job or a lean_check ends with the first answer.
Judged(c, result) ==
  LET now == [call[c] EXCEPT !.result = result, !.of = {call[c].code}] IN
  IF now.kind = "formalize" /\ ~result.ok /\ MayRepair(now)
  THEN {[now EXCEPT !.step = "repairing"]}
  ELSE {Ended(now)} \union
       (IF result.ok /\ ~now.draft THEN {[now EXCEPT !.step = "deps", !.probe = TRUE]} ELSE {})
\* Mutant: what becomes of the probe is taken for the proof's result.
AnswerOfProbe(c, result) == \E now \in Judged(c, result) : Put(c, IF call[c].probe THEN Ended(now) ELSE now)
\* A proof's axioms are asked for if it declares a name; the verdict stays whatever comes.
Answer(c, result) ==
  IF call[c].probe THEN Put(c, Ended(call[c])) ELSE \E now \in Judged(c, result) : Put(c, now)

Holding == {c \in Callers : call[c].step \in {"running", "killing"}}
DepsLocked == \E c \in Callers : call[c].step \in Setup
Spend(what) == budget[what] > 0 /\ budget' = [budget EXCEPT ![what] = @ - 1]

-----------------------------------------------------------------------------
(* The workspace: whose scaffold and ready marker, and what is in .lake/packages *)

\* oleans: none where nothing is compiled, partial where a download broke off.
Workspace == [scaffold : {"none", "ours", "theirs"}, marker : {"none", "ours", "theirs"},
              oleans : {"none", "partial", "full"}]
Healthy == space.oleans # "none"
IsReady == space.marker = "ours" /\ Healthy

Init ==
  /\ call = [c \in Callers |-> NoCall]
  /\ cache = <<>> /\ depsReady = FALSE
  \* A directory that was never set up, or whose packages were removed since.
  /\ space \in {[scaffold |-> "none", marker |-> "none", oleans |-> "none"],
                [scaffold |-> "ours", marker |-> "ours", oleans |-> "none"]}
  /\ foreign = "idle"
  /\ budget = [fault |-> MaxFaults, foreign |-> MaxForeign, cancel |-> MaxCancels]

-----------------------------------------------------------------------------
(* check_proof *)

\* A check, of a job or of the lean_check tool in either mode, or the first draft of the
\* code generator.
Call(c) ==
  /\ At(c, "idle")
  /\ \E kind \in {"check", "formalize"}, code \in Codes, draft \in BOOLEAN :
       /\ draft => kind = "check"
       /\ Put(c, [NoCall EXCEPT !.step = "check", !.kind = kind, !.code = code, !.draft = draft])
  /\ UNCHANGED <<cache, depsReady, space, foreign, budget>>

\* Mutant: draft results share the key of strict ones.
KeyOfCode(c) == [code |-> call[c].code, draft |-> FALSE]
Key(c) == [code |-> call[c].code, draft |-> call[c].draft]
Hits(c) == {i \in DOMAIN cache : cache[i].key = Key(c)}
\* Empty code and code without a declaration are refused and not cached.
CheckProof(c) ==
  /\ At(c, "check")
  /\ \/ call[c].code \in Wrong /\ Answer(c, Failure("placeholder")) /\ UNCHANGED cache
     \/ /\ Hits(c) # {}
        /\ \E i \in Hits(c) : /\ Answer(c, cache[i].result)
                              /\ cache' = Append(RemoveAt(cache, i), cache[i])
     \/ Hits(c) = {} /\ Go(c, "deps") /\ UNCHANGED cache
  /\ UNCHANGED <<depsReady, space, foreign, budget>>

\* ensure_dependencies, up to its first wait: deps_ready counts as long as the scaffold is
\* this configuration's.
EnterDeps(c) ==
  /\ At(c, "deps") /\ ~DepsLocked
  /\ IF depsReady /\ space.scaffold \in {"ours", "none"}
     THEN Go(c, "queued") /\ UNCHANGED <<depsReady, space>>
     ELSE IF IsReady
     THEN Go(c, "queued") /\ depsReady' = TRUE /\ UNCHANGED space
     ELSE /\ Go(c, "updating") /\ depsReady' = FALSE
          /\ space' = [space EXCEPT !.scaffold = "ours",
                                    !.marker = IF @ = "ours" THEN @ ELSE "none"]
  /\ UNCHANGED <<cache, foreign, budget>>

\* lake update, which may fetch the packages anew; a failure has no kind.
Update(c) ==
  /\ At(c, "updating")
  /\ \/ /\ Go(c, "fetching") /\ UNCHANGED budget
        /\ \E oleans \in {"none", space.oleans} : space' = [space EXCEPT !.oleans = oleans]
     \/ Spend("fault") /\ Answer(c, Failure("none")) /\ UNCHANGED space
  /\ UNCHANGED <<cache, depsReady, foreign>>

\* lake exe cache get, and lake build of what it left out: a failure only warns, and the
\* workspace is ready once every package has some compiled file.
Fetch(c) ==
  /\ At(c, "fetching")
  /\ \/ /\ space' = [space EXCEPT !.oleans = "full", !.marker = "ours"]
        /\ UNCHANGED budget
     \/ /\ Spend("fault")
        /\ \E oleans \in {space.oleans, "partial"} :
             space' = [space EXCEPT !.oleans = oleans,
                                    !.marker = IF oleans = "none" THEN @ ELSE "ours"]
  /\ depsReady' = (space'.oleans # "none")
  /\ IF depsReady' THEN Go(c, "queued") ELSE Answer(c, Failure("lean_unavailable"))
  /\ UNCHANGED <<cache, foreign>>

Run(c) ==
  /\ At(c, "queued") /\ Cardinality(Holding) < MaxChecks
  /\ Go(c, "running")
  /\ UNCHANGED <<cache, depsReady, space, foreign, budget>>

\* Mutant: every result is cached.
CacheableAll(result) == TRUE
Cacheable(result) == result.kind \notin {"timeout", "lean_unavailable"}
Remember(c, result) ==
  LET kept == IF Hits(c) = {} THEN cache ELSE RemoveAt(cache, CHOOSE i \in Hits(c) : TRUE)
      all == Append(kept, [key |-> Key(c), result |-> result])
  IN cache' = IF Cacheable(result) /\ ~call[c].probe
              THEN SubSeq(all, 1 + (IF Len(all) > CacheSize THEN Len(all) - CacheSize ELSE 0), Len(all))
              ELSE cache

\* What the gate, Lean and the gate again make of the code.
Compiled == space.oleans = "full"
Verdict(c) ==
  IF ~Gate(call[c].code, call[c].draft) THEN Failure("placeholder")
  ELSE IF Compiled /\ Holds(call[c].code, call[c].draft) THEN [ok |-> TRUE, kind |-> "none", whole |-> TRUE]
  ELSE [ok |-> FALSE, kind |-> "lean_error", whole |-> Compiled]
Finish(c) ==
  /\ At(c, "running")
  /\ Answer(c, Verdict(c)) /\ Remember(c, Verdict(c))
  /\ UNCHANGED <<depsReady, space, foreign, budget>>

\* The executable is missing.
Missing(c) ==
  /\ At(c, "running") /\ Spend("fault")
  /\ Answer(c, Failure("lean_unavailable")) /\ Remember(c, Failure("lean_unavailable"))
  /\ UNCHANGED <<depsReady, space, foreign>>

\* The build times out: the process group is killed and awaited.
TimeOut(c) ==
  /\ At(c, "running") /\ Spend("fault")
  /\ Put(c, [call[c] EXCEPT !.step = "killing", !.end = "timeout"])
  /\ UNCHANGED <<cache, depsReady, space, foreign>>
Killed(c) ==
  /\ At(c, "killing")
  /\ IF call[c].end = "timeout"
     THEN /\ Answer(c, Failure("timeout"))
          /\ Remember(c, Failure("timeout"))
     ELSE Put(c, Cancelled) /\ UNCHANGED cache
  /\ UNCHANGED <<depsReady, space, foreign, budget>>

\* A solve, a time-out of the caller or the shutdown of the jobs cancels the call where it
\* waits; a running process is killed first.  A set-up is left half done.
Cancel(c) ==
  /\ call[c].step \notin {"idle", "done", "killing", "check"} /\ Spend("cancel")
  /\ Put(c, IF At(c, "running") THEN [Cancelled EXCEPT !.step = "killing"] ELSE Cancelled)
  /\ \/ UNCHANGED space
     \/ At(c, "fetching") /\ ~Compiled /\ space' = [space EXCEPT !.oleans = "partial"]
  /\ UNCHANGED <<cache, depsReady, foreign>>

-----------------------------------------------------------------------------
(* The code generator *)

\* Mutant: attempts are not counted.
RepairUncounted(c) ==
  /\ At(c, "repairing")
  /\ \E code \in Codes :
       IF code = call[c].code THEN Put(c, Ended(call[c]))
       ELSE Put(c, [call[c] EXCEPT !.step = "check", !.code = code])
  /\ UNCHANGED <<cache, depsReady, space, foreign, budget>>
\* The model writes other code, or the same again, which ends the loop.
Repair(c) ==
  /\ At(c, "repairing")
  /\ \E code \in Codes :
       IF code = call[c].code THEN Put(c, Ended(call[c]))
       ELSE Put(c, [call[c] EXCEPT !.code = code, !.tries = @ + 1,
                      !.step = IF call[c].tries + 1 < Attempts THEN "check" ELSE "done",
                      !.end = IF call[c].tries + 1 < Attempts THEN @ ELSE "failed"])
  /\ UNCHANGED <<cache, depsReady, space, foreign, budget>>

-----------------------------------------------------------------------------
(* Another process: setup_cli --force, or a server with another configuration *)

ForeignStart ==
  /\ foreign = "idle" /\ Spend("foreign")
  /\ \E config \in {"ours", "theirs"} : space' = [space EXCEPT !.scaffold = config, !.marker = "none"]
  /\ foreign' = "updating"
  /\ UNCHANGED <<call, cache, depsReady>>

ForeignUpdate ==
  /\ foreign = "updating"
  /\ \E oleans \in {"none", space.oleans} : space' = [space EXCEPT !.oleans = oleans]
  /\ foreign' = "fetching"
  /\ UNCHANGED <<call, cache, depsReady, budget>>

ForeignEnds ==
  /\ foreign = "fetching"
  /\ \/ space' = [space EXCEPT !.oleans = "full", !.marker = space.scaffold]
     \/ UNCHANGED space
  /\ foreign' = "idle"
  /\ UNCHANGED <<call, cache, depsReady, budget>>

Advance(c) ==
  \/ CheckProof(c) \/ EnterDeps(c) \/ Update(c) \/ Fetch(c) \/ Run(c) \/ Finish(c)
  \/ Missing(c) \/ TimeOut(c) \/ Killed(c) \/ Repair(c)
Next ==
  \/ \E c \in Callers : Call(c) \/ Advance(c) \/ Cancel(c)
  \/ ForeignStart \/ ForeignUpdate \/ ForeignEnds

Spec == Init /\ [][Next]_vars
\* A call goes on as long as it can; every command it waits for ends or times out.
FairSpec == Spec /\ \A c \in Callers : WF_vars(Advance(c))

-----------------------------------------------------------------------------
(* Properties *)

\* The state is well formed.
TypeOK ==
  /\ depsReady \in BOOLEAN /\ space \in Workspace /\ foreign \in {"idle"} \union Setup
  /\ Len(cache) <= CacheSize
  /\ \A i \in DOMAIN cache : cache[i].result \in Result
  /\ \A c \in Callers : call[c].step \in Steps /\ call[c].result \in Result

\* What a job, a tool or the code generator returns is the code that was judged last, and
\* code that is returned as verified is what Lean accepts in the mode that was asked for,
\* from the cache as from a run: a draft never becomes a proof, and a proof whose axioms
\* could not be printed stays one.
AnswersAreTrue ==
  \A c \in Callers : At(c, "done") /\ call[c].end \in {"succeeded", "failed"} =>
    /\ call[c].of = {call[c].code}
    /\ call[c].probe => call[c].end = "succeeded"
    /\ call[c].result.ok => Holds(call[c].code, call[c].draft)

\* A refusal is remembered only for code that fails: no time-out, missing executable or
\* failed set-up turns into a verdict.  Checks in a workspace with missing files are the
\* exception, which takes a broken download or a set-up by another process.
RefusalsAreEarned ==
  \A i \in DOMAIN cache : LET entry == cache[i] IN
    ~entry.result.ok => \/ ~Holds(entry.key.code, entry.key.draft)
                        \/ /\ ~entry.result.whole
                           /\ \/ budget.foreign < MaxForeign \/ budget.fault < MaxFaults
                              \/ budget.cancel < MaxCancels

\* Every call ends: no set-up, queue, repair loop or kill keeps it for ever.
CallsEnd == \A c \in Callers : ~At(c, "idle") ~> At(c, "done")
=============================================================================
