---------------------------- MODULE ProjectStore ----------------------------
(***************************************************************************)
(* The file-backed project store (web/project_store.py): two append-only   *)
(* JSONL logs, each with an in-memory index that is trusted while the      *)
(* file's signature is the expected one, compaction of the checkpoint log, *)
(* and once-only claims.                                                   *)
(*                                                                         *)
(* The server holds the store's lock during an operation, so one operation *)
(* is under way at a time; its file accesses are separate steps, between   *)
(* which another process may append and the server may die.  A solve's     *)
(* turn (web/agent_factory.py) takes several operations.                   *)
(***************************************************************************)
EXTENDS Integers, Sequences, FiniteSets, SequencesExt

CONSTANTS
  Sessions,      \* sessions of this server
  Foreign,       \* sessions of another process that appends to the same log
  Requests,      \* ids of pending interactions
  Solves,        \* solves whose turns the project archives
  Items,         \* ids of knowledge and review items
  Cuts,          \* what an interrupted write may leave, {} for nothing
  CompactAt,     \* CHECKPOINT_COMPACT_MIN_BYTES, in records
  MaxWrites,     \* bound: chunks ever appended
  MaxFaults,     \* bound: crashes and failed writes
  None

ASSUME SessionAssumption == Sessions \intersect Foreign = {} /\ None \notin Sessions \union Foreign
ASSUME RequestAssumption == None \notin Requests
ASSUME CutAssumption == Cuts \subseteq {"text", "newline"}
ASSUME BoundAssumption == CompactAt \in Nat /\ MaxWrites \in Nat /\ MaxFaults \in Nat

VARIABLES
  file,       \* the two logs: chunks as they were appended
  inode,      \* st_ino of the checkpoint log, new with every compaction
  sig,        \* the signature each index stands for; None: not loaded
  index,      \* _checkpoints_by_session
  state,      \* _state_index of the project
  op,         \* the operation that holds the lock
  solve,      \* how far each solve's turn has got
  raised,     \* requests that some run has used
  granted,    \* history: how many claims of each request were granted
  glued,      \* history: a record was appended to the rest of a cut line
  raced,      \* history: another process appended between a compaction and its stat
  writes, faults

memory == <<sig, index, state>>
history == <<raised, granted, glued, raced, writes, faults>>
vars == <<file, inode, memory, op, solve, history>>

-----------------------------------------------------------------------------
(* Records, chunks and lines *)

Logs == {"events", "checkpoints"}
Record == [session : Sessions \union Foreign, request : Requests \union {None},
           claimed : BOOLEAN, goal : BOOLEAN]
ASSUME NoneAssumption == None \notin Record \union [inode : Nat, size : Nat]
Event ==
  [type : {"project_saved", "conversation_deleted"}]
    \union [type : {"starred"}, value : BOOLEAN]
    \union [type : {"turn"}, solve : Solves, answered : BOOLEAN]
    \union [type : {"turn_updated"}, solve : Solves]
    \union [type : {"knowledge_added", "knowledge_updated", "knowledge_deleted",
                    "review_item_added", "review_item_resolved"}, item : Items]

\* A chunk is what one write left in the file: all of its line, the line without its
\* newline, or some of the text.
Chunk == [data : Record \union Event, cut : {"no"} \union Cuts]
Whole(data) == [data |-> data, cut |-> "no"]

\* A line is read when it is all of one record: a chunk that follows a cut one shares
\* its line, which json.loads refuses.
Readable(f) ==
  {i \in DOMAIN f : /\ f[i].cut = "no" \/ (f[i].cut = "newline" /\ i = Len(f))
                    /\ i > 1 => f[i - 1].cut = "no"}

NoProject == [project |-> FALSE, starred |-> FALSE, turns |-> {},
              facts |-> [i \in Items |-> None], review |-> <<>>, resolved |-> {}]
\* The rows of a solve that an update_turn event answers.
Answered(turns, s) ==
  {IF t.solve = s /\ ~t.extra THEN [t EXCEPT !.answered = TRUE] ELSE t : t \in turns}

\* _apply_event, _put_review_item.  Rows added under a known id are hidden by the first.
Apply(st, e) ==
  CASE e.type = "project_saved" -> [st EXCEPT !.project = TRUE]
    [] e.type = "starred" -> [st EXCEPT !.project = TRUE, !.starred = e.value]
    [] e.type = "turn" ->
         [st EXCEPT !.project = TRUE,
                    !.turns = @ \union {[solve |-> e.solve, extra |-> e.answered,
                                         answered |-> e.answered]}]
    [] e.type = "turn_updated" -> [st EXCEPT !.turns = Answered(@, e.solve)]
    [] e.type = "conversation_deleted" -> [st EXCEPT !.turns = {}]
    [] e.type = "knowledge_added" ->
         [st EXCEPT !.facts[e.item] = IF @ = None THEN "candidate" ELSE @]
    [] e.type = "knowledge_updated" ->
         [st EXCEPT !.facts[e.item] = IF @ = None THEN None ELSE "approved"]
    [] e.type = "knowledge_deleted" -> [st EXCEPT !.facts[e.item] = None]
    [] e.type = "review_item_added" ->
         [st EXCEPT !.review = <<e.item>> \o SelectSeq(@, LAMBDA i : i # e.item),
                    !.resolved = @ \ {e.item}]
    [] e.type = "review_item_resolved" ->
         [st EXCEPT !.resolved = IF \E i \in DOMAIN st.review : st.review[i] = e.item
                                 THEN @ \union {e.item} ELSE @]

\* The index that reading a log from its start builds, line after line.
EventsOf(f) ==
  LET upto[i \in 0..Len(f)] == IF i = 0 THEN NoProject
                               ELSE IF i \in Readable(f) THEN Apply(upto[i - 1], f[i].data)
                               ELSE upto[i - 1]
  IN upto[Len(f)]
Latest(f, s) ==
  {i \in Readable(f) : /\ f[i].data.session = s
                       /\ \A j \in Readable(f) : j > i => f[j].data.session # s}
Stored(f, s) == IF Latest(f, s) = {} THEN None ELSE f[CHOOSE i \in Latest(f, s) : TRUE].data
CheckpointsOf(f) == [s \in Sessions \union Foreign |-> Stored(f, s)]

\* _file_signature: st_dev and st_mtime_ns add nothing here, as every append changes
\* the size and every replacement the inode.  Records have one size.
Signature(l) == [inode |-> IF l = "checkpoints" THEN inode ELSE 0, size |-> Len(file[l])]

-----------------------------------------------------------------------------
(* The operations that hold the lock *)

Idle == [step |-> "none"]
Start(call, l, data) ==
  op' = [step |-> "stat", call |-> call, log |-> l, data |-> data, at |-> None]
At(step) == op' = [op EXCEPT !.step = step]

Init ==
  /\ file = [l \in Logs |-> <<>>] /\ inode = 0
  /\ sig = [l \in Logs |-> None]
  /\ index = [s \in Sessions \union Foreign |-> None]
  /\ state = NoProject
  /\ op = Idle
  /\ solve = [s \in Solves |-> "none"]
  /\ raised = {} /\ granted = [r \in Requests |-> 0]
  /\ glued = FALSE /\ raced = FALSE
  /\ writes = 0 /\ faults = 0

MayStart == op = Idle /\ writes < MaxWrites

\* write_checkpoint of a run: a snapshot of its trace, with a new request or none.
WriteCheckpoint(s, r) ==
  /\ MayStart
  /\ r \notin raised
  /\ raised' = raised \union ({r} \ {None})
  /\ Start("write", "checkpoints",
           [session |-> s, request |-> r, claimed |-> FALSE, goal |-> FALSE])
  /\ UNCHANGED <<file, inode, memory, solve, granted, glued, raced, writes, faults>>
\* claim_human_decision (a request) and claim_goal_action (none) first read.
Claim(s, r) ==
  /\ MayStart
  /\ Start("claim", "checkpoints",
           [session |-> s, request |-> r, claimed |-> TRUE, goal |-> FALSE])
  /\ UNCHANGED <<file, inode, memory, solve, history>>
\* get_checkpoint, list_checkpoints, and every read of the project's state.
Read(l) ==
  /\ MayStart
  /\ Start("read", l, None)
  /\ UNCHANGED <<file, inode, memory, solve, history>>
\* save_project, set_starred, add_review_item, resolve_review_item, add_many,
\* update_knowledge_item, delete_knowledge_item, delete_conversation.
AppendEvent(e) ==
  /\ MayStart
  /\ e.type \notin {"turn", "turn_updated"}
  /\ Start("append", "events", e)
  /\ UNCHANGED <<file, inode, memory, solve, history>>

\* persist_pending_turn, and persist_turn: update_turn's event, then its look-up, and
\* add_turn when that finds nothing or the update failed.
Turn(s, before, during, e) ==
  /\ MayStart
  /\ solve[s] = before
  /\ solve' = [solve EXCEPT ![s] = during]
  /\ Start("append", "events", e)
  /\ UNCHANGED <<file, inode, memory, history>>
PendingTurn(s) ==
  Turn(s, "none", "opening", [type |-> "turn", solve |-> s, answered |-> FALSE])
UpdateTurn(s) == Turn(s, "open", "updating", [type |-> "turn_updated", solve |-> s])
AddTurn(s) == Turn(s, "missing", "adding", [type |-> "turn", solve |-> s, answered |-> TRUE])
LookUp(s) ==
  /\ MayStart
  /\ solve[s] = "updated"
  /\ solve' = [solve EXCEPT ![s] = "looking"]
  /\ Start("read", "events", s)
  /\ UNCHANGED <<file, inode, memory, history>>

\* _ensure_event_index, _ensure_checkpoint_index: stat, and read unless nothing changed.
Stat ==
  /\ op.step = "stat"
  /\ op' = IF sig[op.log] = Signature(op.log) THEN [op EXCEPT !.step = "ready"]
           ELSE [op EXCEPT !.step = "load", !.at = Signature(op.log)]
  /\ UNCHANGED <<file, inode, memory, solve, history>>
Load ==
  /\ op.step = "load"
  /\ sig' = [sig EXCEPT ![op.log] = op.at]
  /\ IF op.log = "events"
     THEN state' = EventsOf(file["events"]) /\ UNCHANGED index
     ELSE index' = CheckpointsOf(file["checkpoints"]) /\ UNCHANGED state
  /\ op' = [op EXCEPT !.step = "ready", !.at = None]
  /\ UNCHANGED <<file, inode, solve, history>>

\* Mutant: an update is taken to have found its turn.
EndsTrusting(ok) ==
  solve' = [s \in Solves |->
    CASE solve[s] = "opening" -> IF ok THEN "open" ELSE "none"
      [] solve[s] = "updating" -> IF ok THEN "updated" ELSE "missing"
      [] solve[s] = "looking" -> "kept"
      [] solve[s] = "adding" -> IF ok THEN "kept" ELSE "failed"
      [] OTHER -> solve[s]]
\* What becomes of the solves whose operation has ended.
Ends(ok) ==
  solve' = [s \in Solves |->
    CASE solve[s] = "opening" -> IF ok THEN "open" ELSE "none"
      [] solve[s] = "updating" -> IF ok THEN "updated" ELSE "missing"
      [] solve[s] = "looking" -> IF \E t \in state.turns : t.solve = s
                                 THEN "kept" ELSE "missing"
      [] solve[s] = "adding" -> IF ok THEN "kept" ELSE "failed"
      [] OTHER -> solve[s]]
ReturnRead ==
  /\ op.step = "ready" /\ op.call = "read"
  /\ op' = Idle
  /\ Ends(TRUE)
  /\ UNCHANGED <<file, inode, memory, history>>

\* Mutant: a claimed request may be claimed again.
ClaimableTwice(c, r) == c # None /\ (r # None => c.request = r) /\ (r = None => ~c.goal)
Claimable(c, r) == /\ c # None
                   /\ IF r = None THEN ~c.goal ELSE c.request = r /\ ~c.claimed
\* The claim is checked on the checkpoint that was read, and that one written back.
Decide ==
  /\ op.step = "ready" /\ op.call = "claim"
  /\ LET c == index[op.data.session]
         r == op.data.request
     IN IF Claimable(c, r)
        THEN op' = [op EXCEPT !.step = "stat", !.call = IF r = None THEN "write" ELSE "grant",
                              !.data = IF r = None THEN [c EXCEPT !.goal = TRUE]
                                       ELSE [c EXCEPT !.claimed = TRUE]]
        ELSE op' = Idle
  /\ UNCHANGED <<file, inode, memory, solve, history>>

\* 404: no such project, review item or conversation.
Accepts(st, e) ==
  /\ e.type = "review_item_added" => st.project
  /\ e.type = "review_item_resolved" => \E i \in DOMAIN st.review : st.review[i] = e.item
  /\ e.type = "conversation_deleted" => st.turns # {}
Refuse ==
  /\ op.step = "ready" /\ op.call = "append"
  /\ ~Accepts(state, op.data)
  /\ op' = Idle
  /\ UNCHANGED <<file, inode, memory, solve, history>>

Writing == /\ op.step = "ready" /\ op.call \in {"write", "grant", "append"}
           /\ op.call = "append" => Accepts(state, op.data)
           /\ writes < MaxWrites
Glues(l) == file[l] # <<>> /\ file[l][Len(file[l])].cut # "no"
Put(l, chunk) ==
  /\ file' = [file EXCEPT ![l] = Append(@, chunk)]
  /\ glued' = (glued \/ Glues(l))
  /\ writes' = writes + 1
Write ==
  /\ Writing
  /\ Put(op.log, Whole(op.data))
  /\ At("written")
  /\ UNCHANGED <<inode, memory, solve, raised, granted, raced, faults>>

\* Mutant: the signature after a write is the file's own.
SignatureTaken(l) == Signature(l)
\* The size that was indexed plus what was written, not the size the file has now: an
\* append of another process in between shows in the next comparison.
SignatureExpected(l) == [Signature(l) EXCEPT !.size = sig[l].size + 1]
\* The index and its signature follow the write; a large log is compacted.
Commit ==
  /\ op.step = "written"
  /\ sig' = [sig EXCEPT ![op.log] = SignatureExpected(op.log)]
  /\ IF op.log = "events"
     THEN state' = Apply(state, op.data) /\ UNCHANGED index
     ELSE index' = [index EXCEPT ![op.data.session] = op.data] /\ UNCHANGED state
  /\ At(IF op.log = "checkpoints" /\ sig'[op.log].size >= CompactAt THEN "compact" ELSE "done")
  /\ UNCHANGED <<file, inode, solve, history>>
Return ==
  /\ op.step = "done"
  /\ granted' = IF op.call = "grant" THEN [granted EXCEPT ![op.data.request] = @ + 1]
                ELSE granted
  /\ op' = Idle
  /\ Ends(TRUE)
  /\ UNCHANGED <<file, inode, memory, raised, glued, raced, writes, faults>>

Live == {index[s] : s \in Sessions \union Foreign} \ {None}
\* Mutant: only sessions that wait for a decision are kept.
PendingOnly == {f \in [1..Cardinality({c \in Live : c.request # None}) ->
                         {Whole(c) : c \in Live}] :
                  {f[i].data : i \in DOMAIN f} = {c \in Live : c.request # None}}
\* The sequences of the live records, in any order.
Rewrites == {f \in [1..Cardinality(Live) -> {Whole(c) : c \in Live}] :
               {f[i].data : i \in DOMAIN f} = Live}
\* _maybe_compact_checkpoints: superseded records are half of the log or more.
Compact ==
  /\ op.step = "compact"
  /\ 2 * Cardinality(Live) <= sig["checkpoints"].size
  /\ \E f \in Rewrites : file' = [file EXCEPT !["checkpoints"] = f]
  /\ inode' = inode + 1
  /\ At("restat")
  /\ UNCHANGED <<memory, solve, history>>
\* Mostly live records, or an OSError while the copy is written.
NoCompaction ==
  /\ op.step = "compact"
  /\ 2 * Cardinality(Live) > sig["checkpoints"].size \/ faults < MaxFaults
  /\ At("done")
  /\ UNCHANGED <<file, inode, memory, solve, history>>
Restat ==
  /\ op.step = "restat"
  /\ sig' = [sig EXCEPT !["checkpoints"] = Signature("checkpoints")]
  /\ At("done")
  /\ UNCHANGED <<file, inode, index, state, solve, history>>

\* An OSError in the middle of a write: the exception leaves the operation.
WriteFails ==
  /\ Writing
  /\ faults < MaxFaults
  /\ faults' = faults + 1
  /\ \/ UNCHANGED <<file, glued, writes>>
     \/ \E cut \in Cuts : Put(op.log, [data |-> op.data, cut |-> cut])
  /\ op' = Idle
  /\ Ends(FALSE)
  /\ UNCHANGED <<inode, memory, raised, granted, raced>>

-----------------------------------------------------------------------------
(* The world around the lock *)

\* Another process appends a checkpoint of its own, or an event.
ExternalAppend(l, data) ==
  /\ writes < MaxWrites
  /\ Put(l, Whole(data))
  /\ raced' = (raced \/ (l = "checkpoints" /\ op.step = "restat"))
  /\ UNCHANGED <<inode, memory, op, solve, raised, granted, faults>>

\* The server dies, perhaps in the middle of a write, and starts again.
Crash ==
  /\ faults < MaxFaults
  /\ faults' = faults + 1
  /\ \/ UNCHANGED <<file, glued, writes>>
     \/ Writing /\ \E cut \in Cuts : Put(op.log, [data |-> op.data, cut |-> cut])
  /\ sig' = [l \in Logs |-> None]
  /\ index' = [s \in Sessions \union Foreign |-> None]
  /\ state' = NoProject
  /\ op' = Idle
  /\ solve' = [s \in Solves |-> IF solve[s] \in {"none", "kept"} THEN solve[s] ELSE "failed"]
  /\ UNCHANGED <<inode, raised, granted, raced>>

-----------------------------------------------------------------------------
Next ==
  \/ \E s \in Sessions, r \in Requests \union {None} : WriteCheckpoint(s, r) \/ Claim(s, r)
  \/ \E l \in Logs : Read(l)
  \/ \E e \in Event : AppendEvent(e)
  \/ \E s \in Solves : PendingTurn(s) \/ UpdateTurn(s) \/ LookUp(s) \/ AddTurn(s)
  \/ Stat \/ Load \/ ReturnRead \/ Decide \/ Refuse
  \/ Write \/ WriteFails \/ Commit \/ Return
  \/ Compact \/ NoCompaction \/ Restat
  \/ \E s \in Foreign : ExternalAppend("checkpoints", [session |-> s, request |-> None,
                                                       claimed |-> FALSE, goal |-> FALSE])
  \/ \E i \in Items : ExternalAppend("events", [type |-> "knowledge_added", item |-> i])
  \/ Crash

Spec == Init /\ [][Next]_vars

-----------------------------------------------------------------------------
TypeOK ==
  /\ file \in [Logs -> Seq(Chunk)] /\ inode \in Nat
  /\ sig \in [Logs -> [inode : Nat, size : Nat] \union {None}]
  /\ index \in [Sessions \union Foreign -> Record \union {None}]
  /\ granted \in [Requests -> Nat]
  /\ raised \subseteq Requests

(* Properties *)

Trusted(l) == sig[l] = Signature(l)

\* An index that is trusted is what reading its log again would build, whoever wrote
\* the log and whatever failed, unless a record shares a line with the rest of a cut
\* one or another process wrote between a compaction and its stat.
IndexIsReplay ==
  ~glued /\ ~raced =>
    /\ Trusted("events") => state = EventsOf(file["events"])
    /\ Trusted("checkpoints") => index = CheckpointsOf(file["checkpoints"])

\* What a step may do to the cell of a session: a write replaces it, a claim after it
\* compared what is stored.
CellStep(s) ==
  LET old == Stored(file["checkpoints"], s)
      new == Stored(file["checkpoints"], s)'
  IN new # old =>
       /\ new = op.data /\ writes' = writes + 1
       /\ new.claimed => /\ old # None /\ old.request = new.request
                         /\ old.claimed => new = [old EXCEPT !.goal = TRUE]
\* To its sessions the log is one cell each: compaction, reloads and other processes
\* leave it alone, only a write changes it, and a claim is a compare-and-set.
CheckpointsAreCells == [][\A s \in Sessions : ~glued' => CellStep(s)]_vars

\* "Persist a once-only decision claim before any approved action executes": a request
\* is claimed once, as long as no line was cut.
UncutClaimsAreOnce == ~glued => \A r \in Requests : granted[r] <= 1

\* A solve whose answer was archived has one answered turn on disk, or its conversation
\* was deleted after the answer was written.
AnswersAreKept ==
  LET log == file["events"]
      turns == EventsOf(log).turns
      Of(s) == {i \in Readable(log) :
                  log[i].data.type \in {"turn", "turn_updated"} /\ log[i].data.solve = s}
  IN ~glued =>
       \A s \in Solves : solve[s] = "kept" =>
         \/ Cardinality({t \in turns : t.solve = s /\ t.answered}) = 1
         \/ \E d \in Readable(log) : /\ log[d].data.type = "conversation_deleted"
                                     /\ \A i \in Of(s) : i < d
=============================================================================
