-------------------------- MODULE KnowledgeProofs --------------------------
(***************************************************************************)
(* Theorems about Knowledge, for any claims, jobs, cards and bounds.       *)
(*                                                                         *)
(* Every write to a store is an insertion at a fresh identifier, an update *)
(* that keeps the status, or a deletion (Lives).  So what a job has read   *)
(* of an item's status stays true until it writes (JobFits), however many  *)
(* other jobs write in between.                                            *)
(***************************************************************************)
EXTENDS Knowledge, TLAPS

Fields == {"claim", "status", "evidence", "zh"}
SoundRow(row) == DOMAIN row = Fields /\ (row.status = "verified" => row.evidence \in Provable)

ItemsOK ==
  /\ DOMAIN items = Stores /\ \A st \in Stores : DOMAIN items[st] = Ids
  /\ next \in [Stores -> Nat \ {0}]
  /\ \A st \in Stores, i \in Ids : items[st][i] # None => i < next[st] /\ SoundRow(items[st][i])

\* What a step may do to the items: StatusIsForLife, and identifiers are not used again.
Lives ==
  /\ \A st \in Stores : next[st] <= next'[st]
  /\ \A st \in Stores, i \in Ids :
       i < next[st] => \/ items'[st][i] = None
                       \/ items[st][i] # None /\ items'[st][i].status = items[st][i].status

Operations == [do : {"revise"}, id : Ids, field : {"claim"}, value : Claims]
              \union [do : {"discard"}, id : Ids] \union [do : {"propose"}, value : Claims]

\* An operation of the evaluator does not aim at an item that is protected now.
Spares(o, its, nxt) ==
  o.do # "propose" => o.id < nxt /\ (its[o.id] = None \/ its[o.id].status \notin Protected)

\* What a job remembers fits the items of the store as they are.
JobFits(b, its, nxt) ==
  /\ b.op = "learn" => b.sol \in Solutions
  /\ b.op = "write" => b.field \in {"zh", "claim"}
  /\ b.op = "evaluate" => \A i \in Ids : b.seen[i] # None =>
                            i < nxt /\ (its[i] = None \/ its[i].status = b.seen[i].status)
  /\ b.op = "curate" => /\ b.todo \in Seq(Operations)
                        /\ \A n \in 1 .. Len(b.todo) : Spares(b.todo[n], its, nxt)

JobsFit == DOMAIN job = Jobs /\ \A j \in Jobs : JobFits(job[j], items[Home], next[Home])

KnowledgeInv == cloud \in BOOLEAN /\ ItemsOK /\ JobsFit

-----------------------------------------------------------------------------
(* Writes *)

LEMMA HomeIsAStore == Home \in Stores
BY DEF Home, Stores

LEMMA RowsAreSound ==
  ASSUME NEW c, NEW s, NEW e, s = "verified" => e \in Provable
  PROVE  SoundRow(Row(c, s, e))
BY DEF SoundRow, Row, Fields

LEMMA UnchangedLives ==
  ASSUME ItemsOK, UNCHANGED <<items, next>>
  PROVE  ItemsOK' /\ Lives
<1>1. ItemsOK'
  BY DEF ItemsOK
<1>2. Lives
  BY DEF ItemsOK, Lives, Ids
<1> QED
  BY <1>1, <1>2

LEMMA InsertLives ==
  ASSUME ItemsOK, NEW st \in Stores, NEW row, SoundRow(row), Insert(st, row)
  PROVE  ItemsOK' /\ Lives
<1>1. /\ next' = [next EXCEPT ![st] = @ + 1] /\ next'[st] = next[st] + 1
      /\ next' \in [Stores -> Nat \ {0}]
      /\ \A t \in Stores : next[t] <= next'[t] /\ next[t] \in Nat
  BY DEF ItemsOK, Insert
<1>2. /\ DOMAIN items' = Stores /\ \A t \in Stores : DOMAIN items'[t] = Ids
      /\ \A t \in Stores, i \in Ids :
           items'[t][i] = IF t = st /\ i = next[st] THEN row ELSE items[t][i]
  BY DEF ItemsOK, Insert
<1>3. \A t \in Stores, i \in Ids : items'[t][i] # None => i < next'[t] /\ SoundRow(items'[t][i])
  <2> SUFFICES ASSUME NEW t \in Stores, NEW i \in Ids, items'[t][i] # None
               PROVE  i < next'[t] /\ SoundRow(items'[t][i])
    OBVIOUS
  <2>1. CASE t = st /\ i = next[st]
    BY <1>1, <1>2, <2>1
  <2>2. CASE ~(t = st /\ i = next[st])
    <3>1. items'[t][i] = items[t][i] /\ items[t][i] # None
      BY <1>2, <2>2
    <3>2. i < next[t] /\ SoundRow(items[t][i])
      BY <3>1 DEF ItemsOK
    <3> QED
      BY <3>1, <3>2, <1>1 DEF Ids
  <2> QED
    BY <2>1, <2>2
<1>4. Lives
  BY <1>1, <1>2 DEF Lives, Ids
<1> QED
  BY <1>1, <1>2, <1>3, <1>4 DEF ItemsOK

\* One item of one store becomes another row of the same status, or nothing.
LEMMA RewriteLives ==
  ASSUME ItemsOK, NEW st \in Stores, NEW i, NEW row,
         items' = [items EXCEPT ![st][i] = row], UNCHANGED next,
         \/ row = None
         \/ items[st][i] # None /\ (i \in Ids => SoundRow(row) /\ row.status = items[st][i].status)
  PROVE  ItemsOK' /\ Lives
<1>1. /\ DOMAIN items' = Stores /\ \A t \in Stores : DOMAIN items'[t] = Ids
      /\ \A t \in Stores, k \in Ids :
           items'[t][k] = IF t = st /\ k = i THEN row ELSE items[t][k]
  BY DEF ItemsOK
<1>2. \A t \in Stores, k \in Ids : items'[t][k] # None => k < next[t] /\ SoundRow(items'[t][k])
  BY <1>1 DEF ItemsOK
<1>3. Lives
  BY <1>1 DEF Lives, ItemsOK, Ids
<1> QED
  BY <1>1, <1>2, <1>3 DEF ItemsOK

LEMMA UpdateLives ==
  ASSUME ItemsOK, NEW st \in Stores, NEW i, NEW f \in {"zh", "claim"}, NEW x,
         items' = Updated(st, i, f, x), UNCHANGED next
  PROVE  ItemsOK' /\ Lives
<1> DEFINE row == Patched(st, i, f, x)
<1>1. items' = [items EXCEPT ![st][i] = row]
  BY DEF Updated
<1>2. \/ row = None
      \/ items[st][i] # None /\ (i \in Ids => SoundRow(row) /\ row.status = items[st][i].status)
  <2>1. CASE items[st][i] = None
    BY <2>1 DEF Patched
  <2>2. CASE items[st][i] # None /\ i \in Ids
    <3>1. SoundRow(items[st][i])
      BY <2>2 DEF ItemsOK
    <3>2. SoundRow(Patch(items[st][i], f, x)) /\ Patch(items[st][i], f, x).status = items[st][i].status
      BY <3>1 DEF SoundRow, Patch, Fields
    <3> QED
      BY <2>2, <3>2 DEF Patched
  <2> QED
    BY <2>1, <2>2
<1> HIDE DEF row
<1> QED
  BY <1>1, <1>2, RewriteLives

LEMMA RemoveLives ==
  ASSUME ItemsOK, NEW st \in Stores, NEW i, items' = Removed(st, i), UNCHANGED next
  PROVE  ItemsOK' /\ Lives
BY RewriteLives DEF Removed
-----------------------------------------------------------------------------
(* What the jobs remember *)

Quiet(b) == b.op \notin {"learn", "write", "evaluate", "curate"}

LEMMA QuietFits ==
  ASSUME NEW b, Quiet(b), NEW its, NEW nxt
  PROVE  JobFits(b, its, nxt)
BY DEF Quiet, JobFits

\* What a job remembers still fits after any write of another.
LEMMA FitsSurvives ==
  ASSUME ItemsOK, ItemsOK', Lives, UNCHANGED cloud, NEW b, JobFits(b, items[Home], next[Home])
  PROVE  JobFits(b, items'[Home'], next'[Home'])
<1>1. Home' = Home /\ Home \in Stores
  BY HomeIsAStore DEF Home
<1>2. \A i \in Ids : /\ i < next[Home] => i < next'[Home]
                     /\ i < next[Home] => \/ items'[Home][i] = None
                                          \/ items[Home][i] # None /\ items'[Home][i].status = items[Home][i].status
  BY <1>1 DEF Lives, ItemsOK, Ids
<1>3. b.op = "evaluate" => \A i \in Ids : b.seen[i] # None =>
        i < next'[Home] /\ (items'[Home][i] = None \/ items'[Home][i].status = b.seen[i].status)
  BY <1>2 DEF JobFits
<1>4. ASSUME b.op = "curate", NEW n \in 1 .. Len(b.todo), Spares(b.todo[n], items[Home], next[Home])
      PROVE  Spares(b.todo[n], items'[Home], next'[Home])
  <2>1. b.todo[n] \in Operations
    BY <1>4 DEF JobFits
  <2>2. b.todo[n].do # "propose" => b.todo[n].id \in Ids
    BY <2>1 DEF Operations
  <2> QED
    BY <2>2, <1>2, <1>4 DEF Spares
<1> QED
  BY <1>1, <1>3, <1>4 DEF JobFits

\* A step of one job that lets the items live and leaves it fitting memories.
LEMMA FittingStep ==
  ASSUME KnowledgeInv, ItemsOK', Lives, UNCHANGED cloud, NEW j \in Jobs, NEW b, Becomes(j, b),
         JobFits(b, items'[Home'], next'[Home'])
  PROVE  KnowledgeInv' /\ Lives
<1>1. DOMAIN job' = Jobs /\ \A k \in Jobs : job'[k] = IF k = j THEN b ELSE job[k]
  BY DEF KnowledgeInv, JobsFit, Becomes
<1>2. \A k \in Jobs : JobFits(job[k], items'[Home'], next'[Home'])
  BY FitsSurvives DEF KnowledgeInv, JobsFit
<1> QED
  BY <1>1, <1>2 DEF KnowledgeInv, JobsFit

LEMMA QuietStep ==
  ASSUME KnowledgeInv, ItemsOK', Lives, UNCHANGED cloud, NEW j \in Jobs, NEW b, Becomes(j, b), Quiet(b)
  PROVE  KnowledgeInv' /\ Lives
BY QuietFits, FittingStep

\* A step that leaves the items alone, too.
LEMMA ReadingStep ==
  ASSUME KnowledgeInv, UNCHANGED <<cloud, items, next>>, NEW j \in Jobs, NEW b, Becomes(j, b),
         JobFits(b, items[Home], next[Home])
  PROVE  KnowledgeInv' /\ Lives
<1>1. ItemsOK' /\ Lives
  BY UnchangedLives DEF KnowledgeInv
<1>2. JobFits(b, items'[Home'], next'[Home'])
  BY <1>1, FitsSurvives DEF KnowledgeInv
<1> QED
  BY <1>1, <1>2, FittingStep

LEMMA BeginStep ==
  ASSUME KnowledgeInv, NEW j \in Jobs, NEW b, Begin(j, b), JobFits(b, items[Home], next[Home])
  PROVE  KnowledgeInv' /\ Lives
BY ReadingStep DEF Begin, Becomes

LEMMA QuietReadingStep ==
  ASSUME KnowledgeInv, UNCHANGED <<cloud, items, next>>, NEW j \in Jobs, NEW b, Becomes(j, b), Quiet(b)
  PROVE  KnowledgeInv' /\ Lives
BY QuietFits, ReadingStep
-----------------------------------------------------------------------------
(* The actions *)

LEMMA InitHolds ==
  ASSUME Init
  PROVE  KnowledgeInv
<1>1. cloud \in BOOLEAN /\ Home \in Stores
  BY HomeIsAStore DEF Init
<1>2. \A row \in Earlier : SoundRow(row)
  <2>1. \A c \in Claims : SoundRow(Row(c, "candidate", None))
    BY RowsAreSound
  <2>2. \A c \in Claims, l \in Provable : SoundRow(Row(c, "verified", l))
    BY RowsAreSound
  <2> QED
    BY <2>1, <2>2 DEF Earlier
<1>3. PICK row \in Earlier \cup {None} :
        /\ items = [st \in Stores |-> [i \in Ids |-> IF st = Home /\ i = 1 THEN row ELSE None]]
        /\ next = [st \in Stores |-> IF st = Home /\ row # None THEN 2 ELSE 1]
  BY DEF Init
<1>4. ItemsOK
  <2>1. DOMAIN items = Stores /\ (\A st \in Stores : DOMAIN items[st] = Ids) /\ next \in [Stores -> Nat \ {0}]
    BY <1>3
  <2>2. ASSUME NEW st \in Stores, NEW i \in Ids, items[st][i] # None
        PROVE  i < next[st] /\ SoundRow(items[st][i])
    BY <2>2, <1>2, <1>3
  <2> QED
    BY <2>1, <2>2 DEF ItemsOK
<1>5. JobsFit
  <2>1. DOMAIN job = Jobs /\ \A j \in Jobs : job[j] = Idle
    BY DEF Init
  <2>2. Quiet(Idle)
    BY DEF Quiet, Idle
  <2> QED
    BY <2>1, <2>2, QuietFits DEF JobsFit
<1> QED
  BY <1>1, <1>4, <1>5 DEF KnowledgeInv

LEMMA QuietJobs ==
  /\ Quiet(Idle)
  /\ \A x, y : /\ Quiet([op |-> "extract", known |-> x]) /\ Quiet([op |-> "delete", id |-> x])
             /\ Quiet([op |-> "publish", card |-> x, rev |-> y]) /\ Quiet([op |-> "import", card |-> x, rev |-> y])
             /\ Quiet([op |-> "point", card |-> x, to |-> y]) /\ Quiet([op |-> "cite", card |-> x])
             /\ Quiet([op |-> "count", card |-> x, read |-> y])
  /\ \A x, y, z : /\ Quiet([op |-> "revise", card |-> x, read |-> y, rev |-> z])
                 /\ Quiet([op |-> "show", card |-> x, read |-> y, open |-> z])
BY DEF Quiet, Idle

LEMMA LearningStep ==
  ASSUME KnowledgeInv, NEW j \in Jobs, Consolidate(j) \/ Learn(j) \/ Evaluate(j)
  PROVE  KnowledgeInv' /\ Lives
<1>1. CASE Consolidate(j)
  <2>1. PICK s \in Solutions : Begin(j, [op |-> "learn", sol |-> s])
    BY <1>1 DEF Consolidate
  <2>2. JobFits([op |-> "learn", sol |-> s], items[Home], next[Home])
    BY DEF JobFits
  <2> QED
    BY <2>1, <2>2, BeginStep
<1>2. CASE Learn(j)
  <2>1. CASE UNCHANGED <<items, next>>
    BY <1>2, <2>1, QuietJobs, QuietReadingStep DEF Learn
  <2>2. ASSUME NEW row \in Memories(job[j].sol), Insert(Home, row)
        PROVE  KnowledgeInv' /\ Lives
    <3>1. job[j].sol \in Solutions
      BY <1>2 DEF Learn, KnowledgeInv, JobsFit, JobFits
    <3>2. PICK x \in Extractions : \E st \in Reviewed(job[j].sol, x[2]) : row = Row(x[1], st, x[2])
      BY <2>2 DEF Memories
    <3>3. \A st \in Reviewed(job[j].sol, x[2]) : st = "verified" => x[2] \in Provable
      BY <3>1 DEF Reviewed, Normalized, Solutions
    <3>4. SoundRow(row)
      BY <3>2, <3>3, RowsAreSound
    <3>5. ItemsOK' /\ Lives
      BY <2>2, <3>4, InsertLives, HomeIsAStore DEF KnowledgeInv
    <3> QED
      BY <1>2, <3>5, QuietJobs, QuietStep DEF Learn
  <2> QED
    BY <1>2, <2>1, <2>2 DEF Learn
<1>3. CASE Evaluate(j)
  <2> DEFINE b == [op |-> "evaluate", seen |-> items[Home]]
  <2>1. JobFits(b, items[Home], next[Home])
    BY HomeIsAStore DEF JobFits, KnowledgeInv, ItemsOK
  <2> QED
    BY <1>3, <2>1, BeginStep DEF Evaluate
<1> QED
  BY <1>1, <1>2, <1>3

\* The evaluator's answer, filtered by the snapshot, still spares what is protected now.
LEMMA CurateStep ==
  ASSUME KnowledgeInv, NEW j \in Jobs, Curate(j)
  PROVE  KnowledgeInv' /\ Lives
<1> DEFINE Spared(o) == o \in Operations /\ Spares(o, items[Home], next[Home])
           AllSpared(q) == q \in Seq(Operations) /\ \A n \in 1 .. Len(q) : Spared(q[n])
<1>1. PICK r \in {<<>>} \cup Revisions(j), d \in {<<>>} \cup Discards(j), p \in {<<>>} \cup Proposals :
        Becomes(j, [op |-> "curate", todo |-> r \o d \o p])
  BY DEF Curate
<1>2. \A i \in MayRevise(j) : i \in Ids /\ i < next[Home]
                              /\ (items[Home][i] = None \/ items[Home][i].status \notin Protected)
  BY DEF MayRevise, Seen, Curate, KnowledgeInv, JobsFit, JobFits
<1>3. AllSpared(<<>>) /\ \A o : Spared(o) => AllSpared(<<o>>)
  OBVIOUS
<1>4. AllSpared(r)
  <2>1. \A i \in MayRevise(j), f \in RevisionFields, c \in Claims : Spared(ToRevise(i, f, c))
    BY <1>2 DEF Spares, Operations, ToRevise, RevisionFields
  <2> HIDE DEF Spared, AllSpared
  <2> QED
    BY <1>3, <2>1 DEF Revisions
<1>5. AllSpared(d)
  <2>1. \A i \in MayDiscard(j) : i \in MayRevise(j)
    BY DEF MayDiscard
  <2>2. \A i \in MayDiscard(j) : Spared(ToDiscard(i))
    BY <1>2, <2>1 DEF Spares, Operations, ToDiscard
  <2> HIDE DEF Spared, AllSpared
  <2> QED
    BY <1>3, <2>2 DEF Discards
<1>6. AllSpared(p)
  <2>1. \A c \in Claims : Spared(ToPropose(c))
    BY DEF Spares, Operations, ToPropose
  <2> HIDE DEF Spared, AllSpared
  <2> QED
    BY <1>3, <2>1 DEF Proposals
<1>7. AllSpared(r \o d \o p)
  <2> HIDE DEF Spared
  <2>1. AllSpared(r \o d)
    BY <1>4, <1>5
  <2> QED
    BY <2>1, <1>6
<1>8. JobFits([op |-> "curate", todo |-> r \o d \o p], items[Home], next[Home])
  BY <1>7 DEF JobFits
<1> QED
  BY <1>1, <1>8, ReadingStep DEF Curate
LEMMA ApplyStep ==
  ASSUME KnowledgeInv, NEW j \in Jobs, ApplyOp(j)
  PROVE  KnowledgeInv' /\ Lives
<1> DEFINE todo == job[j].todo
           o == Head(todo)
           b == [op |-> "curate", todo |-> Tail(todo)]
<1>1. /\ todo \in Seq(Operations) /\ todo # <<>>
      /\ \A n \in 1 .. Len(todo) : Spares(todo[n], items[Home], next[Home])
  BY DEF ApplyOp, KnowledgeInv, JobsFit, JobFits
<1>2. ItemsOK' /\ Lives
  <2>1. CASE UNCHANGED <<items, next>>
    BY <2>1, UnchangedLives DEF KnowledgeInv
  <2>2. CASE o.do = "revise" /\ items' = Updated(Home, o.id, o.field, o.value) /\ UNCHANGED next
    <3>1. o \in Operations
      BY <1>1
    <3>2. o.field = "claim"
      BY <2>2, <3>1 DEF Operations
    <3> HIDE DEF o
    <3> QED
      BY <2>2, <3>2, UpdateLives, HomeIsAStore DEF KnowledgeInv
  <2>3. CASE o.do = "discard" /\ items' = Removed(Home, o.id) /\ UNCHANGED next
    BY <2>3, RemoveLives, HomeIsAStore DEF KnowledgeInv
  <2>4. CASE o.do = "propose" /\ Insert(Home, Row(o.value, "candidate", None))
    BY <2>4, RowsAreSound, InsertLives, HomeIsAStore DEF KnowledgeInv
  <2> QED
    BY <2>1, <2>2, <2>3, <2>4 DEF ApplyOp
<1>3. JobFits(job[j], items'[Home'], next'[Home'])
  BY <1>2, FitsSurvives DEF KnowledgeInv, JobsFit, ApplyOp
<1>4. JobFits(b, items'[Home'], next'[Home'])
  <2>1. /\ Tail(todo) \in Seq(Operations)
        /\ \A n \in 1 .. Len(Tail(todo)) : n + 1 \in 1 .. Len(todo) /\ Tail(todo)[n] = todo[n + 1]
    BY <1>1
  <2>2. \A n \in 1 .. Len(todo) : Spares(todo[n], items'[Home'], next'[Home'])
    BY <1>3 DEF ApplyOp, JobFits
  <2> QED
    BY <2>1, <2>2 DEF JobFits
<1> QED
  BY <1>2, <1>4, FittingStep DEF ApplyOp

LEMMA RouteStep ==
  ASSUME KnowledgeInv, NEW j \in Jobs, Routes(j)
  PROVE  KnowledgeInv' /\ Lives
<1>1. CASE Extract(j)
  BY <1>1, QuietJobs, QuietFits, BeginStep DEF Extract
<1>2. CASE Extracted(j)
  <2>1. CASE UNCHANGED <<items, next>>
    BY <1>2, <2>1, QuietJobs, QuietReadingStep DEF Extracted
  <2>2. CASE \E c \in Claims \ job[j].known : Insert(Home, Row(c, "candidate", None))
    <3>1. ItemsOK' /\ Lives
      BY <2>2, RowsAreSound, InsertLives, HomeIsAStore DEF KnowledgeInv
    <3> QED
      BY <1>2, <3>1, QuietJobs, QuietStep DEF Extracted
  <2> QED
    BY <1>2, <2>1, <2>2 DEF Extracted
<1>3. CASE Translate(j) \/ Edit(j)
  <2>1. ASSUME NEW i, NEW f \in {"zh", "claim"}, NEW x,
               Begin(j, [op |-> "write", id |-> i, field |-> f, value |-> x])
        PROVE  KnowledgeInv' /\ Lives
    <3>1. JobFits([op |-> "write", id |-> i, field |-> f, value |-> x], items[Home], next[Home])
      BY DEF JobFits
    <3> QED
      BY <2>1, <3>1, BeginStep
  <2> QED
    BY <1>3, <2>1 DEF Translate, Edit
<1>4. CASE Write(j)
  <2>1. job[j].field \in {"zh", "claim"}
    BY <1>4 DEF Write, KnowledgeInv, JobsFit, JobFits
  <2>2. ItemsOK' /\ Lives
    BY <1>4, <2>1, UpdateLives, HomeIsAStore DEF KnowledgeInv, Write
  <2> QED
    BY <1>4, <2>2, QuietJobs, QuietStep DEF Write
<1>5. CASE Delete(j)
  BY <1>5, QuietJobs, QuietFits, BeginStep DEF Delete
<1>6. CASE Deleted(j)
  <2>1. ItemsOK' /\ Lives
    BY <1>6, RemoveLives, HomeIsAStore DEF KnowledgeInv, Deleted
  <2> QED
    BY <1>6, <2>1, QuietJobs, QuietStep DEF Deleted
<1> QED
  BY <1>1, <1>2, <1>3, <1>4, <1>5, <1>6 DEF Routes

LEMMA CardStep ==
  ASSUME KnowledgeInv, NEW j \in Jobs, CardRoutes(j)
  PROVE  KnowledgeInv' /\ Lives
<1>1. CASE PublishCard(j)
  BY <1>1, QuietJobs, QuietReadingStep DEF PublishCard
<1>2. CASE Published(j)
  BY <1>2, QuietJobs, QuietReadingStep DEF Published
<1>3. CASE Revise(j)
  BY <1>3, QuietJobs, QuietFits, BeginStep DEF Revise
<1>4. CASE Revised(j)
  BY <1>4, QuietJobs, QuietReadingStep DEF Revised
<1>5. CASE Point(j)
  BY <1>5, QuietJobs, QuietReadingStep DEF Point
<1>6. CASE SetVisibility(j)
  BY <1>6, QuietJobs, QuietFits, BeginStep DEF SetVisibility
<1>7. CASE Shown(j)
  BY <1>7, QuietJobs, QuietReadingStep DEF Shown
<1>8. CASE Import(j)
  BY <1>8, QuietJobs, QuietFits, BeginStep DEF Import
<1>9. CASE Imported(j)
  <2>1. \E b : Becomes(j, b) /\ Quiet(b)
    BY <1>9, QuietJobs DEF Imported
  <2>2. CASE UNCHANGED <<items, next>>
    BY <1>9, <2>1, <2>2, QuietReadingStep DEF Imported
  <2>3. CASE Insert("local", ImportRow(job[j].rev))
    <3>1. SoundRow(ImportRow(job[j].rev))
      BY RowsAreSound DEF ImportRow, Reverified, Passes
    <3>2. ItemsOK' /\ Lives
      BY <2>3, <3>1, InsertLives DEF KnowledgeInv, Stores
    <3> QED
      BY <1>9, <2>1, <3>2, QuietStep DEF Imported
  <2> QED
    BY <1>9, <2>2, <2>3 DEF Imported
<1>10. CASE Cite(j) \/ Count(j)
  BY <1>10, QuietJobs, QuietReadingStep DEF Cite, Count
<1> QED
  BY <1>1, <1>2, <1>3, <1>4, <1>5, <1>6, <1>7, <1>8, <1>9, <1>10 DEF CardRoutes

LEMMA NextHolds ==
  ASSUME KnowledgeInv, [Next]_vars
  PROVE  KnowledgeInv' /\ Lives
<1>1. ASSUME NEW j \in Jobs, Learning(j)
      PROVE  KnowledgeInv' /\ Lives
  <2>1. CASE Curated(j)
    BY <2>1, QuietJobs, QuietReadingStep DEF Curated
  <2> QED
    BY <1>1, <2>1, LearningStep, CurateStep, ApplyStep DEF Learning
<1>2. ASSUME NEW j \in Jobs, Fail(j)
      PROVE  KnowledgeInv' /\ Lives
  BY <1>2, QuietJobs, QuietReadingStep DEF Fail
<1>3. CASE UNCHANGED vars
  <2>1. ItemsOK' /\ Lives
    BY <1>3, UnchangedLives DEF KnowledgeInv, vars
  <2>2. JobsFit'
    BY <1>3 DEF KnowledgeInv, JobsFit, JobFits, Spares, Home, vars
  <2> QED
    BY <1>3, <2>1, <2>2 DEF KnowledgeInv, vars
<1> QED
  BY <1>1, <1>2, <1>3, RouteStep, CardStep DEF Next

-----------------------------------------------------------------------------
(* The theorems *)

THEOREM MemoriesFit == Spec => []KnowledgeInv
<1>1. Init => KnowledgeInv
  BY InitHolds
<1>2. KnowledgeInv /\ [Next]_vars => KnowledgeInv'
  BY NextHolds
<1> QED
  BY <1>1, <1>2, PTL DEF Spec

\* Whatever flows write and whenever, an item that calls itself verified carries Lean code
\* that passes: consolidation takes the status from the proofs of the solve, an import from
\* checking again, and no update touches status or evidence.
THEOREM VerifiedMeansProved == Spec => []VerifiedCarriesProof
<1>1. KnowledgeInv => VerifiedCarriesProof
  BY DEF KnowledgeInv, ItemsOK, SoundRow, VerifiedCarriesProof, Live
<1> QED
  BY <1>1, MemoriesFit, PTL

\* No late write changes the status of an item or brings a deleted one back.
THEOREM StatusesStay == Spec => StatusIsForLife
<1>1. KnowledgeInv /\ [Next]_vars =>
        [\A st \in Stores, i \in Ids :
           i < next[st] => \/ items'[st][i] = None
                           \/ items[st][i] # None /\ items'[st][i].status = items[st][i].status]_vars
  BY NextHolds DEF Lives
<1> QED
  BY <1>1, MemoriesFit, PTL DEF Spec, StatusIsForLife

\* The operations the evaluator decided on a snapshot still spare what is protected when they
\* are applied, since an item keeps its status for life.
THEOREM CurationSpares == Spec => CurationSparesVerified
<1> DEFINE Spared(j, i) ==
      (job[j].op = "curate" /\ job'[j] # job[j] /\ items[Home][i] # None /\ items[Home][i].status \in Protected)
        => items'[Home][i] = items[Home][i]
<1>1. ASSUME KnowledgeInv, [Next]_vars, NEW j \in Jobs, NEW i \in Ids,
             job[j].op = "curate", job'[j] # job[j], items[Home][i] # None, items[Home][i].status \in Protected
      PROVE  items'[Home][i] = items[Home][i]
  <2>1. PICK k \in Jobs : Learning(k) \/ Routes(k) \/ CardRoutes(k) \/ Fail(k)
    BY <1>1 DEF Next, vars
  <2>2. \E b : Becomes(k, b)
    BY <2>1 DEF Learning, Routes, CardRoutes, Fail, Consolidate, Learn, Evaluate, Curate, ApplyOp, Curated,
         Extract, Extracted, Translate, Edit, Write, Delete, Deleted, PublishCard, Published, Revise, Revised,
         Point, SetVisibility, Shown, Import, Imported, Cite, Count, Begin, Becomes
  <2>3. k = j
    BY <1>1, <2>2 DEF Becomes, KnowledgeInv, JobsFit
  <2>4. ApplyOp(j) \/ UNCHANGED items
    BY <1>1, <2>1, <2>3 DEF Learning, Routes, CardRoutes, Fail, Consolidate, Learn, Evaluate, Curate, Curated,
         Extract, Extracted, Translate, Edit, Write, Delete, Deleted, PublishCard, Published, Revise, Revised,
         Point, SetVisibility, Shown, Import, Imported, Cite, Count, Begin, Idle
  <2>5. CASE ApplyOp(j)
    <3> DEFINE o == Head(job[j].todo)
    <3>1. o.do # "propose" => o.id # i
      BY <1>1, <2>5 DEF ApplyOp, KnowledgeInv, JobsFit, JobFits, Spares
    <3>2. i # next[Home] /\ DOMAIN items = Stores /\ DOMAIN items[Home] = Ids
      BY <1>1, HomeIsAStore DEF KnowledgeInv, ItemsOK, Ids
    <3>3. \/ UNCHANGED items
          \/ o.do # "propose" /\ items' = Updated(Home, o.id, o.field, o.value)
          \/ o.do # "propose" /\ items' = Removed(Home, o.id)
          \/ Insert(Home, Row(o.value, "candidate", None))
      BY <2>5 DEF ApplyOp
    <3>4. \A n, x : n # i /\ items' = [items EXCEPT ![Home][n] = x] => items'[Home][i] = items[Home][i]
      BY <3>2, HomeIsAStore
    <3> HIDE DEF o
    <3> QED
      BY <3>1, <3>2, <3>3, <3>4 DEF Insert, Updated, Removed
  <2> QED
    BY <2>4, <2>5
<1>2. KnowledgeInv /\ [Next]_vars => [\A j \in Jobs, i \in Ids : Spared(j, i)]_vars
  BY <1>1
<1> QED
  BY <1>2, MemoriesFit, PTL DEF Spec, CurationSparesVerified
=============================================================================
