----------------------------- MODULE Knowledge -----------------------------
(***************************************************************************)
(* The knowledge of one project, from the flows that write it: a finished  *)
(* solve is consolidated (agent/memory_consolidation.py) and the catalogue *)
(* curated (agent/knowledge_evaluator.py); web/knowledge_routes.py         *)
(* extracts, translates, edits and deletes; web/knowledge_cards.py         *)
(* publishes items and turns as cards, revises and imports them.  Each is  *)
(* a job that reads, waits for a model, Lean or a thread, and then writes  *)
(* what it decided on the state it read.  A deployment keeps knowledge in  *)
(* Supabase (cloud) or in the project's JSONL log; imports always go to    *)
(* the log.                                                                *)
(*                                                                         *)
(* A claim is the content of an item; a piece of Lean code is named by the *)
(* claim it is about and passes exactly if that is in Provable.  Scores,   *)
(* kinds and the edges of the graph are left out.                          *)
(***************************************************************************)
EXTENDS Naturals, Sequences, FiniteSets

CONSTANTS
  Claims,     \* contents of items, and the Lean codes named after them
  Provable,   \* those whose Lean code passes
  Jobs,       \* slots for requests and solves in progress
  Cards,      \* identifiers of knowledge cards
  None,       \* no item, no evidence, no code
  MaxItems,   \* bound: items ever inserted into a store
  MaxJobs,    \* bound: jobs ever started
  MaxRevs     \* bound: revisions of a card

ASSUME ClaimsAssumption == Provable \subseteq Claims /\ None \notin Claims
ASSUME BoundsAssumption == {MaxItems, MaxJobs, MaxRevs} \subseteq Nat

VARIABLES
  cloud,      \* the service role is configured: knowledge and cards are in Supabase
  items,      \* per store, the item with each identifier, or None
  next,       \* per store, the next identifier
  cards,      \* card -> [owner, open, latest, revs], or None
  job,        \* what each slot is doing, with what it has read
  started,    \* jobs started so far
  cites       \* card -> its citation count

vars == <<cloud, items, next, cards, job, started, cites>>

Stores == {"cloud", "local"}
Ids == 1 .. MaxItems
Users == {"self", "other"}
Home == IF cloud THEN "cloud" ELSE "local"

\* The statuses of agent/memory_consolidation.py; "questioned" is not in trust.py's enumeration.
Statuses == {"candidate", "questioned", "reviewed", "verified", "rejected"}

\* What the evaluator does not revise or discard; no flow here writes "approved".
Protected == {"verified", "approved"}

Row(c, s, e) == [claim |-> c, status |-> s, evidence |-> e, zh |-> FALSE]
Idle == [op |-> "idle"]
Live(st) == {i \in Ids : items[st][i] # None}

\* What an earlier solve may have left in the knowledge store.
Earlier == {Row(c, "candidate", None) : c \in Claims} \cup {Row(c, "verified", l) : c \in Claims, l \in Provable}

Init == /\ cloud \in BOOLEAN
        /\ \E row \in Earlier \cup {None} :
             /\ items = [st \in Stores |-> [i \in Ids |-> IF st = Home /\ i = 1 THEN row ELSE None]]
             /\ next = [st \in Stores |-> IF st = Home /\ row # None THEN 2 ELSE 1]
        /\ cards = [k \in Cards |-> None]
        /\ job = [j \in Jobs |-> Idle]
        /\ started = 0
        /\ cites = [k \in Cards |-> 0]

Begin(j, b) == /\ job[j] = Idle /\ started < MaxJobs
               /\ started' = started + 1
               /\ job' = [job EXCEPT ![j] = b]
               /\ UNCHANGED <<cloud, items, next, cards, cites>>

Becomes(j, b) == job' = [job EXCEPT ![j] = b]

\* Writes to a store: an insertion gets a fresh identifier and may fail; an update or a
\* deletion of a row that is gone changes nothing.
Insert(st, row) == /\ next[st] <= MaxItems
                   /\ items' = [items EXCEPT ![st][next[st]] = row]
                   /\ next' = [next EXCEPT ![st] = @ + 1]
Patch(row, f, x) == IF f = "zh" THEN [row EXCEPT !.zh = TRUE] ELSE [row EXCEPT ![f] = x]
PatchedInserting(st, i, f, x) ==
  IF items[st][i] = None THEN Row(x, "candidate", None) ELSE Patch(items[st][i], f, x)
Patched(st, i, f, x) == IF items[st][i] = None THEN None ELSE Patch(items[st][i], f, x)
Updated(st, i, f, x) == [items EXCEPT ![st][i] = Patched(st, i, f, x)]
Removed(st, i) == [items EXCEPT ![st][i] = None]

-----------------------------------------------------------------------------
(* Consolidation of a solve. *)

Solutions == [proofs : SUBSET Provable, issues : BOOLEAN, reviewed : BOOLEAN]

\* What is parsed from the model's answer: contents with the code that is said to prove them.
Extractions == Claims \X (Claims \cup {None})

\* An extracted item is verified only by code the solve proved.
NormalizedAny(s, e) == IF e # None THEN "verified" ELSE "candidate"
Normalized(s, e) == IF e \in s.proofs THEN "verified" ELSE "candidate"

\* The solve's own review, and then the item reviewer's scores, decide a candidate.
Reviewed(s, e) ==
  LET st == Normalized(s, e) IN
  IF st # "candidate" THEN {st}
  ELSE IF s.issues \/ (s.reviewed /\ e = None) THEN {"questioned"}
  ELSE {"candidate", "questioned", "reviewed", "rejected"}

\* The rows that may come of it.
Memories(s) == UNION {{Row(x[1], st, x[2]) : st \in Reviewed(s, x[2])} : x \in Extractions}

Consolidate(j) == \E s \in Solutions : Begin(j, [op |-> "learn", sol |-> s])

\* The model answers, the reviewer scores, the item is inserted or the failure is logged;
\* the graph format drops a rejected item, the list format stores it.
Learn(j) ==
  /\ job[j].op = "learn"
  /\ Becomes(j, Idle)
  /\ \/ UNCHANGED <<items, next>>
     \/ \E row \in Memories(job[j].sol) : Insert(Home, row)
  /\ UNCHANGED <<cloud, cards, started, cites>>

-----------------------------------------------------------------------------
(* The evaluator, a conditional follow-up of consolidation. *)

Evaluate(j) == /\ Live(Home) # {}
               /\ Begin(j, [op |-> "evaluate", seen |-> items[Home]])

RevisionFields == {"claim"}

Seen(j) == {i \in Ids : job[j].seen[i] # None}
MayRevise(j) == {i \in Seen(j) : job[j].seen[i].status \notin Protected}
MayDiscardAny(j) == IF Cardinality(Seen(j)) > 1 THEN Seen(j) ELSE {}
MayDiscard(j) == IF Cardinality(Seen(j)) > 1 THEN MayRevise(j) ELSE {}

ToRevise(i, f, x) == [do |-> "revise", id |-> i, field |-> f, value |-> x]
ToDiscard(i) == [do |-> "discard", id |-> i]
ToPropose(c) == [do |-> "propose", value |-> c]

\* What remains of the model's answer after the filter by the statuses of the snapshot: at
\* most one revision, one discard and one proposal, applied in that order.
Revisions(j) == {<<ToRevise(i, f, c)>> : i \in MayRevise(j), f \in RevisionFields, c \in Claims}
Discards(j) == {<<ToDiscard(i)>> : i \in MayDiscard(j)}
Proposals == {<<ToPropose(c)>> : c \in Claims}

Curate(j) ==
  /\ job[j].op = "evaluate"
  /\ \E r \in {<<>>} \cup Revisions(j), d \in {<<>>} \cup Discards(j), p \in {<<>>} \cup Proposals :
       Becomes(j, [op |-> "curate", todo |-> r \o d \o p])
  /\ UNCHANGED <<cloud, items, next, cards, started, cites>>

ApplyOp(j) ==
  /\ job[j].op = "curate" /\ job[j].todo # <<>>
  /\ LET o == Head(job[j].todo) IN
       \/ UNCHANGED <<items, next>>
       \/ o.do = "revise" /\ items' = Updated(Home, o.id, o.field, o.value) /\ UNCHANGED next
       \/ o.do = "discard" /\ items' = Removed(Home, o.id) /\ UNCHANGED next
       \/ o.do = "propose" /\ Insert(Home, Row(o.value, "candidate", None))
  /\ Becomes(j, [op |-> "curate", todo |-> Tail(job[j].todo)])
  /\ UNCHANGED <<cloud, cards, started, cites>>

Curated(j) == /\ job[j].op = "curate" /\ job[j].todo = <<>>
              /\ Becomes(j, Idle)
              /\ UNCHANGED <<cloud, items, next, cards, started, cites>>

-----------------------------------------------------------------------------
(* The routes: extract, translate, edit, delete. *)

Extract(j) == Begin(j, [op |-> "extract", known |-> {items[Home][i].claim : i \in Live(Home)}])

\* What the list read before the call did not hold is inserted as a candidate.
Extracted(j) ==
  /\ job[j].op = "extract"
  /\ Becomes(j, Idle)
  /\ \/ UNCHANGED <<items, next>>
     \/ \E c \in Claims \ job[j].known : Insert(Home, Row(c, "candidate", None))
  /\ UNCHANGED <<cloud, cards, started, cites>>

\* The item is found first; an item with a translation is answered from it.
Translate(j) == \E i \in Live(Home) : /\ ~items[Home][i].zh
                                      /\ Begin(j, [op |-> "write", id |-> i, field |-> "zh", value |-> None])
Edit(j) == \E i \in Live(Home), c \in Claims :
             Begin(j, [op |-> "write", id |-> i, field |-> "claim", value |-> c])
Write(j) ==
  /\ job[j].op = "write"
  /\ items' = Updated(Home, job[j].id, job[j].field, job[j].value)
  /\ Becomes(j, Idle)
  /\ UNCHANGED <<cloud, next, cards, started, cites>>

Delete(j) == \E i \in Live(Home) : Begin(j, [op |-> "delete", id |-> i])
Deleted(j) == /\ job[j].op = "delete"
              /\ items' = Removed(Home, job[j].id)
              /\ Becomes(j, Idle)
              /\ UNCHANGED <<cloud, next, cards, started, cites>>

-----------------------------------------------------------------------------
(* Cards.  A revision is [claim, lean, formal]; formal says the turn was verified. *)

Revision(c, l, f) == [claim |-> c, lean |-> l, formal |-> f]
HasRevision(k) == cards[k] # None /\ cards[k].latest > 0

\* Another tenant's cards exist only in the cloud.
CardUsers == IF cloud THEN Users ELSE {"self"}
CanAccess(u, k) == cards[k] # None /\ (cards[k].open \/ cards[k].owner = u)

\* The sources of a card: an item of the project's log, whose row has no Lean code, or a
\* turn, whose proofs and verdict the project document holds.
CardSources == {Revision(items["local"][i].claim, None, FALSE) : i \in Live("local")}
TurnSources == {Revision(c, l, f) : c \in Claims, l \in Claims \cup {None}, f \in BOOLEAN}

\* The cloud inserts the card and then its revision; the log gets both in one event.
PublishCard(j) == \E k \in Cards, u \in CardUsers, open \in BOOLEAN :
  /\ job[j] = Idle /\ started < MaxJobs /\ cards[k] = None
  /\ \E r \in TurnSources \cup (IF u = "self" THEN CardSources ELSE {}) :
       /\ cards' = [cards EXCEPT ![k] =
            [owner |-> u, open |-> open, latest |-> IF cloud THEN 0 ELSE 1, revs |-> IF cloud THEN <<>> ELSE <<r>>]]
       /\ Becomes(j, IF cloud THEN [op |-> "publish", card |-> k, rev |-> r] ELSE Idle)
  /\ started' = started + 1
  /\ UNCHANGED <<cloud, items, next, cites>>

Published(j) ==
  /\ job[j].op = "publish"
  /\ \/ cards' = [cards EXCEPT ![job[j].card].revs = Append(@, job[j].rev), ![job[j].card].latest = 1]
     \/ UNCHANGED cards
  /\ Becomes(j, Idle)
  /\ UNCHANGED <<cloud, items, next, started, cites>>

\* A revision edits the text and keeps the code and the verdict of the revision it was read with.
Revise(j) == \E k \in Cards, c \in Claims :
  /\ HasRevision(k) /\ Len(cards[k].revs) < MaxRevs /\ cards[k].owner \in CardUsers
  /\ Begin(j, [op |-> "revise", card |-> k, read |-> cards[k],
               rev |-> [cards[k].revs[cards[k].latest] EXCEPT !.claim = c]])

\* The card that the log's events add up to: its latest copy with all its revisions.
Indexed(copy, revs) == [copy EXCEPT !.revs = revs, !.latest = Len(revs)]

\* The number is unique per card in the cloud, so the loser of a race fails; the log takes
\* the card as it was read along with the revision.
Revised(j) ==
  /\ job[j].op = "revise"
  /\ LET k == job[j].card
         n == Len(job[j].read.revs) + 1
     IN IF cloud
        THEN IF Len(cards[k].revs) + 1 = n
             THEN /\ cards' = [cards EXCEPT ![k].revs = Append(@, job[j].rev)]
                  /\ Becomes(j, [op |-> "point", card |-> k, to |-> n])
             ELSE UNCHANGED cards /\ Becomes(j, Idle)
        ELSE /\ cards' = [cards EXCEPT ![k] = Indexed(job[j].read, Append(cards[k].revs, job[j].rev))]
             /\ Becomes(j, Idle)
  /\ UNCHANGED <<cloud, items, next, started, cites>>

Point(j) ==
  /\ job[j].op = "point"
  /\ cards' = [cards EXCEPT ![job[j].card].latest = job[j].to]
  /\ Becomes(j, Idle)
  /\ UNCHANGED <<cloud, items, next, started, cites>>

\* The visibility is changed by a column update in the cloud, by a copy of the card locally.
SetVisibility(j) == \E k \in Cards, open \in BOOLEAN :
  /\ cards[k] # None /\ cards[k].owner \in CardUsers
  /\ Begin(j, [op |-> "show", card |-> k, read |-> cards[k], open |-> open])
Shown(j) ==
  /\ job[j].op = "show"
  /\ LET k == job[j].card
         base == IF cloud THEN cards[k] ELSE Indexed(job[j].read, cards[k].revs)
     IN cards' = [cards EXCEPT ![k] = [base EXCEPT !.open = job[j].open]]
  /\ Becomes(j, Idle)
  /\ UNCHANGED <<cloud, items, next, started, cites>>

\* The import reads the card it may see, checks the code of a verified one again, stores the
\* fact in the log of the importing project, and then counts the citation.
Import(j) == \E k \in Cards :
  /\ HasRevision(k) /\ CanAccess("self", k)
  /\ Begin(j, [op |-> "import", card |-> k, rev |-> cards[k].revs[cards[k].latest]])

Passes(l) == l \in Provable
Reverified(r) == r.formal /\ r.lean # None /\ Passes(r.lean)
ImportRow(r) == IF Reverified(r) THEN Row(r.claim, "verified", r.lean) ELSE Row(r.claim, "reviewed", None)

Imported(j) ==
  /\ job[j].op = "import"
  /\ \/ Insert("local", ImportRow(job[j].rev)) /\ Becomes(j, [op |-> "cite", card |-> job[j].card])
     \/ UNCHANGED <<items, next>> /\ Becomes(j, Idle)
  /\ UNCHANGED <<cloud, cards, started, cites>>

\* The log counts events; the cloud reads the count and writes it back plus one.
Cite(j) ==
  /\ job[j].op = "cite"
  /\ IF cloud
     THEN Becomes(j, [op |-> "count", card |-> job[j].card, read |-> cites[job[j].card]]) /\ UNCHANGED cites
     ELSE Becomes(j, Idle) /\ cites' = [cites EXCEPT ![job[j].card] = @ + 1]
  /\ UNCHANGED <<cloud, items, next, cards, started>>

Count(j) ==
  /\ job[j].op = "count"
  /\ cites' = [cites EXCEPT ![job[j].card] = job[j].read + 1]
  /\ Becomes(j, Idle)
  /\ UNCHANGED <<cloud, items, next, cards, started>>

\* Any awaited call may fail or be cancelled: the job ends with what it has written so far.
Fail(j) == /\ job[j] # Idle
           /\ Becomes(j, Idle)
           /\ UNCHANGED <<cloud, items, next, cards, started, cites>>

Learning(j) == Consolidate(j) \/ Learn(j) \/ Evaluate(j) \/ Curate(j) \/ ApplyOp(j) \/ Curated(j)
Routes(j) == Extract(j) \/ Extracted(j) \/ Translate(j) \/ Edit(j) \/ Write(j) \/ Delete(j) \/ Deleted(j)
CardRoutes(j) == \/ PublishCard(j) \/ Published(j) \/ Revise(j) \/ Revised(j) \/ Point(j)
                 \/ SetVisibility(j) \/ Shown(j) \/ Import(j) \/ Imported(j) \/ Cite(j) \/ Count(j)

Next == \E j \in Jobs : Learning(j) \/ Routes(j) \/ CardRoutes(j) \/ Fail(j)

Spec == Init /\ [][Next]_vars

-----------------------------------------------------------------------------
(* Properties. *)

\* An item that calls itself verified carries code that Lean accepts, whichever flow wrote it
\* and whatever the model, the edited card or the other tenant's verdict said.
VerifiedCarriesProof ==
  \A st \in Stores : \A i \in Live(st) :
    items[st][i].status = "verified" => items[st][i].evidence \in Provable

\* An item keeps for life the status it was inserted with, and one that was deleted does not
\* come back when a translation, an edit or a revision that had read it is written at last.
StatusIsForLife ==
  [][\A st \in Stores, i \in Ids :
       i < next[st] => \/ items'[st][i] = None
                       \/ items[st][i] # None /\ items'[st][i].status = items[st][i].status]_vars

\* The curation of the catalogue leaves alone what is verified when it writes, although it
\* decided on the statuses of a snapshot taken before the model was asked.
CurationSparesVerified ==
  [][\A j \in Jobs, i \in Ids :
       (job[j].op = "curate" /\ job'[j] # job[j] /\ items[Home][i] # None /\ items[Home][i].status \in Protected)
         => items'[Home][i] = items[Home][i]]_vars
=============================================================================
