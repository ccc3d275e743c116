------------------------------- MODULE Memory -------------------------------
(***************************************************************************)
(* What one user's solves remember (web/user_memory_store.py,              *)
(* agent/user_memory.py, web/user_memory_routes.py) and which plans worked *)
(* (agent/plan_memory.py).  Each is an append-only file; every solve and   *)
(* every request opens its own store, which keeps an index of the file and *)
(* reads it again when the file's signature has changed.  The stores of a  *)
(* process share a lock and the routes call them without awaiting, so a    *)
(* call is one step; between the reading of the memories for the           *)
(* extraction prompt and the applying of its answer others write.          *)
(*                                                                         *)
(* Only this program's appends change a file, so its length stands for its *)
(* signature.  Weights, reasons, scopes, the profile summaries and the     *)
(* ranking of plans are left out; two contents are equal or not alike.     *)
(***************************************************************************)
EXTENDS Naturals, Sequences, FiniteSets, FiniteSetsExt, Ordering

CONSTANTS
  Solves,     \* solves of the user in this process
  MemoryKinds, \* preference, technique, correction, context
  Contents,   \* normalized texts of memories
  NoMemory,   \* no memory
  MaxRecords, \* bound: records in the memory file
  MaxPlans    \* bound: plans recorded

ASSUME RecordsAssumption == MaxRecords \in Nat /\ MaxPlans \in Nat

VARIABLES
  file,       \* the memory file: the successive versions of the memories
  store,      \* solve -> its store: what it has seen of the file, and its index
  thinking,   \* solve -> where its consolidation is, with what the prompt showed
  plans,      \* the plan file: who recorded each plan
  index       \* solve -> its plan memory: entries, ranked documents, dirty flag

memoryVars == <<file, store, thinking, plans, index>>

MemoryIds == 1 .. MaxRecords
MemoryStatuses == {"candidate", "active", "snoozed", "rejected"}
MemoryRecord == [id : Nat, kind : MemoryKinds, content : Contents, status : MemoryStatuses,
                 tombstone : BOOLEAN]
ASSUME NoMemoryAssumption == NoMemory \notin MemoryRecord
Version(i, k, c, s) == [id |-> i, kind |-> k, content |-> c, status |-> s, tombstone |-> FALSE]

\* The memories of a file: of every identifier the version written last.
Versions(f, i) == {n \in DOMAIN f : f[n].id = i}
Folded(f) == [i \in MemoryIds |-> IF Versions(f, i) = {} THEN NoMemory ELSE f[Max(Versions(f, i))]]
Known(memories) == {i \in MemoryIds : memories[i] # NoMemory}

Opened == [seen |-> Len(file), held |-> Folded(file)]
Ensured(st) == IF st.seen = Len(file) THEN st ELSE Opened
PlansOpened == [seen |-> Len(plans), held |-> plans, ranked |-> Len(plans)]

MemoryInit ==
  /\ file = <<>>
  /\ store = [s \in Solves |-> Opened]
  /\ thinking = [s \in Solves |-> [at |-> "solving"]]
  /\ plans = <<>>
  /\ index = [s \in Solves |-> PlansOpened]

-----------------------------------------------------------------------------
(* Plans: retrieved when a solve plans, recorded when one has verified.     *)

Refreshed(x) == IF x.seen = Len(plans) THEN x ELSE PlansOpened

Retrieve(s) == /\ thinking[s].at = "solving"
               /\ LET x == Refreshed(index[s])
                  IN index' = [index EXCEPT ![s] = [x EXCEPT !.ranked = Len(x.held)]]
               /\ UNCHANGED <<file, store, thinking, plans>>

\* The new entry joins the index; the ranking is rebuilt at the next retrieval.
RecordedUnread(x, s) == [x EXCEPT !.held = Append(@, s), !.seen = Len(plans) + 1]
Recorded(x, s) == [Refreshed(x) EXCEPT !.held = Append(@, s), !.seen = Len(plans) + 1]
Record(s) == /\ thinking[s].at = "solving" /\ Len(plans) < MaxPlans
             /\ plans' = Append(plans, s)
             /\ index' = [index EXCEPT ![s] = Recorded(@, s)]
             /\ UNCHANGED <<file, store, thinking>>

-----------------------------------------------------------------------------
(* Consolidation. *)

Live(memories) == {memories[i] : i \in {j \in Known(memories) : ~memories[j].tombstone}}
Rejected(memories) ==
  {memories[i] : i \in {j \in Known(memories) : memories[j].tombstone \/ memories[j].status = "rejected"}}

\* The prompt lists the memories and the rejected ones; then the model is asked, and once
\* more when its answer cannot be read.
Ask(s) == /\ thinking[s].at = "solving"
          /\ LET st == Ensured(store[s])
             IN /\ store' = [store EXCEPT ![s] = st]
                /\ thinking' = [thinking EXCEPT ![s] = [at |-> "asked", shown |-> st.held]]
          /\ UNCHANGED <<file, plans, index>>

\* What a new memory is compared with: the memories when the answer is applied.
ComparedShown(s) == Live(Ensured(store[s]).held) \cup Rejected(thinking[s].shown)
Compared(s) == Live(Ensured(store[s]).held) \cup Rejected(Ensured(store[s]).held)
Duplicate(k, c, memories) == \E m \in memories : m.kind = k /\ m.content = c

\* Of the additions of an answer those that are new, each to a fresh identifier; a memory is
\* active at once only when its content is in the problem, a user's turn or an observation.
FreshId == Cardinality(Known(Folded(file))) + 1
Additions == {<<>>} \cup {<<x>> : x \in MemoryKinds \X Contents} \cup ((MemoryKinds \X Contents) \X (MemoryKinds \X Contents))
NewOnes(s, adds) ==
  {n \in DOMAIN adds : /\ ~Duplicate(adds[n][1], adds[n][2], Compared(s))
                       /\ \A m \in 1 .. n - 1 : adds[m] # adds[n]}
Written(s, adds, status) ==
  LET new == InOrder(NewOnes(s, adds))
  IN [n \in DOMAIN new |-> Version(FreshId + n - 1, adds[new[n]][1], adds[new[n]][2], status)]

\* An existing memory is snoozed by its identifier; the store also updates a deleted one,
\* but the consolidation names only those that were listed.
Listed(s) == {i \in Known(Ensured(store[s]).held) : ~Ensured(store[s]).held[i].tombstone}
Snoozed(s, i) == [Ensured(store[s]).held[i] EXCEPT !.status = "snoozed"]

\* A store that appends ensures its index first, and then takes its own append for seen.
Appended(st, recs) ==
  [seen |-> Len(file) + Len(recs), held |-> [i \in MemoryIds |->
     IF Versions(recs, i) = {} THEN Ensured(st).held[i] ELSE recs[Max(Versions(recs, i))]]]

Apply(s) ==
  /\ thinking[s].at = "asked"
  /\ \E adds \in Additions, status \in {"candidate", "active"}, z \in SUBSET Listed(s) :
       LET recs == Written(s, adds, status) \o [n \in 1 .. Cardinality(z) |-> Snoozed(s, CHOOSE i \in z : TRUE)]
       IN /\ Cardinality(z) <= 1 /\ Len(file) + Len(recs) <= MaxRecords
          /\ file' = file \o recs
          /\ store' = [store EXCEPT ![s] = Appended(@, recs)]
  /\ thinking' = [thinking EXCEPT ![s] = [at |-> "solving"]]
  /\ UNCHANGED <<plans, index>>

-----------------------------------------------------------------------------
(* The user's requests, each with a store opened for it, and a next solve. *)

Append1(rec) == /\ Len(file) < MaxRecords
                /\ file' = Append(file, rec)
                /\ UNCHANGED <<store, thinking, plans, index>>

\* Any memory of the file is updated, a deleted one too.
PatchStatus == \E i \in Known(Folded(file)), x \in {"candidate", "active", "snoozed"} :
                 Append1([Folded(file)[i] EXCEPT !.status = x])
PatchContent == \E i \in Known(Folded(file)), c \in Contents : Append1([Folded(file)[i] EXCEPT !.content = c])
Delete == \E i \in Known(Folded(file)) :
            Append1([Folded(file)[i] EXCEPT !.status = "rejected", !.tombstone = TRUE])

\* A solve ends wherever it is and the next one opens its stores.
Reopen(s) == /\ thinking' = [thinking EXCEPT ![s] = [at |-> "solving"]]
             /\ store' = [store EXCEPT ![s] = Opened]
             /\ index' = [index EXCEPT ![s] = PlansOpened]
             /\ UNCHANGED <<file, plans>>

MemoryNext ==
  \/ \E s \in Solves : Retrieve(s) \/ Record(s) \/ Ask(s) \/ Apply(s) \/ Reopen(s)
  \/ PatchStatus \/ PatchContent \/ Delete

MemorySpec == MemoryInit /\ [][MemoryNext]_memoryVars

-----------------------------------------------------------------------------
(* Properties. *)

\* The n-th record is a version of a known memory, or like none of them.
IsNewAt(f, n) ==
  LET before == Folded(SubSeq(f, 1, n - 1))
  IN before[f[n].id] = NoMemory =>
       \A i \in Known(before) : before[i].kind # f[n].kind \/ before[i].content # f[n].content

\* A consolidation never stores a second time what the user already has, and never what the
\* user has deleted, whatever happened while the model was thinking.
LearnedIsNew ==
  [][\A n \in DOMAIN file' \ DOMAIN file : IsNewAt(file', n)]_memoryVars

\* A store that takes its index for current holds every memory and every plan of the file,
\* the other solves' included, in their last version.
CurrentMeansWhole ==
  \A s \in Solves : /\ store[s].seen = Len(file) => store[s].held = Folded(file)
                    /\ index[s].seen = Len(plans) => index[s].held = plans
=============================================================================
