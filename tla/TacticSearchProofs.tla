------------------------ MODULE TacticSearchProofs ------------------------
(***************************************************************************)
(* Theorems about TacticSearch, for any finite set of searches, sizes of   *)
(* the pool, budgets and numbers of faults and cancellations.              *)
(*                                                                         *)
(* The limit: every session that is out, idle or being started has a       *)
(* place, and there are no more places than sessions are allowed (Counted) *)
(* -- although the number of a session is given back before its process is *)
(* gone, a permit is not, and a process is started only when none is idle. *)
(* The answers: between a request and its answer nothing else is in the    *)
(* pipe (Own), because a request that is given up closes the process.      *)
(***************************************************************************)
EXTENDS TacticSearch, FiniteSetTheorems, SequenceTheorems, TLAPS

-----------------------------------------------------------------------------
(* The invariant *)

Results == {"none", "raised", "blocked", "exhausted", "found", "timeout"}
Searcher == [step : Steps, try : 0 .. MaxTries, retried : BOOLEAN, at : Nat, frontier : SUBSET Nat,
             after : {"done", "batch"}, result : Results]
Pool == [permits : Nat, idle : Seq(Session), spawned : Nat, deaths : 0 .. BreakerDeaths - 1, open : BOOLEAN]

Typed == /\ pool \in Pool
         /\ held \in [Searches -> Session \union {None}]
         /\ search \in [Searches -> Searcher]

\* Where a search has a session, and where it has no proof state.
Entering == {"checkout", "recheck"}
Before == {"waiting", "checkout", "recheck", "starting"}
Present == {"asking", "reading", "choosing", "checking", "checkin", "closing"}
Placed(s) ==
  /\ search[s].step \in Before \union {"idle", "done"} => held[s] = None
  /\ search[s].step \in Present => held[s] # None
  /\ search[s].step \in Before => (search[s].frontier = {} /\ search[s].at = 0)

\* Who has a permit, who is starting a process, whose session has its number.
Users == {s \in Searches : search[s].step \in Entering \union {"starting"} \/ held[s] # None}
Starting == {s \in Searches : search[s].step = "starting"}
Kept == {s \in Searches : held[s] # None /\ search[s].step # "closing"}
Counted ==
  /\ pool.permits + Cardinality(Users) = MaxSessions
  /\ Cardinality(Out) + Len(pool.idle) + Cardinality(Starting) <= MaxSessions
  /\ Cardinality(Kept) + Len(pool.idle) + Cardinality(Starting) <= pool.spawned
  /\ pool.spawned <= MaxSessions

\* What is in the pipe of a process that no cancelled search left an answer in.
OwnState(s, id) == id \in DOMAIN held[s].states => held[s].states[id] = s
Silent(session) == Len(session.todo) = 0 /\ Len(session.out) = 0
Reading(s) ==
  \/ Len(held[s].todo) = 1 /\ Head(held[s].todo) = Asked(s) /\ Len(held[s].out) = 0
  \/ /\ Len(held[s].todo) = 0 /\ Len(held[s].out) = 1 /\ Heard(s).to = Asked(s)
     /\ Heard(s).kind \in {"opened", "progress"} => OwnState(s, Heard(s).state)
Own(s) == (held[s] # None /\ ~held[s].cutOff) =>
  /\ search[s].step = "reading" => Reading(s)
  /\ search[s].step # "reading" => Silent(held[s])
  /\ \A id \in search[s].frontier \union {search[s].at} : OwnState(s, id)
IdleSilent == \A i \in DOMAIN pool.idle : ~pool.idle[i].cutOff => Silent(pool.idle[i])

Placing == Typed /\ \A s \in Searches : Placed(s)
Owning == IdleSilent /\ \A s \in Searches : Own(s)

Inv == Placing /\ Counted /\ Owning

-----------------------------------------------------------------------------
(* Frames *)

LEMMA Limits ==
  /\ MaxSessions \in Nat \ {0} /\ RecycleAfter \in Nat /\ BreakerDeaths \in Nat \ {0}
  /\ MaxTries \in Nat /\ IsFiniteSet(Searches) /\ None \notin Session
BY PoolAssumption, NoneAssumption

\* Only the search s moves.
Alone(s) == /\ \A q \in Searches \ {s} : search'[q] = search[q] /\ held'[q] = held[q]

LEMMA PlacedAlone ==
  ASSUME Placing, NEW s \in Searches, Alone(s), Typed', Placed(s)'
  PROVE  Placing'
<1>1. ASSUME NEW q \in Searches \ {s}
      PROVE  Placed(q)'
  BY DEF Placing, Placed, Alone
<1> QED
  BY <1>1 DEF Placing

LEMMA OwnedAlone ==
  ASSUME Owning, NEW s \in Searches, Alone(s), IdleSilent', Own(s)'
  PROVE  Owning'
<1>1. ASSUME NEW q \in Searches \ {s}
      PROVE  Own(q)'
  BY DEF Owning, Own, Alone, Reading, Silent, OwnState, Heard, Asked
<1> QED
  BY <1>1 DEF Owning

-----------------------------------------------------------------------------
(* Counting *)

One(b) == IF b THEN 1 ELSE 0

LEMMA SubsetCount ==
  ASSUME NEW A, A \subseteq Searches
  PROVE  IsFiniteSet(A) /\ Cardinality(A) \in Nat
BY Limits, FS_Subset, FS_CardinalityType

\* Two sets of searches that differ at most in s.
LEMMA Differ ==
  ASSUME NEW A, NEW B, A \subseteq Searches, B \subseteq Searches, NEW s, A \ {s} = B \ {s}
  PROVE  Cardinality(B) = Cardinality(A) - One(s \in A) + One(s \in B)
<1>1. IsFiniteSet(A) /\ IsFiniteSet(B) /\ Cardinality(A) \in Nat /\ Cardinality(B) \in Nat
  BY SubsetCount
<1>2. Cardinality(A \ {s}) = Cardinality(A) - One(s \in A)
  BY <1>1, FS_RemoveElement DEF One
<1>3. Cardinality(B \ {s}) = Cardinality(B) - One(s \in B)
  BY <1>1, FS_RemoveElement DEF One
<1> QED
  BY <1>1, <1>2, <1>3 DEF One

LEMMA CountTypes ==
  /\ Cardinality(Users) \in Nat /\ Cardinality(Out) \in Nat
  /\ Cardinality(Starting) \in Nat /\ Cardinality(Kept) \in Nat
<1>1. Users \subseteq Searches /\ Out \subseteq Searches /\ Starting \subseteq Searches /\ Kept \subseteq Searches
  BY DEF Users, Out, Starting, Kept
<1> QED
  BY <1>1, SubsetCount

LEMMA Recount ==
  ASSUME NEW s \in Searches, Alone(s)
  PROVE  /\ Cardinality(Users') = Cardinality(Users) - One(s \in Users) + One(s \in Users')
         /\ Cardinality(Out') = Cardinality(Out) - One(s \in Out) + One(s \in Out')
         /\ Cardinality(Starting') = Cardinality(Starting) - One(s \in Starting) + One(s \in Starting')
         /\ Cardinality(Kept') = Cardinality(Kept) - One(s \in Kept) + One(s \in Kept')
<1>1. Users \subseteq Searches /\ Out \subseteq Searches /\ Starting \subseteq Searches /\ Kept \subseteq Searches
  BY DEF Users, Out, Starting, Kept
<1>2. /\ Users' \subseteq Searches /\ Out' \subseteq Searches
      /\ Starting' \subseteq Searches /\ Kept' \subseteq Searches
  BY DEF Users, Out, Starting, Kept
<1>3. Users \ {s} = Users' \ {s}
  BY DEF Users, Alone
<1>4. Out \ {s} = Out' \ {s}
  BY DEF Out, Alone
<1>5. Starting \ {s} = Starting' \ {s}
  BY DEF Starting, Alone
<1>6. Kept \ {s} = Kept' \ {s}
  BY DEF Kept, Alone
<1> QED
  BY <1>1, <1>2, <1>3, <1>4, <1>5, <1>6, Differ

\* The session stays where it is and so do the permit and the number.
LEMMA StaysCounted ==
  ASSUME Counted, NEW s \in Searches, Alone(s), held'[s] = None <=> held[s] = None,
         search[s].step \notin Entering \union {"starting", "closing"},
         search'[s].step \notin Entering \union {"starting", "closing"},
         pool'.permits = pool.permits, pool'.spawned = pool.spawned, Len(pool'.idle) = Len(pool.idle)
  PROVE  Counted'
<1>1. Users' = Users
  BY DEF Users, Alone
<1>2. Out' = Out
  BY DEF Out, Alone
<1>3. Starting' = Starting
  BY DEF Starting, Alone
<1>4. Kept' = Kept
  BY DEF Kept, Alone
<1> QED
  BY <1>1, <1>2, <1>3, <1>4 DEF Counted

\* A search that looks for a session has a permit that neither a session nor a start has.
LEMMA RoomForOne ==
  ASSUME Placing, Counted, NEW s \in Searches, search[s].step \in Entering
  PROVE  Cardinality(Out) + Cardinality(Starting) + 1 <= MaxSessions
<1> DEFINE A == Out \union Starting
<1>1. Out \subseteq Searches /\ Starting \subseteq Searches /\ A \subseteq Searches /\ Users \subseteq Searches
  BY DEF Out, Starting, Users
<1>2. s \notin A
  <2>1. s \notin Out
    BY DEF Out, Placing, Placed, Entering, Before
  <2>2. s \notin Starting
    BY DEF Starting, Entering
  <2> QED
    BY <2>1, <2>2
<1>3. A \union {s} \subseteq Users
  BY DEF Out, Starting, Users
<1>4. Out \intersect Starting = {}
  BY DEF Out, Starting, Placing, Placed, Before
<1>5. IsFiniteSet(Out) /\ IsFiniteSet(Starting) /\ IsFiniteSet(A) /\ IsFiniteSet(Users)
  BY <1>1, SubsetCount
<1>6. Cardinality(A) = Cardinality(Out) + Cardinality(Starting)
  <2>1. Cardinality(A) = Cardinality(Out) + Cardinality(Starting) - Cardinality(Out \intersect Starting)
    BY <1>5, FS_Union
  <2>2. Cardinality(Out \intersect Starting) = 0
    BY <1>4, FS_EmptySet
  <2> QED
    BY <2>1, <2>2, CountTypes
<1>7. Cardinality(A \union {s}) = Cardinality(A) + 1 /\ IsFiniteSet(A \union {s})
  BY <1>2, <1>5, FS_AddElement
<1>8. Cardinality(A \union {s}) <= Cardinality(Users)
  <2> HIDE DEF A
  <2> QED
    BY <1>3, <1>5, FS_Subset
<1>9. Cardinality(Users) <= MaxSessions
  <2>1. pool.permits \in Nat /\ pool.permits + Cardinality(Users) = MaxSessions
    BY DEF Counted, Placing, Typed, Pool
  <2> QED
    BY <2>1, CountTypes, Limits
<1> QED
  BY <1>6, <1>7, <1>8, <1>9, CountTypes, Limits

-----------------------------------------------------------------------------
(* Sessions *)

LEMMA SessionTypes ==
  /\ NewSession \in Session
  /\ \A session \in Session : Closed(session) \in Session /\ Restarted(session) \in Session
<1>1. <<>> \in Seq(Searches) /\ <<>> \in Seq(Request) /\ <<>> \in Seq(Answer)
  BY EmptySeq
<1>2. NewSession \in Session
  BY <1>1 DEF NewSession, Session
<1>3. ASSUME NEW session \in Session
      PROVE  Closed(session) \in Session
  BY <1>1, <1>3 DEF Closed, Session
<1>4. ASSUME NEW session \in Session
      PROVE  Restarted(session) \in Session
  BY <1>1, <1>3, <1>4 DEF Restarted, Closed, Session
<1> QED
  BY <1>2, <1>3, <1>4

LEMMA ClosedIsSilent ==
  ASSUME NEW session \in Session
  PROVE  /\ Len(Closed(session).todo) = 0 /\ Len(Closed(session).out) = 0
         /\ Closed(session).states = <<>> /\ Closed(session).cutOff = session.cutOff
         /\ Len(Restarted(session).todo) = 0 /\ Len(Restarted(session).out) = 0
         /\ Restarted(session).states = <<>> /\ Restarted(session).cutOff = FALSE
<1>1. Len(<<>>) = 0
  BY EmptySeq
<1> QED
  BY <1>1 DEF Closed, Restarted, Session

\* What the process makes of the request at the head of the queue.
LEMMA ServedType ==
  ASSUME NEW session \in Session, NEW new \in Served(session)
  PROVE  /\ session.todo # <<>> /\ new \in Session /\ new.cutOff = session.cutOff
         /\ new.todo = Tail(session.todo)
         /\ \E kind \in {"opened", "refused", "error", "progress", "completed"} :
              /\ new.out = Append(session.out,
                   [to |-> Head(session.todo), kind |-> kind,
                    state |-> IF kind \in {"error", "refused"} THEN 0 ELSE Len(new.states)])
              /\ kind \in {"refused", "error"} => new.states = session.states
              /\ kind = "opened" =>
                   /\ Head(session.todo).state = 0
                   /\ new.states = Append(session.states, Head(session.todo).by)
              /\ kind \in {"progress", "completed"} =>
                   /\ Head(session.todo).state \in DOMAIN session.states
                   /\ new.states = Append(session.states, session.states[Head(session.todo).state])
<1> DEFINE request == Head(session.todo)
           reply(kind, states) ==
             [session EXCEPT !.todo = Tail(@), !.states = states,
                !.out = Append(@, [to |-> request, kind |-> kind,
                                   state |-> IF kind \in {"error", "refused"} THEN 0 ELSE Len(states)])]
           more(theorem) == Append(session.states, theorem)
<1>1. session.todo # <<>> /\ new \in Outcomes(session, request)
  BY DEF Served
<1>2. /\ session.todo \in Seq(Request) /\ session.out \in Seq(Answer) /\ session.states \in Seq(Searches)
      /\ session.cutOff \in BOOLEAN /\ session.alive \in BOOLEAN /\ session.served \in Nat
  BY DEF Session
<1>3. request \in Request /\ Tail(session.todo) \in Seq(Request)
  BY <1>1, <1>2, HeadTailProperties
<1>4. ASSUME NEW kind \in {"opened", "refused", "error", "progress", "completed"},
             NEW states \in Seq(Searches)
      PROVE  /\ reply(kind, states) \in Session
             /\ reply(kind, states).cutOff = session.cutOff
             /\ reply(kind, states).todo = Tail(session.todo)
             /\ reply(kind, states).states = states
             /\ reply(kind, states).out = Append(session.out,
                  [to |-> request, kind |-> kind,
                   state |-> IF kind \in {"error", "refused"} THEN 0 ELSE Len(states)])
  <2> DEFINE answer == [to |-> request, kind |-> kind,
                        state |-> IF kind \in {"error", "refused"} THEN 0 ELSE Len(states)]
  <2>1. Len(states) \in Nat
    BY LenProperties
  <2>2. answer \in Answer
    BY <1>3, <2>1 DEF Answer
  <2> HIDE DEF answer
  <2>3. Append(session.out, answer) \in Seq(Answer)
    BY <1>2, <2>2, AppendProperties
  <2>4. reply(kind, states) = [session EXCEPT !.todo = Tail(@), !.states = states, !.out = Append(@, answer)]
    BY DEF answer
  <2> HIDE DEF reply, request
  <2>5. [session EXCEPT !.todo = Tail(@), !.states = states, !.out = Append(@, answer)] \in Session
    BY <1>2, <1>3, <2>3 DEF Session
  <2> QED
    BY <2>4, <2>5 DEF Session, answer
<1>5. \A theorem \in Searches : more(theorem) \in Seq(Searches)
  BY <1>2, AppendProperties
<1>6. CASE request.state = 0
  <2>1. new = reply("opened", more(request.by)) \/ new = reply("refused", session.states)
    BY <1>1, <1>6 DEF Outcomes
  <2>2. request.by \in Searches
    BY <1>3 DEF Request
  <2>3. more(request.by) \in Seq(Searches)
    BY <1>5, <2>2
  <2> HIDE DEF reply
  <2>4. CASE new = reply("opened", more(request.by))
    <3> HIDE DEF more
    <3>1. /\ new \in Session /\ new.cutOff = session.cutOff /\ new.todo = Tail(session.todo)
          /\ new.states = more(request.by)
          /\ new.out = Append(session.out, [to |-> request, kind |-> "opened", state |-> Len(more(request.by))])
      BY <1>4, <2>3, <2>4
    <3> QED
      BY <1>1, <1>6, <3>1 DEF more
  <2>5. CASE new = reply("refused", session.states)
    <3>1. /\ new \in Session /\ new.cutOff = session.cutOff /\ new.todo = Tail(session.todo)
          /\ new.states = session.states
          /\ new.out = Append(session.out, [to |-> request, kind |-> "refused", state |-> 0])
      BY <1>2, <1>4, <2>5
    <3> QED
      BY <1>1, <3>1
  <2> QED
    BY <2>1, <2>4, <2>5
<1>7. CASE request.state # 0 /\ request.state \in DOMAIN session.states
  <2> DEFINE next == more(session.states[request.state])
  <2>1. \/ new = reply("progress", next) \/ new = reply("completed", next)
        \/ new = reply("error", session.states)
    BY <1>1, <1>7 DEF Outcomes
  <2>2. session.states[request.state] \in Searches
    BY <1>2, <1>7, LenProperties, ElementOfSeq
  <2>3. next \in Seq(Searches)
    BY <1>5, <2>2
  <2> HIDE DEF reply, next
  <2>4. ASSUME NEW kind \in {"progress", "completed"}, new = reply(kind, next)
        PROVE  /\ new \in Session /\ new.cutOff = session.cutOff /\ new.todo = Tail(session.todo)
               /\ new.states = next
               /\ new.out = Append(session.out, [to |-> request, kind |-> kind, state |-> Len(next)])
    BY <1>4, <2>3, <2>4
  <2>5. CASE new = reply("error", session.states)
    <3>1. /\ new \in Session /\ new.cutOff = session.cutOff /\ new.todo = Tail(session.todo)
          /\ new.states = session.states
          /\ new.out = Append(session.out, [to |-> request, kind |-> "error", state |-> 0])
      BY <1>2, <1>4, <2>5
    <3> QED
      BY <1>1, <3>1
  <2>6. CASE new = reply("progress", next)
    <3>1. /\ new \in Session /\ new.cutOff = session.cutOff /\ new.todo = Tail(session.todo)
          /\ new.states = next
          /\ new.out = Append(session.out, [to |-> request, kind |-> "progress", state |-> Len(next)])
      BY <2>4, <2>6
    <3> QED
      BY <1>1, <1>7, <3>1 DEF next
  <2>7. CASE new = reply("completed", next)
    <3>1. /\ new \in Session /\ new.cutOff = session.cutOff /\ new.todo = Tail(session.todo)
          /\ new.states = next
          /\ new.out = Append(session.out, [to |-> request, kind |-> "completed", state |-> Len(next)])
      BY <2>4, <2>7
    <3> QED
      BY <1>1, <1>7, <3>1 DEF next
  <2> QED
    BY <2>1, <2>5, <2>6, <2>7
<1>8. CASE request.state # 0 /\ request.state \notin DOMAIN session.states
  <2>1. new = reply("error", session.states)
    BY <1>1, <1>8 DEF Outcomes
  <2> HIDE DEF reply
  <2>2. /\ new \in Session /\ new.cutOff = session.cutOff /\ new.todo = Tail(session.todo)
        /\ new.states = session.states
        /\ new.out = Append(session.out, [to |-> request, kind |-> "error", state |-> 0])
    BY <1>2, <1>4, <2>1
  <2> QED
    BY <1>1, <2>2
<1> QED
  BY <1>6, <1>7, <1>8

\* States that are all those of s, or unknown, stay so when one of s is added.
LEMMA StatesGrow ==
  ASSUME NEW s \in Searches, NEW states \in Seq(Searches), NEW id,
         id \in DOMAIN states => states[id] = s
  PROVE  /\ id \in DOMAIN Append(states, s) => Append(states, s)[id] = s
         /\ Append(states, s)[Len(Append(states, s))] = s
<1>1. /\ Append(states, s) \in Seq(Searches) /\ Len(Append(states, s)) = Len(states) + 1
      /\ \A i \in 1 .. Len(states) : Append(states, s)[i] = states[i]
      /\ Append(states, s)[Len(states) + 1] = s
  BY AppendProperties
<1>2. /\ DOMAIN Append(states, s) = 1 .. Len(states) + 1 /\ DOMAIN states = 1 .. Len(states)
      /\ Len(states) \in Nat
  BY <1>1, LenProperties
<1> QED
  BY <1>1, <1>2

\* A request of s about its own state gets an answer to s about a state of its own.
LEMMA ServesItsOwn ==
  ASSUME Placing, NEW s \in Searches, held[s] # None, NEW new \in Served(held[s]),
         ~held[s].cutOff, Own(s), Alone(s), search' = search, held'[s] = new
  PROVE  Own(s)'
<1>1. held[s] \in Session /\ search[s] \in Searcher
  BY DEF Placing, Typed
<1>2. /\ held[s].todo \in Seq(Request) /\ held[s].out \in Seq(Answer) /\ held[s].states \in Seq(Searches)
  BY <1>1 DEF Session
<1>3. /\ held[s].todo # <<>> /\ new \in Session /\ new.cutOff = held[s].cutOff
      /\ new.todo = Tail(held[s].todo)
  BY <1>1, ServedType
<1>4. PICK kind \in {"opened", "refused", "error", "progress", "completed"} :
        /\ new.out = Append(held[s].out,
             [to |-> Head(held[s].todo), kind |-> kind,
              state |-> IF kind \in {"error", "refused"} THEN 0 ELSE Len(new.states)])
        /\ kind \in {"refused", "error"} => new.states = held[s].states
        /\ kind = "opened" =>
             /\ Head(held[s].todo).state = 0
             /\ new.states = Append(held[s].states, Head(held[s].todo).by)
        /\ kind \in {"progress", "completed"} =>
             /\ Head(held[s].todo).state \in DOMAIN held[s].states
             /\ new.states = Append(held[s].states, held[s].states[Head(held[s].todo).state])
  BY <1>1, ServedType
<1>5. Len(held[s].todo) # 0
  BY <1>2, <1>3, EmptySeq
<1>6. search[s].step = "reading" /\ Reading(s)
  BY <1>5 DEF Own, Silent
<1>7. /\ Len(held[s].todo) = 1 /\ Head(held[s].todo) = Asked(s) /\ Len(held[s].out) = 0
  BY <1>5, <1>6 DEF Reading
<1>8. Head(held[s].todo).by = s /\ Head(held[s].todo).state = search[s].at
  BY <1>7 DEF Asked
<1>9. OwnState(s, search[s].at)
  BY DEF Own
<1>10. new.states = held[s].states \/ new.states = Append(held[s].states, s)
  <2>1. CASE kind \in {"refused", "error"}
    BY <1>4, <2>1
  <2>2. CASE kind = "opened"
    BY <1>4, <1>8, <2>2
  <2>3. CASE kind \in {"progress", "completed"}
    BY <1>4, <1>8, <1>9, <2>3 DEF OwnState
  <2> QED
    BY <2>1, <2>2, <2>3
<1>11. \A id \in search[s].frontier \union {search[s].at} : OwnState(s, id)'
  <2> SUFFICES ASSUME NEW id \in search[s].frontier \union {search[s].at}, id \in DOMAIN new.states
               PROVE  new.states[id] = s
    BY DEF OwnState
  <2>1. id \in DOMAIN held[s].states => held[s].states[id] = s
    BY DEF Own, OwnState
  <2>2. CASE new.states = held[s].states
    BY <2>1, <2>2
  <2>3. CASE new.states = Append(held[s].states, s)
    BY <1>2, <2>1, <2>3, StatesGrow
  <2> QED
    BY <1>10, <2>2, <2>3
<1>12. Len(new.todo) = 0
  BY <1>2, <1>3, <1>7, HeadTailProperties
<1> DEFINE answer == [to |-> Head(held[s].todo), kind |-> kind,
                      state |-> IF kind \in {"error", "refused"} THEN 0 ELSE Len(new.states)]
<1>13. Len(new.out) = 1 /\ Head(new.out) = answer
  <2>1. answer \in Answer
    <3>1. Len(new.states) \in Nat
      BY <1>3, LenProperties DEF Session
    <3>2. Head(held[s].todo) \in Request
      BY <1>2, <1>3, HeadTailProperties
    <3> QED
      BY <3>1, <3>2 DEF Answer
  <2>2. new.out = Append(held[s].out, answer)
    BY <1>4
  <2> HIDE DEF answer
  <2>3. Append(held[s].out, answer) \in Seq(Answer) /\ Len(Append(held[s].out, answer)) = 1
        /\ Append(held[s].out, answer)[1] = answer
    BY <1>2, <1>7, <2>1, AppendProperties
  <2>4. Head(new.out) = new.out[1]
    BY <2>3, HeadTailProperties
  <2> QED
    BY <2>2, <2>3, <2>4
<1>14. kind \in {"opened", "progress"} => (Len(new.states) \in DOMAIN new.states => new.states[Len(new.states)] = s)
  <2> SUFFICES ASSUME kind \in {"opened", "progress"} PROVE new.states[Len(new.states)] = s
    OBVIOUS
  <2>1. new.states = Append(held[s].states, s)
    <3>1. CASE kind = "opened"
      BY <1>4, <1>8, <3>1
    <3>2. CASE kind = "progress"
      BY <1>4, <1>8, <1>9, <3>2 DEF OwnState
    <3> QED
      BY <3>1, <3>2
  <2> QED
    BY <1>2, <1>9, <2>1, StatesGrow DEF OwnState
<1>15. PICK a : a = answer
  OBVIOUS
<1>16. Reading(s)'
  <2>1. a.to = Asked(s) /\ a.kind = kind
    BY <1>7, <1>15
  <2>2. kind \in {"opened", "progress"} => a.state = Len(new.states)
    BY <1>15
  <2>3. kind \in {"opened", "progress"} => OwnState(s, a.state)'
    BY <1>14, <2>2 DEF OwnState
  <2>4. Heard(s)' = a /\ Asked(s)' = Asked(s)
    BY <1>13, <1>15 DEF Heard, Asked
  <2> HIDE DEF answer
  <2> QED
    BY <1>12, <1>13, <2>1, <2>3, <2>4 DEF Reading
<1> QED
  BY <1>6, <1>11, <1>16 DEF Own

-----------------------------------------------------------------------------
(* Steps of a search with its session in hand, or without one *)

Away == {"idle", "waiting", "asking", "reading", "choosing", "checking", "batch", "checkin", "done"}

LEMMA LeaveMoves ==
  ASSUME Placing, NEW s \in Searches, NEW after \in {"done", "batch"}, NEW result \in Results,
         Leave(s, after, result)
  PROVE  /\ search' \in [Searches -> Searcher]
         /\ search'[s].step = IF held[s] = None THEN after ELSE "checkin"
         /\ search'[s].at = search[s].at /\ search'[s].frontier = search[s].frontier
         /\ \A q \in Searches \ {s} : search'[q] = search[q]
<1>1. search \in [Searches -> Searcher] /\ search[s] \in Searcher
  BY DEF Placing, Typed
<1>2. search' = [search EXCEPT ![s].step = IF held[s] = None THEN after ELSE "checkin",
                               ![s].after = after, ![s].result = result]
  BY DEF Leave
<1> QED
  BY <1>1, <1>2 DEF Searcher, Steps

LEMMA GoMoves ==
  ASSUME Placing, NEW s \in Searches, NEW step \in Steps, Go(s, step)
  PROVE  /\ search' \in [Searches -> Searcher] /\ search'[s].step = step
         /\ search'[s].at = search[s].at /\ search'[s].frontier = search[s].frontier
         /\ search'[s].try = search[s].try
         /\ \A q \in Searches \ {s} : search'[q] = search[q]
<1>1. search \in [Searches -> Searcher] /\ search[s] \in Searcher
  BY DEF Placing, Typed
<1>2. search' = [search EXCEPT ![s].step = step]
  BY DEF Go
<1> QED
  BY <1>1, <1>2 DEF Searcher

\* The pool is left alone.
LEMMA Inward ==
  ASSUME Inv, NEW s \in Searches, Alone(s), pool' = pool,
         search' \in [Searches -> Searcher], held' \in [Searches -> Session \union {None}],
         search[s].step \in Away, search'[s].step \in Away,
         held'[s] = None <=> held[s] = None, Placed(s)', Own(s)'
  PROVE  Inv'
<1>1. Typed'
  BY DEF Inv, Placing, Typed
<1>2. Placing'
  BY <1>1, PlacedAlone DEF Inv
<1>3. Counted'
  BY StaysCounted DEF Inv, Away, Entering
<1>4. Owning'
  <2>1. IdleSilent'
    BY DEF Inv, Owning, IdleSilent, Silent
  <2> QED
    BY <2>1, OwnedAlone DEF Inv
<1> QED
  BY <1>2, <1>3, <1>4 DEF Inv

\* Between two requests the pipe is silent, and no state is new.
LEMMA OwnStays ==
  ASSUME NEW s \in Searches, Own(s), held'[s] = held[s],
         search[s].step # "reading", search'[s].step # "reading",
         search'[s].frontier \union {search'[s].at} \subseteq search[s].frontier \union {search[s].at}
  PROVE  Own(s)'
BY DEF Own, OwnState, Silent

LEMMA BeginKeeps ==
  ASSUME Inv, NEW s \in Searches, Begin(s)
  PROVE  Inv'
<1>1. /\ search[s].step \in {"idle", "done"} /\ UNCHANGED <<pool, held>>
      /\ search' = [search EXCEPT ![s] = [Idle EXCEPT !.step = IF pool.open THEN "batch" ELSE "waiting"]]
  BY DEF Begin
<1>2. search \in [Searches -> Searcher] /\ held \in [Searches -> Session \union {None}]
  BY DEF Inv, Placing, Typed
<1>3. Idle \in Searcher /\ Idle.frontier = {} /\ Idle.at = 0
  BY Limits DEF Idle, Searcher, Steps, Results
<1> DEFINE new == [Idle EXCEPT !.step = IF pool.open THEN "batch" ELSE "waiting"]
<1>4. new \in Searcher /\ new.frontier = {} /\ new.at = 0 /\ new.step \in {"batch", "waiting"}
  BY <1>3 DEF Searcher, Steps
<1> HIDE DEF new
<1>5. /\ search' \in [Searches -> Searcher] /\ search'[s] = new
      /\ \A q \in Searches \ {s} : search'[q] = search[q]
  BY <1>1, <1>2, <1>4 DEF new
<1>6. held[s] = None
  BY <1>1 DEF Inv, Placing, Placed
<1>7. Placed(s)' /\ Own(s)'
  BY <1>1, <1>4, <1>5, <1>6 DEF Placed, Own, Before, Present
<1>8. Alone(s)
  BY <1>1, <1>5 DEF Alone
<1> QED
  BY <1>1, <1>2, <1>4, <1>5, <1>7, <1>8, Inward DEF Away

\* A session that was never asked before, or that is silent, gets the one request.
LEMMA AskKeeps ==
  ASSUME Inv, NEW s \in Searches, Ask(s)
  PROVE  Inv'
<1> DEFINE session == IF held[s].alive THEN held[s] ELSE Restarted(held[s])
<1>1. /\ search[s].step = "asking" /\ pool' = pool /\ Go(s, "reading")
      /\ held' = [held EXCEPT ![s] = [session EXCEPT !.todo = Append(@, Asked(s))]]
  BY DEF Ask, At, Take
<1>2. held \in [Searches -> Session \union {None}] /\ held[s] # None /\ search[s] \in Searcher
  BY <1>1 DEF Inv, Placing, Typed, Placed, Present
<1>3. /\ search' \in [Searches -> Searcher] /\ search'[s].step = "reading"
      /\ search'[s].at = search[s].at /\ search'[s].frontier = search[s].frontier
      /\ search'[s].try = search[s].try
      /\ \A q \in Searches \ {s} : search'[q] = search[q]
  BY <1>1, GoMoves DEF Inv, Steps
<1>4. held[s] \in Session /\ session \in Session
  BY <1>2, SessionTypes
<1>5. Asked(s) \in Request
  BY <1>2 DEF Asked, Request, Searcher
<1> DEFINE new == [session EXCEPT !.todo = Append(@, Asked(s))]
<1>6. /\ new \in Session /\ new.out = session.out /\ new.states = session.states
      /\ new.cutOff = session.cutOff /\ new.todo = Append(session.todo, Asked(s))
  <2>1. session.todo \in Seq(Request)
    BY <1>4 DEF Session
  <2>2. Append(session.todo, Asked(s)) \in Seq(Request)
    BY <1>5, <2>1, AppendProperties
  <2> HIDE DEF session
  <2> QED
    BY <1>4, <2>2 DEF Session
<1>7. ~session.cutOff => (Silent(session) /\ \A id \in search[s].frontier \union {search[s].at} :
                           id \in DOMAIN session.states => session.states[id] = s)
  <2>1. CASE held[s].alive
    BY <1>1, <1>2, <2>1 DEF Inv, Owning, Own, OwnState
  <2>2. CASE ~held[s].alive
    <3>1. /\ Len(Restarted(held[s]).todo) = 0 /\ Len(Restarted(held[s]).out) = 0
          /\ Restarted(held[s]).states = <<>>
      BY <1>4, ClosedIsSilent
    <3>2. DOMAIN Restarted(held[s]).states = {}
      BY <3>1
    <3> QED
      BY <2>2, <3>1, <3>2 DEF Silent
  <2> QED
    BY <2>1, <2>2
<1>8. PICK n : n = new
  OBVIOUS
<1>9. PICK a : a = Asked(s)
  OBVIOUS
<1>10. Len(session.todo) = 0 => (Len(n.todo) = 1 /\ Head(n.todo) = a)
  <2>1. session.todo \in Seq(Request)
    BY <1>4 DEF Session
  <2> HIDE DEF session
  <2>2. /\ Len(Append(session.todo, a)) = Len(session.todo) + 1
        /\ Append(session.todo, a)[Len(session.todo) + 1] = a
    BY <1>5, <1>9, <2>1, AppendProperties
  <2> SUFFICES ASSUME Len(session.todo) = 0 PROVE Len(n.todo) = 1 /\ Head(n.todo) = a
    OBVIOUS
  <2>3. n.todo = Append(session.todo, a)
    BY <1>6, <1>8, <1>9
  <2> QED
    BY <2>2, <2>3
<1>11. held'[s] = n /\ held' \in [Searches -> Session \union {None}] /\ n # None
       /\ \A q \in Searches \ {s} : held'[q] = held[q]
  <2>1. held' = [held EXCEPT ![s] = n]
    BY <1>1, <1>8
  <2>2. n \in Session
    BY <1>6, <1>8
  <2> HIDE DEF new
  <2> QED
    BY <1>2, <2>1, <2>2, Limits
<1>12. Asked(s)' = a
  BY <1>3, <1>9 DEF Asked
<1>13. Own(s)'
  <2>1. SUFFICES ASSUME ~n.cutOff
                 PROVE  /\ Reading(s)'
                        /\ \A id \in search[s].frontier \union {search[s].at} : OwnState(s, id)'
    BY <1>3, <1>11 DEF Own
  <2>2. ~session.cutOff
    BY <1>6, <1>8, <2>1
  <2>3. Len(n.out) = 0 /\ Len(n.todo) = 1 /\ Head(n.todo) = a
    BY <1>6, <1>7, <1>8, <1>10, <2>2 DEF Silent
  <2>4. Reading(s)'
    BY <1>11, <1>12, <2>3 DEF Reading
  <2>5. n.states = session.states
    BY <1>6, <1>8
  <2> HIDE DEF session
  <2>6. \A id \in search[s].frontier \union {search[s].at} : OwnState(s, id)'
    BY <1>7, <1>11, <2>2, <2>5 DEF OwnState
  <2> QED
    BY <2>4, <2>6
<1>14. Placed(s)'
  BY <1>3, <1>11 DEF Placed, Before, Present
<1>15. Alone(s)
  BY <1>3, <1>11 DEF Alone
<1> QED
  BY <1>1, <1>2, <1>3, <1>11, <1>13, <1>14, <1>15, Inward DEF Away

\* A closed process knows no state and has an empty pipe.
LEMMA NoAnswerKeeps ==
  ASSUME Inv, NEW s \in Searches, NoAnswer(s)
  PROVE  Inv'
<1>1. /\ search[s].step = "reading" /\ pool' = pool
      /\ held' = [held EXCEPT ![s] = Closed(held[s])]
      /\ \/ Leave(s, "batch", "none")
         \/ search' = [search EXCEPT ![s].step = "asking", ![s].retried = TRUE]
  BY DEF NoAnswer, At, GivenUp, Take
<1>2. /\ held \in [Searches -> Session \union {None}] /\ held[s] # None
      /\ search \in [Searches -> Searcher] /\ search[s] \in Searcher
  BY <1>1 DEF Inv, Placing, Typed, Placed, Present
<1>3. /\ held'[s] = Closed(held[s]) /\ held'[s] \in Session /\ held'[s] # None
      /\ held' \in [Searches -> Session \union {None}]
      /\ \A q \in Searches \ {s} : held'[q] = held[q]
  BY <1>1, <1>2, SessionTypes, Limits
<1>4. /\ search' \in [Searches -> Searcher] /\ search'[s].step \in {"asking", "checkin"}
      /\ \A q \in Searches \ {s} : search'[q] = search[q]
  <2>1. CASE Leave(s, "batch", "none")
    BY <1>2, <2>1, LeaveMoves DEF Inv, Results
  <2>2. CASE search' = [search EXCEPT ![s].step = "asking", ![s].retried = TRUE]
    BY <1>2, <2>2 DEF Searcher, Steps
  <2> QED
    BY <1>1, <2>1, <2>2
<1>5. Own(s)'
  <2>1. Len(held'[s].todo) = 0 /\ Len(held'[s].out) = 0 /\ held'[s].states = <<>>
    BY <1>2, <1>3, ClosedIsSilent
  <2>2. DOMAIN held'[s].states = {}
    BY <2>1
  <2> QED
    BY <1>4, <2>1, <2>2 DEF Own, OwnState, Silent
<1>6. Placed(s)' /\ Alone(s)
  BY <1>3, <1>4 DEF Placed, Before, Present, Alone
<1> QED
  BY <1>1, <1>2, <1>3, <1>4, <1>5, <1>6, Inward DEF Away

\* A step that keeps the session as it is and learns no state.
LEMMA QuietKeeps ==
  ASSUME Inv, NEW s \in Searches, pool' = pool, held' = held,
         search[s].step \in {"asking", "choosing", "checking", "batch"},
         search' \in [Searches -> Searcher],
         \/ search'[s].step \in {"asking", "choosing"} /\ search[s].step \in {"asking", "choosing", "checking"}
         \/ search'[s].step = IF held[s] = None THEN "done" ELSE "checkin",
         search'[s].frontier \union {search'[s].at} \subseteq search[s].frontier \union {search[s].at},
         \A q \in Searches \ {s} : search'[q] = search[q]
  PROVE  Inv'
<1>1. held \in [Searches -> Session \union {None}]
  BY DEF Inv, Placing, Typed
<1>2. search'[s].step \in {"asking", "choosing", "done", "checkin"}
  OBVIOUS
<1>3. Own(s)'
  BY <1>2, OwnStays DEF Inv, Owning
<1>4. Placed(s)'
  BY <1>2 DEF Inv, Placing, Placed, Before, Present
<1>5. Alone(s)
  BY DEF Alone
<1> QED
  BY <1>1, <1>2, <1>3, <1>4, <1>5, Inward DEF Away

LEMMA LeavingKeeps ==
  ASSUME Inv, NEW s \in Searches, pool' = pool, held' = held,
         search[s].step \in {"asking", "choosing", "checking", "batch"},
         NEW result \in Results, Leave(s, "done", result)
  PROVE  Inv'
<1>1. /\ search' \in [Searches -> Searcher]
      /\ search'[s].step = IF held[s] = None THEN "done" ELSE "checkin"
      /\ search'[s].at = search[s].at /\ search'[s].frontier = search[s].frontier
      /\ \A q \in Searches \ {s} : search'[q] = search[q]
  BY LeaveMoves DEF Inv
<1> QED
  BY <1>1, QuietKeeps

LEMMA BlockedKeeps ==
  ASSUME Inv, NEW s \in Searches, Blocked(s)
  PROVE  Inv'
BY LeavingKeeps DEF Blocked, At, Results

LEMMA ExhaustedKeeps ==
  ASSUME Inv, NEW s \in Searches, Exhausted(s)
  PROVE  Inv'
BY LeavingKeeps DEF Exhausted, At, Results

LEMMA SearchBatchKeeps ==
  ASSUME Inv, NEW s \in Searches, SearchBatch(s)
  PROVE  Inv'
BY LeavingKeeps DEF SearchBatch, At, Results

LEMMA CheckProofKeeps ==
  ASSUME Inv, NEW s \in Searches, CheckProof(s)
  PROVE  Inv'
<1>1. search[s].step = "checking" /\ pool' = pool /\ held' = held
  BY DEF CheckProof, At
<1>2. CASE Go(s, "choosing")
  <2>1. /\ search' \in [Searches -> Searcher] /\ search'[s].step = "choosing"
        /\ search'[s].at = search[s].at /\ search'[s].frontier = search[s].frontier
        /\ \A q \in Searches \ {s} : search'[q] = search[q]
    BY <1>2, GoMoves DEF Inv, Steps
  <2> QED
    BY <1>1, <2>1, QuietKeeps
<1>3. CASE Leave(s, "done", "found")
  BY <1>1, <1>3, LeavingKeeps DEF Results
<1> QED
  BY <1>2, <1>3 DEF CheckProof

LEMMA PopKeeps ==
  ASSUME Inv, NEW s \in Searches, Pop(s)
  PROVE  Inv'
<1>1. search[s].step = "choosing" /\ pool' = pool /\ held' = held
  BY DEF Pop, At
<1>2. PICK node \in search[s].frontier :
        search' = [search EXCEPT ![s].at = node, ![s].frontier = @ \ {node}]
  BY DEF Pop
<1>3. search \in [Searches -> Searcher] /\ search[s] \in Searcher
  BY DEF Inv, Placing, Typed
<1>4. /\ search' \in [Searches -> Searcher] /\ search'[s].step = "choosing"
      /\ search'[s].at = node /\ search'[s].frontier = search[s].frontier \ {node}
      /\ \A q \in Searches \ {s} : search'[q] = search[q]
  BY <1>1, <1>2, <1>3 DEF Searcher
<1> QED
  BY <1>1, <1>4, QuietKeeps

LEMMA TryKeeps ==
  ASSUME Inv, NEW s \in Searches, Try(s)
  PROVE  Inv'
<1>1. /\ search[s].step = "choosing" /\ pool' = pool /\ held' = held /\ search[s].try < MaxTries
      /\ search' = [search EXCEPT ![s].step = "asking", ![s].try = @ + 1, ![s].retried = FALSE]
  BY DEF Try, At
<1>2. search \in [Searches -> Searcher] /\ search[s] \in Searcher
  BY DEF Inv, Placing, Typed
<1>3. search[s].try + 1 \in 0 .. MaxTries
  BY <1>1, <1>2, Limits DEF Searcher
<1>4. /\ search' \in [Searches -> Searcher] /\ search'[s].step = "asking"
      /\ search'[s].at = search[s].at /\ search'[s].frontier = search[s].frontier
      /\ \A q \in Searches \ {s} : search'[q] = search[q]
  BY <1>1, <1>2, <1>3 DEF Searcher, Steps
<1> QED
  BY <1>1, <1>4, QuietKeeps

LEMMA ReadType ==
  ASSUME NEW session \in Session, session.out # <<>>,
         NEW n, n = [session EXCEPT !.out = Tail(@), !.served = @ + 1]
  PROVE  /\ n \in Session /\ n.out = Tail(session.out) /\ n.todo = session.todo
         /\ n.states = session.states /\ n.cutOff = session.cutOff
<1>1. PICK rest : rest = Tail(session.out)
  OBVIOUS
<1>2. rest \in Seq(Answer)
  BY <1>1, HeadTailProperties DEF Session
<1>3. PICK count \in Nat : count = session.served + 1
  BY DEF Session
<1>4. n = [session EXCEPT !.out = rest, !.served = count]
  BY <1>1, <1>3
<1> QED
  BY <1>1, <1>2, <1>3, <1>4 DEF Session

\* The answer that is read is the only one; a state it names joins those of the theorem.
LEMMA ReadingKeeps ==
  ASSUME Inv, NEW s \in Searches, search[s].step = "reading", held[s].out # <<>>, ReadAnswer(s),
         pool' = pool, search' \in [Searches -> Searcher],
         search'[s].step \in {"choosing", "checking", "batch", "checkin"},
         \/ search'[s].frontier = search[s].frontier
         \/ /\ Heard(s).kind \in {"opened", "progress"}
            /\ search'[s].frontier \subseteq search[s].frontier \union {Heard(s).state},
         search'[s].at = search[s].at, \A q \in Searches \ {s} : search'[q] = search[q]
  PROVE  Inv'
<1>1. /\ held \in [Searches -> Session \union {None}] /\ held[s] # None
      /\ held' = [held EXCEPT ![s] = [held[s] EXCEPT !.out = Tail(@), !.served = @ + 1]]
  BY DEF Inv, Placing, Typed, Placed, Present, ReadAnswer, Take
<1>2. held[s] \in Session /\ held[s].out \in Seq(Answer) /\ held[s].served \in Nat
  BY <1>1 DEF Session
<1>3. Tail(held[s].out) \in Seq(Answer) /\ Len(Tail(held[s].out)) = Len(held[s].out) - 1
  BY <1>2, HeadTailProperties
<1>4. /\ held'[s] \in Session /\ held'[s].out = Tail(held[s].out) /\ held'[s].todo = held[s].todo
      /\ held'[s].states = held[s].states /\ held'[s].cutOff = held[s].cutOff
      /\ held' \in [Searches -> Session \union {None}] /\ \A q \in Searches \ {s} : held'[q] = held[q]
  <2>1. PICK n : n = [held[s] EXCEPT !.out = Tail(@), !.served = @ + 1]
    OBVIOUS
  <2>3. /\ n \in Session /\ n.out = Tail(held[s].out) /\ n.todo = held[s].todo
        /\ n.states = held[s].states /\ n.cutOff = held[s].cutOff
    BY <1>2, <2>1, ReadType
  <2>4. held' = [held EXCEPT ![s] = n]
    BY <1>1, <2>1
  <2> QED
    BY <1>1, <2>3, <2>4
<1>5. held'[s] # None
  BY <1>4, Limits
<1>6. Own(s)'
  <2> SUFFICES ASSUME ~held[s].cutOff
               PROVE  /\ Silent(held'[s])
                      /\ \A id \in search'[s].frontier \union {search'[s].at} : OwnState(s, id)'
    BY <1>4, <1>5 DEF Own, Silent
  <2>1. Len(held[s].out) # 0
    BY <1>2, EmptySeq
  <2>2. /\ Len(held[s].todo) = 0 /\ Len(held[s].out) = 1
        /\ Heard(s).kind \in {"opened", "progress"} => OwnState(s, Heard(s).state)
    BY <1>1, <2>1 DEF Inv, Owning, Own, Reading
  <2>3. \A id \in search[s].frontier \union {search[s].at} : OwnState(s, id)
    BY <1>1 DEF Inv, Owning, Own
  <2>4. \A id : OwnState(s, id)' <=> OwnState(s, id)
    BY <1>4 DEF OwnState
  <2>5. \A id \in search'[s].frontier \union {search'[s].at} : OwnState(s, id)
    BY <2>2, <2>3
  <2> QED
    BY <1>3, <1>4, <2>2, <2>4, <2>5 DEF Silent
<1>7. Placed(s)' /\ Alone(s)
  BY <1>4, <1>5 DEF Placed, Before, Present, Alone
<1> QED
  BY <1>1, <1>4, <1>5, <1>6, <1>7, Inward DEF Away

LEMMA OpensKeeps ==
  ASSUME Inv, NEW s \in Searches, Opens(s)
  PROVE  Inv'
<1>1. search[s].step = "reading" /\ held[s].out # <<>> /\ ReadAnswer(s) /\ pool' = pool
  BY DEF Opens, At
<1>2. search \in [Searches -> Searcher] /\ search[s] \in Searcher /\ held[s] \in Session \union {None}
  BY DEF Inv, Placing, Typed
<1>3. held[s] # None
  BY <1>1 DEF Inv, Placing, Placed, Present
<1>4. CASE /\ Heard(s).kind = "opened"
           /\ search' = [search EXCEPT ![s].step = "choosing", ![s].frontier = {Heard(s).state}]
  <2>1. Heard(s).state \in Nat
    <3>1. held[s].out \in Seq(Answer)
      BY <1>2, <1>3 DEF Session
    <3>2. Heard(s) \in Answer
      BY <1>1, <3>1, HeadTailProperties DEF Heard
    <3> QED
      BY <3>2 DEF Answer
  <2>2. /\ search' \in [Searches -> Searcher] /\ search'[s].step = "choosing"
        /\ search'[s].frontier = {Heard(s).state} /\ search'[s].at = search[s].at
        /\ \A q \in Searches \ {s} : search'[q] = search[q]
    BY <1>2, <1>4, <2>1 DEF Searcher, Steps
  <2> QED
    BY <1>1, <1>4, <2>2, ReadingKeeps
<1>5. CASE Go(s, "batch")
  <2>1. /\ search' \in [Searches -> Searcher] /\ search'[s].step = "batch"
        /\ search'[s].at = search[s].at /\ search'[s].frontier = search[s].frontier
        /\ \A q \in Searches \ {s} : search'[q] = search[q]
    BY <1>5, GoMoves DEF Inv, Steps
  <2> QED
    BY <1>1, <2>1, ReadingKeeps
<1>6. CASE Leave(s, "batch", "none")
  <2>1. /\ search' \in [Searches -> Searcher] /\ search'[s].step = "checkin"
        /\ search'[s].at = search[s].at /\ search'[s].frontier = search[s].frontier
        /\ \A q \in Searches \ {s} : search'[q] = search[q]
    BY <1>3, <1>6, LeaveMoves DEF Inv, Results
  <2> QED
    BY <1>1, <2>1, ReadingKeeps
<1> QED
  BY <1>4, <1>5, <1>6 DEF Opens

LEMMA TriedKeeps ==
  ASSUME Inv, NEW s \in Searches, Tried(s)
  PROVE  Inv'
<1>1. search[s].step = "reading" /\ held[s].out # <<>> /\ ReadAnswer(s) /\ pool' = pool
  BY DEF Tried, At
<1>2. search \in [Searches -> Searcher] /\ search[s] \in Searcher /\ held[s] \in Session \union {None}
  BY DEF Inv, Placing, Typed
<1>3. held[s] # None
  BY <1>1 DEF Inv, Placing, Placed, Present
<1>4. CASE /\ Heard(s).kind = "progress"
           /\ search' = [search EXCEPT ![s].step = "choosing", ![s].frontier = @ \union {Heard(s).state}]
  <2>1. Heard(s).state \in Nat
    <3>1. held[s].out \in Seq(Answer)
      BY <1>2, <1>3 DEF Session
    <3>2. Heard(s) \in Answer
      BY <1>1, <3>1, HeadTailProperties DEF Heard
    <3> QED
      BY <3>2 DEF Answer
  <2>2. /\ search' \in [Searches -> Searcher] /\ search'[s].step = "choosing"
        /\ search'[s].frontier = search[s].frontier \union {Heard(s).state} /\ search'[s].at = search[s].at
        /\ \A q \in Searches \ {s} : search'[q] = search[q]
    BY <1>2, <1>4, <2>1 DEF Searcher, Steps
  <2> QED
    BY <1>1, <1>4, <2>2, ReadingKeeps
<1>5. ASSUME NEW step \in {"choosing", "checking"}, Go(s, step)
      PROVE  Inv'
  <2>1. /\ search' \in [Searches -> Searcher] /\ search'[s].step = step
        /\ search'[s].at = search[s].at /\ search'[s].frontier = search[s].frontier
        /\ \A q \in Searches \ {s} : search'[q] = search[q]
    BY <1>5, GoMoves DEF Inv, Steps
  <2> QED
    BY <1>1, <2>1, ReadingKeeps
<1> QED
  BY <1>4, <1>5 DEF Tried

-----------------------------------------------------------------------------
(* Steps of the pool *)

\* A session comes from the pool or a start, or goes there: the search is not reading, and
\* knows no state while it has none.
LEMMA AcquireKeeps ==
  ASSUME Inv, NEW s \in Searches, Acquire(s)
  PROVE  Inv'
<1>1. /\ search[s].step = "waiting" /\ held' = held /\ Go(s, "checkout") /\ pool.permits > 0
      /\ pool' = [pool EXCEPT !.permits = @ - 1]
  BY DEF Acquire, At
<1>2. /\ search' \in [Searches -> Searcher] /\ search'[s].step = "checkout"
      /\ search'[s].at = search[s].at /\ search'[s].frontier = search[s].frontier
      /\ \A q \in Searches \ {s} : search'[q] = search[q]
  BY <1>1, GoMoves DEF Inv, Steps
<1>3. pool \in Pool /\ held[s] = None /\ held \in [Searches -> Session \union {None}]
  BY <1>1 DEF Inv, Placing, Typed, Placed, Before
<1>4. /\ pool'.permits = pool.permits - 1 /\ pool'.spawned = pool.spawned /\ pool'.idle = pool.idle
      /\ pool' \in Pool
  BY <1>1, <1>3, Limits DEF Pool
<1>5. Typed' /\ Alone(s) /\ Placed(s)' /\ Own(s)'
  BY <1>1, <1>2, <1>3, <1>4 DEF Typed, Alone, Inv, Placing, Placed, Before, Present, Own
<1>6. Counted'
  <2>1. s \notin Users /\ s \in Users'
    BY <1>1, <1>2, <1>3 DEF Users, Entering
  <2>2. Cardinality(Users') = Cardinality(Users) + 1
    BY <1>5, <2>1, Recount, CountTypes DEF One
  <2>3. Out' = Out /\ Starting' = Starting /\ Kept' = Kept
    BY <1>1, <1>2, <1>3, <1>5 DEF Out, Starting, Kept, Alone
  <2>4. pool.permits + Cardinality(Users) = MaxSessions /\ pool.permits \in Nat
    BY <1>3 DEF Inv, Counted, Pool
  <2>5. pool'.permits + Cardinality(Users') = MaxSessions
    BY <1>4, <2>2, <2>4, CountTypes, Limits
  <2> QED
    BY <1>4, <2>3, <2>5 DEF Inv, Counted
<1>7. Owning'
  <2>1. IdleSilent'
    BY <1>4 DEF Inv, Owning, IdleSilent, Silent
  <2> QED
    BY <1>5, <2>1, OwnedAlone DEF Inv
<1> QED
  BY <1>5, <1>6, <1>7, PlacedAlone DEF Inv

LEMMA Transfers ==
  ASSUME NEW max \in Nat, NEW p \in Nat, NEW q \in Nat, NEW U \in Nat, NEW u1 \in {0, 1}, NEW u2 \in {0, 1},
         p + U = max, q + u2 = p + u1
  PROVE  q + (U - u1 + u2) = max
OBVIOUS

LEMMA Places ==
  ASSUME NEW max \in Nat, NEW O \in Nat, NEW S \in Nat, NEW i \in Nat, NEW j \in Nat,
         NEW o1 \in {0, 1}, NEW o2 \in {0, 1}, NEW t1 \in {0, 1}, NEW t2 \in {0, 1},
         O + i + S <= max, o2 + j + t2 <= o1 + i + t1
  PROVE  (O - o1 + o2) + j + (S - t1 + t2) <= max
OBVIOUS

LEMMA OnePlace ==
  ASSUME NEW max \in Nat, NEW O \in Nat, NEW S \in Nat, NEW j \in Nat,
         NEW o1 \in {0, 1}, NEW o2 \in {0, 1}, NEW t1 \in {0, 1}, NEW t2 \in {0, 1},
         j = 0, o1 = 0, t1 = 0, o2 + t2 <= 1, O + S + 1 <= max
  PROVE  (O - o1 + o2) + j + (S - t1 + t2) <= max
OBVIOUS

LEMMA Numbers ==
  ASSUME NEW K \in Nat, NEW S \in Nat, NEW i \in Nat, NEW j \in Nat, NEW m \in Nat, NEW n \in Nat,
         NEW k1 \in {0, 1}, NEW k2 \in {0, 1}, NEW t1 \in {0, 1}, NEW t2 \in {0, 1},
         K + i + S <= m, k2 + j + t2 + m <= k1 + i + t1 + n
  PROVE  (K - k1 + k2) + j + (S - t1 + t2) <= n
OBVIOUS

LEMMA CountsMove ==
  ASSUME Placing, Counted, NEW s \in Searches, Alone(s), pool' \in Pool,
         pool'.permits + One(s \in Users') = pool.permits + One(s \in Users),
         \/ One(s \in Out') + Len(pool'.idle) + One(s \in Starting')
              <= One(s \in Out) + Len(pool.idle) + One(s \in Starting)
         \/ /\ search[s].step \in Entering /\ Len(pool'.idle) = 0
            /\ s \notin Out /\ s \notin Starting /\ One(s \in Out') + One(s \in Starting') <= 1,
         One(s \in Kept') + Len(pool'.idle) + One(s \in Starting') + pool.spawned
           <= One(s \in Kept) + Len(pool.idle) + One(s \in Starting) + pool'.spawned,
         pool'.spawned <= MaxSessions
  PROVE  Counted'
<1>1. /\ pool.permits \in Nat /\ pool.spawned \in Nat /\ Len(pool.idle) \in Nat
      /\ pool'.permits \in Nat /\ pool'.spawned \in Nat /\ Len(pool'.idle) \in Nat
  BY LenProperties DEF Placing, Typed, Pool
<1> DEFINE U == Cardinality(Users)
           O == Cardinality(Out)
           S == Cardinality(Starting)
           K == Cardinality(Kept)
<1>2. U \in Nat /\ O \in Nat /\ S \in Nat /\ K \in Nat
  BY CountTypes
<1>3. PICK u1 \in {0, 1}, u2 \in {0, 1}, o1 \in {0, 1}, o2 \in {0, 1},
           t1 \in {0, 1}, t2 \in {0, 1}, k1 \in {0, 1}, k2 \in {0, 1} :
        /\ u1 = One(s \in Users) /\ u2 = One(s \in Users') /\ o1 = One(s \in Out) /\ o2 = One(s \in Out')
        /\ t1 = One(s \in Starting) /\ t2 = One(s \in Starting')
        /\ k1 = One(s \in Kept) /\ k2 = One(s \in Kept')
  BY DEF One
<1>4. /\ Cardinality(Users') = U - u1 + u2 /\ Cardinality(Out') = O - o1 + o2
      /\ Cardinality(Starting') = S - t1 + t2 /\ Cardinality(Kept') = K - k1 + k2
  BY <1>3, Recount
<1>5. PICK i \in Nat, j \in Nat, p \in Nat, q \in Nat, m \in Nat, n \in Nat :
        /\ i = Len(pool.idle) /\ j = Len(pool'.idle) /\ p = pool.permits /\ q = pool'.permits
        /\ m = pool.spawned /\ n = pool'.spawned
  BY <1>1
<1>6. p + U = MaxSessions /\ O + i + S <= MaxSessions /\ K + i + S <= m
  BY <1>5 DEF Counted
<1>7. q + u2 = p + u1 /\ k2 + j + t2 + m <= k1 + i + t1 + n
  BY <1>3, <1>5
<1>8. \/ o2 + j + t2 <= o1 + i + t1
      \/ j = 0 /\ o1 = 0 /\ t1 = 0 /\ o2 + t2 <= 1 /\ O + S + 1 <= MaxSessions
  BY <1>3, <1>5, RoomForOne DEF One
<1> HIDE DEF U, O, S, K
<1>9. MaxSessions \in Nat
  BY Limits
<1>10. q + (U - u1 + u2) = MaxSessions
  BY <1>2, <1>6, <1>7, <1>9, Transfers
<1>11. (O - o1 + o2) + j + (S - t1 + t2) <= MaxSessions
  <2>1. CASE o2 + j + t2 <= o1 + i + t1
    BY <1>2, <1>6, <1>9, <2>1, Places
  <2>2. CASE j = 0 /\ o1 = 0 /\ t1 = 0 /\ o2 + t2 <= 1 /\ O + S + 1 <= MaxSessions
    BY <1>2, <1>9, <2>2, OnePlace
  <2> QED
    BY <1>8, <2>1, <2>2
<1>12. (K - k1 + k2) + j + (S - t1 + t2) <= n
  BY <1>2, <1>6, <1>7, Numbers
<1> QED
  BY <1>4, <1>5, <1>10, <1>11, <1>12 DEF Counted

\* A search that had no session begins to ask with one that is silent.
LEMMA Enters ==
  ASSUME Inv, NEW s \in Searches, search[s].step \in Before, search'[s].step = "asking",
         search'[s].at = search[s].at, search'[s].frontier = search[s].frontier,
         NEW session \in Session, held'[s] = session, ~session.cutOff => Silent(session)
  PROVE  Own(s)' /\ Placed(s)'
<1>1. search'[s].frontier \union {search'[s].at} = {0} /\ held'[s] # None
  BY Limits DEF Inv, Placing, Placed
<1>2. 0 \notin DOMAIN session.states
  BY LenProperties DEF Session
<1>3. Own(s)'
  BY <1>1, <1>2 DEF Own, OwnState, Silent
<1> QED
  BY <1>1, <1>3 DEF Placed, Before, Present

LEMMA ShorterIdle ==
  ASSUME Inv, NEW n \in 0 .. Len(pool.idle), pool'.idle = SubSeq(pool.idle, 1, n)
  PROVE  pool'.idle \in Seq(Session) /\ Len(pool'.idle) = n /\ IdleSilent'
<1>1. pool.idle \in Seq(Session) /\ Len(pool.idle) \in Nat /\ DOMAIN pool.idle = 1 .. Len(pool.idle)
  BY LenProperties DEF Inv, Placing, Typed, Pool
<1>2. /\ SubSeq(pool.idle, 1, n) \in Seq(Session) /\ Len(SubSeq(pool.idle, 1, n)) = n
      /\ \A i \in 1 .. n : SubSeq(pool.idle, 1, n)[i] = pool.idle[i]
  <2>1. \A i \in 1 .. n : i \in 1 .. Len(pool.idle)
    BY <1>1
  <2>2. pool.idle \in Seq(Session) /\ 1 \in 1 .. Len(pool.idle) + 1 /\ n \in 0 .. Len(pool.idle)
    BY <1>1
  <2>3. \A i \in 1 .. n : pool.idle[i] \in Session
    BY <1>1, <2>1, ElementOfSeq
  <2> QED
    BY <1>1, <2>2, <2>3, SubSeqProperties
<1>3. DOMAIN pool'.idle = 1 .. n
  BY <1>2, LenProperties
<1>4. IdleSilent'
  BY <1>1, <1>2, <1>3 DEF Inv, Owning, IdleSilent, Silent
<1> QED
  BY <1>2, <1>4

LEMMA EmptyIdle ==
  ASSUME pool'.idle = <<>>
  PROVE  pool'.idle \in Seq(Session) /\ Len(pool'.idle) = 0 /\ IdleSilent'
BY EmptySeq DEF IdleSilent

\* An idle session is taken; what lay above it goes.
LEMMA TakesIdle ==
  ASSUME Inv, NEW s \in Searches, search[s].step \in Entering, NEW top \in DOMAIN pool.idle,
         Take(s, pool.idle[top]), pool' = [pool EXCEPT !.idle = SubSeq(@, 1, top - 1)], Go(s, "asking")
  PROVE  Inv'
<1>1. pool \in Pool /\ held \in [Searches -> Session \union {None}]
  BY DEF Inv, Placing, Typed
<1>2. pool.idle \in Seq(Session) /\ DOMAIN pool.idle = 1 .. Len(pool.idle) /\ Len(pool.idle) \in Nat
  BY <1>1, LenProperties DEF Pool
<1>3. pool.idle[top] \in Session /\ top - 1 \in 0 .. Len(pool.idle) /\ top - 1 < Len(pool.idle)
  BY <1>2, ElementOfSeq
<1>4. pool'.idle = SubSeq(pool.idle, 1, top - 1)
  BY <1>1 DEF Pool
<1>5. pool'.idle \in Seq(Session) /\ Len(pool'.idle) = top - 1 /\ IdleSilent'
  BY <1>3, <1>4, ShorterIdle
<1>6. pool' \in Pool /\ pool'.permits = pool.permits /\ pool'.spawned = pool.spawned
  BY <1>1, <1>4, <1>5 DEF Pool
<1>7. /\ search' \in [Searches -> Searcher] /\ search'[s].step = "asking"
      /\ search'[s].at = search[s].at /\ search'[s].frontier = search[s].frontier
      /\ \A q \in Searches \ {s} : search'[q] = search[q]
  BY GoMoves DEF Inv, Steps
<1>8. /\ held'[s] = pool.idle[top] /\ held' \in [Searches -> Session \union {None}]
      /\ \A q \in Searches \ {s} : held'[q] = held[q]
  BY <1>1, <1>3 DEF Take
<1>9. ~pool.idle[top].cutOff => Silent(pool.idle[top])
  BY DEF Inv, Owning, IdleSilent
<1>10. Own(s)' /\ Placed(s)'
  BY <1>3, <1>7, <1>8, <1>9, Enters DEF Entering, Before
<1>11. Typed' /\ Alone(s)
  BY <1>6, <1>7, <1>8 DEF Typed, Alone
<1>12. Counted'
  <2>1. held[s] = None /\ held'[s] # None
    BY <1>3, <1>8, Limits DEF Inv, Placing, Placed, Entering, Before
  <2>2. /\ s \in Users /\ s \in Users' /\ s \notin Out /\ s \in Out' /\ s \notin Starting
        /\ s \notin Starting' /\ s \notin Kept /\ s \in Kept'
    BY <1>7, <2>1 DEF Users, Out, Starting, Kept, Entering
  <2>3. /\ One(s \in Users) = 1 /\ One(s \in Users') = 1 /\ One(s \in Out) = 0 /\ One(s \in Out') = 1
        /\ One(s \in Starting) = 0 /\ One(s \in Starting') = 0
        /\ One(s \in Kept) = 0 /\ One(s \in Kept') = 1
    BY <2>2 DEF One
  <2>4. pool.spawned \in Nat /\ pool.permits \in Nat /\ pool.spawned <= MaxSessions
    BY <1>1 DEF Pool, Inv, Counted
  <2>5. /\ pool'.permits + One(s \in Users') = pool.permits + One(s \in Users)
        /\ One(s \in Out') + Len(pool'.idle) + One(s \in Starting')
             <= One(s \in Out) + Len(pool.idle) + One(s \in Starting)
        /\ One(s \in Kept') + Len(pool'.idle) + One(s \in Starting') + pool.spawned
             <= One(s \in Kept) + Len(pool.idle) + One(s \in Starting) + pool'.spawned
    BY <1>2, <1>3, <1>5, <1>6, <2>3, <2>4
  <2> QED
    BY <1>6, <1>11, <2>4, <2>5, CountsMove DEF Inv
<1> QED
  BY <1>5, <1>10, <1>11, <1>12, PlacedAlone, OwnedAlone DEF Inv

\* No idle session is alive: all of them go, and the search starts a process if a number is
\* free.
LEMMA StartsOrRechecks ==
  ASSUME Inv, NEW s \in Searches, search[s].step = "checkout", held' = held,
         NEW more \in {0, 1}, more = 1 => pool.spawned < MaxSessions,
         pool' = [pool EXCEPT !.idle = <<>>, !.spawned = @ + more],
         NEW step, step = (IF more = 1 THEN "starting" ELSE "recheck"), Go(s, step)
  PROVE  Inv'
<1>1. pool \in Pool /\ held \in [Searches -> Session \union {None}]
  BY DEF Inv, Placing, Typed
<1>2. pool'.idle \in Seq(Session) /\ Len(pool'.idle) = 0 /\ IdleSilent'
  <2>1. pool'.idle = <<>>
    BY <1>1 DEF Pool
  <2> QED
    BY <2>1, EmptyIdle
<1>3. /\ pool' \in Pool /\ pool'.permits = pool.permits
      /\ pool'.spawned = pool.spawned + more
  <2>1. pool.spawned + more \in Nat
    BY <1>1 DEF Pool
  <2> QED
    BY <1>1, <1>2, <2>1 DEF Pool
<1>4. /\ search' \in [Searches -> Searcher] /\ search'[s].step = step
      /\ search'[s].at = search[s].at /\ search'[s].frontier = search[s].frontier
      /\ \A q \in Searches \ {s} : search'[q] = search[q]
  BY GoMoves DEF Inv, Steps
<1>5. held[s] = None
  BY DEF Inv, Placing, Placed, Before
<1>6. Typed' /\ Alone(s) /\ Own(s)' /\ Placed(s)'
  BY <1>1, <1>3, <1>4, <1>5 DEF Typed, Alone, Own, Inv, Placing, Placed, Before, Present
<1>7. Counted'
  <2>1. /\ s \in Users /\ s \in Users' /\ s \notin Out /\ s \notin Out' /\ s \notin Starting
        /\ s \notin Kept /\ s \notin Kept' /\ (s \in Starting' <=> more = 1)
    BY <1>4, <1>5 DEF Users, Out, Starting, Kept, Entering
  <2>2. /\ One(s \in Users) = 1 /\ One(s \in Users') = 1 /\ One(s \in Out) = 0 /\ One(s \in Out') = 0
        /\ One(s \in Starting) = 0 /\ One(s \in Starting') = more
        /\ One(s \in Kept) = 0 /\ One(s \in Kept') = 0
    BY <2>1 DEF One
  <2>3. pool.spawned \in Nat /\ pool.permits \in Nat /\ Len(pool.idle) \in Nat /\ pool.spawned <= MaxSessions
    BY <1>1, LenProperties DEF Pool, Inv, Counted
  <2>4. pool'.permits + One(s \in Users') = pool.permits + One(s \in Users)
    BY <1>3, <2>2
  <2>5. One(s \in Kept') + Len(pool'.idle) + One(s \in Starting') + pool.spawned
          <= One(s \in Kept) + Len(pool.idle) + One(s \in Starting) + pool'.spawned
    BY <1>2, <1>3, <2>2, <2>3
  <2>6. pool'.spawned <= MaxSessions
    BY <1>3, <2>3, Limits
  <2>7. search[s].step \in Entering /\ One(s \in Out') + One(s \in Starting') <= 1
    BY <2>2 DEF Entering
  <2> QED
    BY <1>2, <1>3, <1>6, <2>1, <2>4, <2>5, <2>6, <2>7, CountsMove DEF Inv
<1> QED
  BY <1>2, <1>6, <1>7, PlacedAlone, OwnedAlone DEF Inv

LEMMA CheckOutKeeps ==
  ASSUME Inv, NEW s \in Searches, CheckOut(s)
  PROVE  Inv'
<1>1. search[s].step = "checkout" /\ search[s].step \in Entering
  BY DEF CheckOut, At, Entering
<1>2. CASE Alive # {}
  <2>1. PICK top \in Alive :
          Take(s, pool.idle[top]) /\ pool' = [pool EXCEPT !.idle = SubSeq(@, 1, top - 1)] /\ Go(s, "asking")
    BY <1>2 DEF CheckOut
  <2>2. top \in DOMAIN pool.idle
    BY DEF Alive
  <2> QED
    BY <1>1, <2>1, <2>2, TakesIdle
<1>3. CASE ~(Alive # {})
  <2>1. CASE pool.spawned < MaxSessions
    <3>1. pool' = [pool EXCEPT !.idle = <<>>, !.spawned = @ + 1] /\ Go(s, "starting") /\ held' = held
      BY <1>3, <2>1 DEF CheckOut
    <3> QED
      BY <1>1, <2>1, <3>1, StartsOrRechecks
  <2>2. CASE ~(pool.spawned < MaxSessions)
    <3>1. pool' = [pool EXCEPT !.idle = <<>>, !.spawned = @ + 0] /\ Go(s, "recheck") /\ held' = held
      BY <1>3, <2>2 DEF CheckOut
    <3> QED
      BY <1>1, <3>1, StartsOrRechecks
  <2> QED
    BY <2>1, <2>2
<1> QED
  BY <1>2, <1>3

\* A search gives its permit back and has no session.
LEMMA GivesUp ==
  ASSUME Inv, NEW s \in Searches, search[s].step \in Entering, pool' = Freed, held' = held,
         search' \in [Searches -> Searcher], search'[s].step \in {"batch", "done"},
         \A q \in Searches \ {s} : search'[q] = search[q]
  PROVE  Inv'
<1>1. pool \in Pool /\ held \in [Searches -> Session \union {None}] /\ held[s] = None
  BY DEF Inv, Placing, Typed, Placed, Entering, Before
<1>2. /\ pool' \in Pool /\ pool'.permits = pool.permits + 1 /\ pool'.spawned = pool.spawned
      /\ pool'.idle = pool.idle /\ IdleSilent'
  BY <1>1 DEF Pool, Freed, Inv, Owning, IdleSilent, Silent
<1>3. Typed' /\ Alone(s) /\ Own(s)' /\ Placed(s)'
  BY <1>1, <1>2 DEF Typed, Alone, Own, Placed, Before, Present
<1>4. Counted'
  <2>1. /\ s \in Users /\ s \notin Users' /\ s \notin Out /\ s \notin Out' /\ s \notin Starting
        /\ s \notin Starting' /\ s \notin Kept /\ s \notin Kept'
    BY <1>1 DEF Users, Out, Starting, Kept, Entering
  <2>2. /\ One(s \in Users) = 1 /\ One(s \in Users') = 0 /\ One(s \in Out) = 0 /\ One(s \in Out') = 0
        /\ One(s \in Starting) = 0 /\ One(s \in Starting') = 0
        /\ One(s \in Kept) = 0 /\ One(s \in Kept') = 0
    BY <2>1 DEF One
  <2>3. pool.spawned \in Nat /\ pool.permits \in Nat /\ Len(pool.idle) \in Nat /\ pool.spawned <= MaxSessions
    BY <1>1, LenProperties DEF Pool, Inv, Counted
  <2>4. /\ pool'.permits + One(s \in Users') = pool.permits + One(s \in Users)
        /\ One(s \in Out') + Len(pool'.idle) + One(s \in Starting')
             <= One(s \in Out) + Len(pool.idle) + One(s \in Starting)
        /\ One(s \in Kept') + Len(pool'.idle) + One(s \in Starting') + pool.spawned
             <= One(s \in Kept) + Len(pool.idle) + One(s \in Starting) + pool'.spawned
        /\ pool'.spawned <= MaxSessions
    BY <1>2, <2>2, <2>3
  <2> QED
    BY <1>2, <1>3, <2>4, CountsMove DEF Inv
<1> QED
  BY <1>2, <1>3, <1>4, PlacedAlone, OwnedAlone DEF Inv

LEMMA RecheckKeeps ==
  ASSUME Inv, NEW s \in Searches, Recheck(s)
  PROVE  Inv'
<1>1. search[s].step = "recheck" /\ search[s].step \in Entering
  BY DEF Recheck, At, Entering
<1>2. CASE pool.idle # <<>>
  <2>1. /\ Take(s, pool.idle[Len(pool.idle)]) /\ Go(s, "asking")
        /\ pool' = [pool EXCEPT !.idle = SubSeq(@, 1, Len(@) - 1)]
    BY <1>2 DEF Recheck
  <2>2. pool \in Pool /\ pool.idle \in Seq(Session)
    BY DEF Inv, Placing, Typed, Pool
  <2>3. Len(pool.idle) \in DOMAIN pool.idle
    BY <1>2, <2>2, LenProperties, EmptySeq
  <2>4. PICK top : top = Len(pool.idle)
    OBVIOUS
  <2>5. pool' = [pool EXCEPT !.idle = SubSeq(@, 1, top - 1)]
    BY <2>1, <2>4
  <2> QED
    BY <1>1, <2>1, <2>3, <2>4, <2>5, TakesIdle
<1>3. CASE ~(pool.idle # <<>>)
  <2>1. pool' = Freed /\ Go(s, "batch") /\ held' = held
    BY <1>3 DEF Recheck
  <2>2. /\ search' \in [Searches -> Searcher] /\ search'[s].step = "batch"
        /\ \A q \in Searches \ {s} : search'[q] = search[q]
    BY <2>1, GoMoves DEF Inv, Steps
  <2> QED
    BY <1>1, <2>1, <2>2, GivesUp
<1> QED
  BY <1>2, <1>3

LEMMA StartedKeeps ==
  ASSUME Inv, NEW s \in Searches, Started(s)
  PROVE  Inv'
<1>1. search[s].step = "starting" /\ pool' = pool /\ Take(s, NewSession) /\ Go(s, "asking")
  BY DEF Started, At
<1>2. pool \in Pool /\ held \in [Searches -> Session \union {None}] /\ held[s] = None
  BY <1>1 DEF Inv, Placing, Typed, Placed, Before
<1>3. /\ search' \in [Searches -> Searcher] /\ search'[s].step = "asking"
      /\ search'[s].at = search[s].at /\ search'[s].frontier = search[s].frontier
      /\ \A q \in Searches \ {s} : search'[q] = search[q]
  BY <1>1, GoMoves DEF Inv, Steps
<1>4. NewSession \in Session /\ Silent(NewSession)
  <2>1. NewSession.todo = <<>> /\ NewSession.out = <<>>
    BY DEF NewSession
  <2> QED
    BY <2>1, SessionTypes, EmptySeq DEF Silent
<1>5. /\ held'[s] = NewSession /\ held' \in [Searches -> Session \union {None}] /\ held'[s] # None
      /\ \A q \in Searches \ {s} : held'[q] = held[q]
  BY <1>1, <1>2, <1>4, Limits DEF Take
<1>6. Own(s)' /\ Placed(s)'
  BY <1>1, <1>3, <1>4, <1>5, Enters DEF Before
<1>7. Typed' /\ Alone(s) /\ IdleSilent'
  BY <1>1, <1>2, <1>3, <1>5 DEF Typed, Alone, Inv, Owning, IdleSilent, Silent
<1>8. Counted'
  <2>1. /\ s \in Users /\ s \in Users' /\ s \notin Out /\ s \in Out' /\ s \in Starting
        /\ s \notin Starting' /\ s \notin Kept /\ s \in Kept'
    BY <1>1, <1>2, <1>3, <1>5 DEF Users, Out, Starting, Kept, Entering
  <2>2. /\ One(s \in Users) = 1 /\ One(s \in Users') = 1 /\ One(s \in Out) = 0 /\ One(s \in Out') = 1
        /\ One(s \in Starting) = 1 /\ One(s \in Starting') = 0
        /\ One(s \in Kept) = 0 /\ One(s \in Kept') = 1
    BY <2>1 DEF One
  <2>3. pool.spawned \in Nat /\ pool.permits \in Nat /\ Len(pool.idle) \in Nat /\ pool.spawned <= MaxSessions
    BY <1>2, LenProperties DEF Pool, Inv, Counted
  <2>4. /\ pool'.permits + One(s \in Users') = pool.permits + One(s \in Users)
        /\ One(s \in Out') + Len(pool'.idle) + One(s \in Starting')
             <= One(s \in Out) + Len(pool.idle) + One(s \in Starting)
        /\ One(s \in Kept') + Len(pool'.idle) + One(s \in Starting') + pool.spawned
             <= One(s \in Kept) + Len(pool.idle) + One(s \in Starting) + pool'.spawned
        /\ pool'.spawned <= MaxSessions
    BY <1>1, <2>2, <2>3
  <2> QED
    BY <1>1, <1>2, <1>7, <2>4, CountsMove DEF Inv
<1> QED
  BY <1>6, <1>7, <1>8, PlacedAlone, OwnedAlone DEF Inv

\* A start that fails gives the number and the permit back, one that is cancelled the permit.
LEMMA StartEnds ==
  ASSUME Inv, NEW s \in Searches, search[s].step = "starting", held' = held,
         NEW lost \in {0, 1}, pool' = [Freed EXCEPT !.spawned = @ - lost],
         search' \in [Searches -> Searcher], search'[s].step \in {"batch", "done"},
         \A q \in Searches \ {s} : search'[q] = search[q]
  PROVE  Inv'
<1>1. pool \in Pool /\ held \in [Searches -> Session \union {None}] /\ held[s] = None
  BY DEF Inv, Placing, Typed, Placed, Before
<1>2. /\ pool.spawned \in Nat /\ pool.permits \in Nat /\ Len(pool.idle) \in Nat
      /\ pool.spawned <= MaxSessions /\ pool.spawned >= 1
  <2>1. s \in Starting
    BY DEF Starting
  <2>2. Cardinality(Starting) # 0
    <3>1. IsFiniteSet(Starting)
      BY SubsetCount DEF Starting
    <3> QED
      BY <2>1, <3>1, FS_EmptySet
  <2>3. pool.spawned \in Nat /\ pool.permits \in Nat /\ Len(pool.idle) \in Nat
    BY <1>1, LenProperties DEF Pool
  <2>4. /\ Cardinality(Kept) + Len(pool.idle) + Cardinality(Starting) <= pool.spawned
        /\ pool.spawned <= MaxSessions
    BY DEF Inv, Counted
  <2>5. pool.spawned >= 1
    BY <2>2, <2>3, <2>4, CountTypes
  <2> QED
    BY <2>3, <2>4, <2>5
<1>3. /\ pool' \in Pool /\ pool'.permits = pool.permits + 1 /\ pool'.spawned = pool.spawned - lost
      /\ pool'.idle = pool.idle
  <2>1. PICK m \in Nat, n \in Nat : m = pool.permits + 1 /\ n = pool.spawned - lost
    BY <1>2
  <2>2. pool' = [pool EXCEPT !.permits = m, !.spawned = n]
    BY <1>1, <2>1 DEF Freed, Pool
  <2> QED
    BY <1>1, <2>1, <2>2 DEF Pool
<1>4. IdleSilent'
  BY <1>3 DEF Inv, Owning, IdleSilent, Silent
<1>5. Typed' /\ Alone(s) /\ Own(s)' /\ Placed(s)'
  BY <1>1, <1>3 DEF Typed, Alone, Own, Placed, Before, Present
<1>6. Counted'
  <2>1. /\ s \in Users /\ s \notin Users' /\ s \notin Out /\ s \notin Out' /\ s \in Starting
        /\ s \notin Starting' /\ s \notin Kept /\ s \notin Kept'
    BY <1>1 DEF Users, Out, Starting, Kept, Entering
  <2>2. /\ One(s \in Users) = 1 /\ One(s \in Users') = 0 /\ One(s \in Out) = 0 /\ One(s \in Out') = 0
        /\ One(s \in Starting) = 1 /\ One(s \in Starting') = 0
        /\ One(s \in Kept) = 0 /\ One(s \in Kept') = 0
    BY <2>1 DEF One
  <2>3. /\ pool'.permits + One(s \in Users') = pool.permits + One(s \in Users)
        /\ One(s \in Out') + Len(pool'.idle) + One(s \in Starting')
             <= One(s \in Out) + Len(pool.idle) + One(s \in Starting)
    BY <1>2, <1>3, <2>2
  <2>4. One(s \in Kept') + Len(pool'.idle) + One(s \in Starting') + pool.spawned
          <= One(s \in Kept) + Len(pool.idle) + One(s \in Starting) + pool'.spawned
    BY <1>2, <1>3, <2>2
  <2>5. pool'.spawned <= MaxSessions
    BY <1>2, <1>3, Limits
  <2> QED
    BY <1>3, <1>5, <2>3, <2>4, <2>5, CountsMove DEF Inv
<1> QED
  BY <1>4, <1>5, <1>6, PlacedAlone, OwnedAlone DEF Inv

LEMMA StartFailsKeeps ==
  ASSUME Inv, NEW s \in Searches, StartFails(s)
  PROVE  Inv'
<1>1. search[s].step = "starting" /\ pool' = [Freed EXCEPT !.spawned = @ - 1] /\ held' = held
  BY DEF StartFails, At, NotSpawned
<1>2. PICK after \in {"batch", "done"} :
        search' = [search EXCEPT ![s].step = after,
                                 ![s].result = IF after = "done" THEN "raised" ELSE "none"]
  BY DEF StartFails
<1>3. search \in [Searches -> Searcher] /\ search[s] \in Searcher
  BY DEF Inv, Placing, Typed
<1>4. /\ search' \in [Searches -> Searcher] /\ search'[s].step = after
      /\ \A q \in Searches \ {s} : search'[q] = search[q]
  BY <1>2, <1>3 DEF Searcher, Steps, Results
<1> QED
  BY <1>1, <1>4, StartEnds

\* The session and the permit are given back, the number was before or is lost.
LEMMA Returns ==
  ASSUME Inv, NEW s \in Searches, search[s].step \in {"checkin", "closing"}, pool' = Freed, Take(s, None),
         search' \in [Searches -> Searcher], search'[s].step \in {"batch", "done"},
         \A q \in Searches \ {s} : search'[q] = search[q]
  PROVE  Inv'
<1>1. pool \in Pool /\ held \in [Searches -> Session \union {None}] /\ held[s] # None
  BY DEF Inv, Placing, Typed, Placed, Present
<1>2. /\ pool' \in Pool /\ pool'.permits = pool.permits + 1 /\ pool'.spawned = pool.spawned
      /\ pool'.idle = pool.idle /\ IdleSilent'
  BY <1>1 DEF Pool, Freed, Inv, Owning, IdleSilent, Silent
<1>3. /\ held'[s] = None /\ held' \in [Searches -> Session \union {None}]
      /\ \A q \in Searches \ {s} : held'[q] = held[q]
  BY <1>1 DEF Take
<1>4. Typed' /\ Alone(s) /\ Own(s)' /\ Placed(s)'
  BY <1>2, <1>3 DEF Typed, Alone, Own, Placed, Before, Present
<1>5. Counted'
  <2>1. /\ s \in Users /\ s \notin Users' /\ s \in Out /\ s \notin Out' /\ s \notin Starting
        /\ s \notin Starting' /\ s \notin Kept'
    BY <1>1, <1>3 DEF Users, Out, Starting, Kept, Entering
  <2>2. /\ One(s \in Users) = 1 /\ One(s \in Users') = 0 /\ One(s \in Out) = 1 /\ One(s \in Out') = 0
        /\ One(s \in Starting) = 0 /\ One(s \in Starting') = 0
        /\ One(s \in Kept) \in {0, 1} /\ One(s \in Kept') = 0
    BY <2>1 DEF One
  <2>3. pool.spawned \in Nat /\ pool.permits \in Nat /\ Len(pool.idle) \in Nat /\ pool.spawned <= MaxSessions
    BY <1>1, LenProperties DEF Pool, Inv, Counted
  <2>4. /\ pool'.permits + One(s \in Users') = pool.permits + One(s \in Users)
        /\ One(s \in Out') + Len(pool'.idle) + One(s \in Starting')
             <= One(s \in Out) + Len(pool.idle) + One(s \in Starting)
        /\ pool'.spawned <= MaxSessions
    BY <1>2, <2>2, <2>3
  <2>5. One(s \in Kept') + Len(pool'.idle) + One(s \in Starting') + pool.spawned
          <= One(s \in Kept) + Len(pool.idle) + One(s \in Starting) + pool'.spawned
    <3>1. PICK k \in {0, 1} : k = One(s \in Kept)
      BY <2>2
    <3>2. PICK i \in Nat : i = Len(pool.idle)
      BY <2>3
    <3>3. 0 + i + 0 + pool.spawned <= k + i + 0 + pool.spawned
      BY <2>3
    <3> QED
      BY <1>2, <2>2, <3>1, <3>2, <3>3
  <2> QED
    BY <1>2, <1>4, <2>4, <2>5, CountsMove DEF Inv
<1> QED
  BY <1>2, <1>4, <1>5, PlacedAlone, OwnedAlone DEF Inv

LEMMA ResumeMoves ==
  ASSUME Inv, NEW s \in Searches, Resume(s)
  PROVE  /\ search' \in [Searches -> Searcher] /\ search'[s].step \in {"batch", "done"}
         /\ \A q \in Searches \ {s} : search'[q] = search[q]
<1>1. search[s] \in Searcher
  BY DEF Inv, Placing, Typed
<1>2. PICK step \in {"batch", "done"} : step = search[s].after
  BY <1>1 DEF Searcher
<1>3. Go(s, step) /\ step \in Steps
  BY <1>2 DEF Resume, Steps
<1> QED
  BY <1>3, GoMoves DEF Inv

LEMMA CloseKeeps ==
  ASSUME Inv, NEW s \in Searches, Close(s)
  PROVE  Inv'
BY ResumeMoves, Returns DEF Close, At

\* The session goes on top of the idle ones, with nothing in its pipe.
LEMMA ReturnsIdle ==
  ASSUME Inv, NEW s \in Searches, search[s].step = "checkin",
         pool' = [Freed EXCEPT !.idle = Append(@, held[s]), !.deaths = 0], Take(s, None), Resume(s)
  PROVE  Inv'
<1>1. pool \in Pool /\ held \in [Searches -> Session \union {None}] /\ held[s] # None
  BY DEF Inv, Placing, Typed, Placed, Present
<1>2. held[s] \in Session /\ pool.idle \in Seq(Session)
  BY <1>1 DEF Pool
<1>3. /\ search' \in [Searches -> Searcher] /\ search'[s].step \in {"batch", "done"}
      /\ \A q \in Searches \ {s} : search'[q] = search[q]
  BY ResumeMoves
<1>4. /\ held'[s] = None /\ held' \in [Searches -> Session \union {None}]
      /\ \A q \in Searches \ {s} : held'[q] = held[q]
  BY <1>1 DEF Take
<1>5. PICK longer : longer = Append(pool.idle, held[s])
  OBVIOUS
<1>6. /\ longer \in Seq(Session) /\ Len(longer) = Len(pool.idle) + 1
      /\ \A i \in 1 .. Len(pool.idle) : longer[i] = pool.idle[i]
      /\ longer[Len(pool.idle) + 1] = held[s]
  BY <1>2, <1>5, AppendProperties
<1>7. pool' = [pool EXCEPT !.permits = @ + 1, !.idle = longer, !.deaths = 0]
  BY <1>1, <1>5 DEF Freed, Pool
<1>8. /\ pool' \in Pool /\ pool'.permits = pool.permits + 1 /\ pool'.spawned = pool.spawned
      /\ pool'.idle = longer
  <2>1. PICK zero \in 0 .. BreakerDeaths - 1 : zero = 0
    BY Limits
  <2>2. PICK m \in Nat : m = pool.permits + 1
    BY <1>1 DEF Pool
  <2>3. pool' = [pool EXCEPT !.permits = m, !.idle = longer, !.deaths = zero]
    BY <1>7, <2>1, <2>2
  <2> QED
    BY <1>1, <1>6, <2>1, <2>2, <2>3 DEF Pool
<1>9. IdleSilent'
  <2>1. ~held[s].cutOff => Silent(held[s])
    BY <1>1 DEF Inv, Owning, Own
  <2>2. DOMAIN longer = 1 .. Len(pool.idle) + 1 /\ DOMAIN pool.idle = 1 .. Len(pool.idle)
        /\ Len(pool.idle) \in Nat
    BY <1>2, <1>6, LenProperties
  <2>3. \A i \in DOMAIN longer : i = Len(pool.idle) + 1 \/ i \in DOMAIN pool.idle
    BY <2>2
  <2>4. \A i \in DOMAIN longer : ~longer[i].cutOff => Silent(longer[i])
    BY <1>6, <2>1, <2>2, <2>3 DEF Inv, Owning, IdleSilent
  <2> QED
    BY <1>8, <2>4 DEF IdleSilent, Silent
<1>10. Typed' /\ Alone(s) /\ Own(s)' /\ Placed(s)'
  BY <1>3, <1>4, <1>8 DEF Typed, Alone, Own, Placed, Before, Present
<1>11. Counted'
  <2>1. /\ s \in Users /\ s \notin Users' /\ s \in Out /\ s \notin Out' /\ s \notin Starting
        /\ s \notin Starting' /\ s \in Kept /\ s \notin Kept'
    BY <1>1, <1>3, <1>4 DEF Users, Out, Starting, Kept, Entering
  <2>2. /\ One(s \in Users) = 1 /\ One(s \in Users') = 0 /\ One(s \in Out) = 1 /\ One(s \in Out') = 0
        /\ One(s \in Starting) = 0 /\ One(s \in Starting') = 0
        /\ One(s \in Kept) = 1 /\ One(s \in Kept') = 0
    BY <2>1 DEF One
  <2>3. pool.spawned \in Nat /\ pool.permits \in Nat /\ Len(pool.idle) \in Nat /\ pool.spawned <= MaxSessions
    BY <1>1, LenProperties DEF Pool, Inv, Counted
  <2>4. /\ pool'.permits + One(s \in Users') = pool.permits + One(s \in Users)
        /\ pool'.spawned <= MaxSessions
    BY <1>8, <2>2, <2>3
  <2>5. One(s \in Out') + Len(pool'.idle) + One(s \in Starting')
          <= One(s \in Out) + Len(pool.idle) + One(s \in Starting)
    BY <1>6, <1>8, <2>2, <2>3
  <2>6. One(s \in Kept') + Len(pool'.idle) + One(s \in Starting') + pool.spawned
          <= One(s \in Kept) + Len(pool.idle) + One(s \in Starting) + pool'.spawned
    BY <1>6, <1>8, <2>2, <2>3
  <2> QED
    BY <1>8, <1>10, <2>4, <2>5, <2>6, CountsMove DEF Inv
<1> QED
  BY <1>9, <1>10, <1>11, PlacedAlone, OwnedAlone DEF Inv

\* The number goes before the process does.
LEMMA Retires ==
  ASSUME Inv, NEW s \in Searches, search[s].step = "checkin", held' = held,
         NEW deaths \in 0 .. BreakerDeaths - 1, NEW open \in BOOLEAN, Go(s, "closing"),
         pool' = [pool EXCEPT !.spawned = IF @ = 0 THEN 0 ELSE @ - 1, !.deaths = deaths, !.open = open]
  PROVE  Inv'
<1>1. pool \in Pool /\ held \in [Searches -> Session \union {None}] /\ held[s] # None
  BY DEF Inv, Placing, Typed, Placed, Present
<1>2. /\ search' \in [Searches -> Searcher] /\ search'[s].step = "closing"
      /\ search'[s].at = search[s].at /\ search'[s].frontier = search[s].frontier
      /\ \A q \in Searches \ {s} : search'[q] = search[q]
  BY GoMoves DEF Inv, Steps
<1>3. /\ pool.spawned \in Nat /\ pool.permits \in Nat /\ Len(pool.idle) \in Nat
      /\ pool.spawned <= MaxSessions /\ pool.spawned >= 1
  <2>1. s \in Kept
    BY <1>1 DEF Kept
  <2>2. Cardinality(Kept) # 0
    <3>1. IsFiniteSet(Kept)
      BY SubsetCount DEF Kept
    <3> QED
      BY <2>1, <3>1, FS_EmptySet
  <2>3. pool.spawned \in Nat /\ pool.permits \in Nat /\ Len(pool.idle) \in Nat
    BY <1>1, LenProperties DEF Pool
  <2>4. /\ Cardinality(Kept) + Len(pool.idle) + Cardinality(Starting) <= pool.spawned
        /\ pool.spawned <= MaxSessions
    BY DEF Inv, Counted
  <2>5. pool.spawned >= 1
    BY <2>2, <2>3, <2>4, CountTypes
  <2> QED
    BY <2>3, <2>4, <2>5
<1>4. /\ pool' \in Pool /\ pool'.permits = pool.permits /\ pool'.idle = pool.idle
      /\ pool'.spawned = pool.spawned - 1
  <2>1. PICK n \in Nat : n = pool.spawned - 1 /\ n = IF pool.spawned = 0 THEN 0 ELSE pool.spawned - 1
    BY <1>3
  <2>2. pool' = [pool EXCEPT !.spawned = n, !.deaths = deaths, !.open = open]
    BY <2>1
  <2> QED
    BY <1>1, <2>1, <2>2 DEF Pool
<1>5. IdleSilent'
  BY <1>4 DEF Inv, Owning, IdleSilent, Silent
<1>6. Typed' /\ Alone(s) /\ Placed(s)'
  BY <1>1, <1>2, <1>4 DEF Typed, Alone, Placed, Before, Present
<1>7. Own(s)'
  BY <1>2, OwnStays DEF Inv, Owning
<1>8. Counted'
  <2>1. /\ s \in Users /\ s \in Users' /\ s \in Out /\ s \in Out' /\ s \notin Starting
        /\ s \notin Starting' /\ s \in Kept /\ s \notin Kept'
    BY <1>1, <1>2 DEF Users, Out, Starting, Kept, Entering
  <2>2. /\ One(s \in Users) = 1 /\ One(s \in Users') = 1 /\ One(s \in Out) = 1 /\ One(s \in Out') = 1
        /\ One(s \in Starting) = 0 /\ One(s \in Starting') = 0
        /\ One(s \in Kept) = 1 /\ One(s \in Kept') = 0
    BY <2>1 DEF One
  <2>3. /\ pool'.permits + One(s \in Users') = pool.permits + One(s \in Users)
        /\ pool'.spawned <= MaxSessions
    BY <1>3, <1>4, <2>2, Limits
  <2>4. One(s \in Out') + Len(pool'.idle) + One(s \in Starting')
          <= One(s \in Out) + Len(pool.idle) + One(s \in Starting)
    BY <1>3, <1>4, <2>2
  <2>5. One(s \in Kept') + Len(pool'.idle) + One(s \in Starting') + pool.spawned
          <= One(s \in Kept) + Len(pool.idle) + One(s \in Starting) + pool'.spawned
    BY <1>3, <1>4, <2>2
  <2> QED
    BY <1>4, <1>6, <2>3, <2>4, <2>5, CountsMove DEF Inv
<1> QED
  BY <1>5, <1>6, <1>7, <1>8, PlacedAlone, OwnedAlone DEF Inv

LEMMA CheckInKeeps ==
  ASSUME Inv, NEW s \in Searches, CheckIn(s)
  PROVE  Inv'
<1> DEFINE kept == held[s].alive /\ ~ShouldRecycle(held[s])
<1>1. search[s].step = "checkin"
  BY DEF CheckIn, At
<1>2. CASE kept
  <2>1. /\ pool' = [Freed EXCEPT !.idle = Append(@, held[s]), !.deaths = 0]
        /\ Take(s, None) /\ Resume(s)
    BY <1>2 DEF CheckIn
  <2> QED
    BY <1>1, <2>1, ReturnsIdle
<1>3. CASE ~kept
  <2>1. /\ Go(s, "closing") /\ held' = held
        /\ pool' = [pool EXCEPT !.spawned = IF @ = 0 THEN 0 ELSE @ - 1,
                                !.deaths = IF held[s].alive THEN 0 ELSE Deaths,
                                !.open = @ \/ (~held[s].alive /\ Deaths = 0)]
    BY <1>3 DEF CheckIn
  <2>2. pool \in Pool
    BY DEF Inv, Placing, Typed
  <2>3. Deaths \in 0 .. BreakerDeaths - 1 /\ 0 \in 0 .. BreakerDeaths - 1
    BY <2>2, Limits DEF Deaths, Pool
  <2>4. PICK deaths \in 0 .. BreakerDeaths - 1 : deaths = IF held[s].alive THEN 0 ELSE Deaths
    BY <2>3
  <2>5. PICK open \in BOOLEAN : open = (pool.open \/ (~held[s].alive /\ Deaths = 0))
    OBVIOUS
  <2>6. pool' = [pool EXCEPT !.spawned = IF @ = 0 THEN 0 ELSE @ - 1, !.deaths = deaths, !.open = open]
    BY <2>1, <2>4, <2>5
  <2> QED
    BY <1>1, <2>1, <2>6, Retires
<1> QED
  BY <1>2, <1>3

\* No search moves and no session changes hands.
LEMMA SamePlaces ==
  ASSUME Counted, search' = search, \A s \in Searches : held'[s] = None <=> held[s] = None,
         pool'.permits = pool.permits, pool'.spawned = pool.spawned, Len(pool'.idle) = Len(pool.idle)
  PROVE  Counted'
<1>1. Users' = Users
  BY DEF Users
<1>2. Out' = Out
  BY DEF Out
<1>3. Starting' = Starting
  BY DEF Starting
<1>4. Kept' = Kept
  BY DEF Kept
<1> QED
  BY <1>1, <1>2, <1>3, <1>4 DEF Counted

LEMMA CooledDownKeeps ==
  ASSUME Inv, CooledDown
  PROVE  Inv'
<1>1. held' = held /\ search' = search /\ pool' = [pool EXCEPT !.open = FALSE] /\ pool \in Pool
  BY DEF CooledDown, Inv, Placing, Typed
<1>2. /\ pool' \in Pool /\ pool'.permits = pool.permits /\ pool'.spawned = pool.spawned
      /\ pool'.idle = pool.idle
  BY <1>1 DEF Pool
<1>3. Placing'
  BY <1>1, <1>2 DEF Inv, Placing, Typed, Placed
<1>4. Owning'
  BY <1>1, <1>2 DEF Inv, Owning, IdleSilent, Silent, Own, Reading, OwnState, Heard, Asked
<1> QED
  BY <1>1, <1>2, <1>3, <1>4, SamePlaces DEF Inv

\* The session of one search becomes another, with the search as it was.
LEMMA SessionChanges ==
  ASSUME Inv, NEW s \in Searches, held[s] # None, NEW new \in Session, Take(s, new),
         pool' = pool, search' = search, Alone(s) => Own(s)'
  PROVE  Inv'
<1>1. /\ held'[s] = new /\ new # None /\ held' \in [Searches -> Session \union {None}]
      /\ \A q \in Searches \ {s} : held'[q] = held[q]
  BY Limits DEF Inv, Placing, Typed, Take
<1>2. Typed' /\ Alone(s) /\ Placed(s)'
  BY <1>1 DEF Inv, Placing, Typed, Alone, Placed, Before, Present
<1>3. Counted'
  BY <1>1, SamePlaces DEF Inv
<1>4. IdleSilent'
  BY DEF Inv, Owning, IdleSilent, Silent
<1> QED
  BY <1>2, <1>3, <1>4, PlacedAlone, OwnedAlone DEF Inv

\* An idle session becomes another, silent if it was.
LEMMA IdleChanges ==
  ASSUME Inv, NEW i \in DOMAIN pool.idle, NEW new \in Session,
         new.cutOff = pool.idle[i].cutOff, ~new.cutOff => Silent(new),
         pool' = [pool EXCEPT !.idle[i] = new], held' = held, search' = search
  PROVE  Inv'
<1>1. pool \in Pool /\ pool.idle \in Seq(Session) /\ i \in 1 .. Len(pool.idle)
  BY LenProperties DEF Inv, Placing, Typed, Pool
<1>2. PICK idle : idle = [pool.idle EXCEPT ![i] = new]
  OBVIOUS
<1>3. /\ idle \in Seq(Session) /\ Len(idle) = Len(pool.idle) /\ DOMAIN idle = DOMAIN pool.idle
      /\ \A j \in DOMAIN idle : idle[j] = IF j = i THEN new ELSE pool.idle[j]
  BY <1>1, <1>2, ExceptSeq, LenProperties
<1>4. pool' = [pool EXCEPT !.idle = idle]
  BY <1>2
<1>5. /\ pool' \in Pool /\ pool'.permits = pool.permits /\ pool'.spawned = pool.spawned
      /\ pool'.idle = idle
  BY <1>1, <1>3, <1>4 DEF Pool
<1>6. Placing'
  BY <1>5 DEF Inv, Placing, Typed, Placed
<1>7. Counted'
  BY <1>3, <1>5, SamePlaces DEF Inv
<1>8. Owning'
  <2>1. \A j \in DOMAIN idle : ~idle[j].cutOff => Silent(idle[j])
    BY <1>3 DEF Inv, Owning, IdleSilent
  <2>2. IdleSilent'
    BY <1>5, <2>1 DEF IdleSilent, Silent
  <2>3. \A s \in Searches : Own(s)'
    BY DEF Inv, Owning, Own, Reading, Silent, OwnState, Heard, Asked
  <2> QED
    BY <2>2, <2>3 DEF Owning
<1> QED
  BY <1>6, <1>7, <1>8 DEF Inv

LEMMA ProcessAnswersKeeps ==
  ASSUME Inv, ProcessAnswers
  PROVE  Inv'
<1>1. search' = search
  BY DEF ProcessAnswers
<1>2. CASE \E s \in Searches : /\ held[s] # None
                               /\ \E session \in Served(held[s]) : Take(s, session)
                               /\ UNCHANGED pool
  <2>1. PICK s \in Searches : held[s] # None /\ pool' = pool /\ \E session \in Served(held[s]) : Take(s, session)
    BY <1>2
  <2>2. PICK new \in Served(held[s]) : Take(s, new)
    BY <2>1
  <2>3. held \in [Searches -> Session \union {None}] /\ held[s] \in Session
    BY <2>1 DEF Inv, Placing, Typed
  <2>4. new \in Session /\ new.cutOff = held[s].cutOff /\ held'[s] = new
    BY <2>2, <2>3, ServedType DEF Take
  <2>5. ASSUME Alone(s)
        PROVE  Own(s)'
    <3>1. CASE held[s].cutOff
      BY <2>4, <3>1 DEF Own
    <3>2. CASE ~held[s].cutOff
      BY <1>1, <2>1, <2>4, <2>5, <3>2, ServesItsOwn DEF Inv, Owning
    <3> QED
      BY <3>1, <3>2
  <2> QED
    BY <1>1, <2>1, <2>2, <2>4, <2>5, SessionChanges
<1>3. CASE \E i \in DOMAIN pool.idle :
             /\ \E session \in Served(pool.idle[i]) : pool' = [pool EXCEPT !.idle[i] = session]
             /\ UNCHANGED held
  <2>1. PICK i \in DOMAIN pool.idle :
          held' = held /\ \E session \in Served(pool.idle[i]) : pool' = [pool EXCEPT !.idle[i] = session]
    BY <1>3
  <2>2. PICK new \in Served(pool.idle[i]) : pool' = [pool EXCEPT !.idle[i] = new]
    BY <2>1
  <2>3. pool.idle \in Seq(Session) /\ pool.idle[i] \in Session
    BY LenProperties, ElementOfSeq DEF Inv, Placing, Typed, Pool
  <2>4. new \in Session /\ new.cutOff = pool.idle[i].cutOff /\ pool.idle[i].todo # <<>>
    BY <2>3, ServedType
  <2>5. pool.idle[i].cutOff
    <3>1. Len(pool.idle[i].todo) # 0
      BY <2>3, <2>4, EmptySeq DEF Session
    <3> QED
      BY <3>1 DEF Inv, Owning, IdleSilent, Silent
  <2> QED
    BY <1>1, <2>1, <2>2, <2>4, <2>5, IdleChanges
<1> QED
  BY <1>2, <1>3 DEF ProcessAnswers

LEMMA ProcessDiesKeeps ==
  ASSUME Inv, ProcessDies
  PROVE  Inv'
<1>1. search' = search
  BY DEF ProcessDies
<1>2. CASE \E s \in Searches : /\ held[s] # None /\ held[s].alive
                               /\ Take(s, [held[s] EXCEPT !.alive = FALSE])
                               /\ UNCHANGED pool
  <2>1. PICK s \in Searches : held[s] # None /\ pool' = pool /\ Take(s, [held[s] EXCEPT !.alive = FALSE])
    BY <1>2
  <2>2. held \in [Searches -> Session \union {None}] /\ held[s] \in Session
    BY <2>1 DEF Inv, Placing, Typed
  <2>3. PICK new : new = [held[s] EXCEPT !.alive = FALSE]
    OBVIOUS
  <2>4. /\ new \in Session /\ new.cutOff = held[s].cutOff /\ new.todo = held[s].todo
        /\ new.out = held[s].out /\ new.states = held[s].states
    BY <2>2, <2>3 DEF Session
  <2>5. held'[s] = new
    BY <2>1, <2>2, <2>3 DEF Take
  <2>6. Own(s)'
    BY <1>1, <2>1, <2>4, <2>5 DEF Inv, Owning, Own, Reading, Silent, OwnState, Heard, Asked
  <2> QED
    BY <1>1, <2>1, <2>3, <2>4, <2>6, SessionChanges
<1>3. CASE \E i \in DOMAIN pool.idle : /\ pool.idle[i].alive
                                       /\ pool' = [pool EXCEPT !.idle[i].alive = FALSE]
                                       /\ UNCHANGED held
  <2>1. PICK i \in DOMAIN pool.idle : held' = held /\ pool' = [pool EXCEPT !.idle[i].alive = FALSE]
    BY <1>3
  <2>2. pool.idle \in Seq(Session) /\ pool.idle[i] \in Session
    BY LenProperties, ElementOfSeq DEF Inv, Placing, Typed, Pool
  <2>3. PICK new : new = [pool.idle[i] EXCEPT !.alive = FALSE]
    OBVIOUS
  <2>4. /\ new \in Session /\ new.cutOff = pool.idle[i].cutOff /\ new.todo = pool.idle[i].todo
        /\ new.out = pool.idle[i].out
    BY <2>2, <2>3 DEF Session
  <2>5. pool' = [pool EXCEPT !.idle[i] = new]
    BY <2>1, <2>3
  <2>6. ~new.cutOff => Silent(new)
    BY <2>4 DEF Inv, Owning, IdleSilent, Silent
  <2> QED
    BY <1>1, <2>1, <2>4, <2>5, <2>6, IdleChanges
<1> QED
  BY <1>2, <1>3 DEF ProcessDies

\* A search that is cancelled while it reads leaves its session cut off.
LEMMA CancelKeeps ==
  ASSUME Inv, NEW s \in Searches, Cancel(s)
  PROVE  Inv'
<1>1. /\ search \in [Searches -> Searcher] /\ search[s] \in Searcher
      /\ held \in [Searches -> Session \union {None}] /\ pool \in Pool
  BY DEF Inv, Placing, Typed
<1> DEFINE where == IF held[s] # None /\ search[s].step \notin {"checkin", "closing"}
                    THEN "checkin" ELSE "done"
<1>2. /\ search' \in [Searches -> Searcher] /\ search'[s].step = where
      /\ search'[s].at = search[s].at /\ search'[s].frontier = search[s].frontier
      /\ \A q \in Searches \ {s} : search'[q] = search[q]
  <2>1. search' = [search EXCEPT ![s].step = where, ![s].after = "done", ![s].result = "timeout"]
    BY DEF Cancel
  <2>2. where \in Steps
    BY DEF Steps
  <2> HIDE DEF where
  <2> QED
    BY <1>1, <2>1, <2>2 DEF Searcher, Results
<1>3. Placed(s)
  BY DEF Inv, Placing
<1>4. CASE search[s].step = "waiting" /\ pool' = pool /\ held' = held
  <2>1. held[s] = None /\ search'[s].step = "done"
    BY <1>2, <1>3, <1>4 DEF Placed, Before
  <2>2. Own(s)' /\ Placed(s)' /\ Alone(s)
    BY <1>2, <1>4, <2>1 DEF Own, Placed, Before, Present, Alone
  <2> QED
    BY <1>1, <1>2, <1>4, <2>1, <2>2, Inward DEF Away
<1>5. CASE search[s].step \in {"checkout", "recheck"} /\ pool' = Freed /\ held' = held
  <2>1. search'[s].step = "done" /\ search[s].step \in Entering
    BY <1>2, <1>3, <1>5 DEF Placed, Before, Entering
  <2> QED
    BY <1>2, <1>5, <2>1, GivesUp
<1>6. CASE search[s].step = "starting" /\ pool' = Freed /\ held' = held
  <2>1. search'[s].step = "done"
    BY <1>2, <1>3, <1>6 DEF Placed, Before
  <2>2. pool' = [Freed EXCEPT !.spawned = @ - 0]
    <3>1. PICK freed : freed = Freed
      OBVIOUS
    <3>2. freed \in Pool
      BY <1>1, <3>1 DEF Freed, Pool
    <3>3. freed.spawned - 0 = freed.spawned
      BY <3>2 DEF Pool
    <3>4. [freed EXCEPT !.spawned = freed.spawned] = freed
      BY <3>2 DEF Pool
    <3> QED
      BY <1>6, <3>1, <3>3, <3>4
  <2> QED
    BY <1>2, <1>6, <2>1, <2>2, StartEnds
<1>7. CASE search[s].step \in {"asking", "choosing", "checking", "batch"} /\ pool' = pool /\ held' = held
  <2>1. search'[s].step = IF held[s] = None THEN "done" ELSE "checkin"
    BY <1>2, <1>7
  <2> QED
    BY <1>2, <1>7, <2>1, QuietKeeps
<1>8. CASE search[s].step = "reading" /\ Take(s, [held[s] EXCEPT !.cutOff = TRUE]) /\ pool' = pool
  <2>1. held[s] # None /\ search'[s].step = "checkin"
    BY <1>2, <1>3, <1>8 DEF Placed, Present
  <2>2. PICK new : new = [held[s] EXCEPT !.cutOff = TRUE]
    OBVIOUS
  <2>3. new \in Session /\ new.cutOff
    BY <1>1, <2>1, <2>2 DEF Session
  <2>4. /\ held'[s] = new /\ new # None /\ held' \in [Searches -> Session \union {None}]
        /\ \A q \in Searches \ {s} : held'[q] = held[q]
    BY <1>1, <1>8, <2>2, <2>3, Limits DEF Take
  <2>5. Own(s)' /\ Placed(s)' /\ Alone(s)
    BY <1>2, <2>1, <2>3, <2>4 DEF Own, Placed, Before, Present, Alone
  <2> QED
    BY <1>2, <1>8, <2>1, <2>4, <2>5, Inward DEF Away
<1>9. CASE search[s].step \in {"checkin", "closing"} /\ pool' = Freed /\ Take(s, None)
  <2>1. search'[s].step = "done"
    BY <1>2, <1>9
  <2> QED
    BY <1>2, <1>9, <2>1, Returns
<1> QED
  BY <1>4, <1>5, <1>6, <1>7, <1>8, <1>9 DEF Cancel, At

-----------------------------------------------------------------------------
(* The theorems *)

LEMMA Starts == Init => Inv
<1> SUFFICES ASSUME Init PROVE Inv
  OBVIOUS
<1>1. /\ \A s \in Searches : search[s] = Idle /\ held[s] = None
      /\ held \in [Searches -> Session \union {None}]
  BY DEF Init
<1>2. pool.permits = MaxSessions /\ pool.idle = <<>> /\ pool.spawned = 0 /\ pool \in Pool
  <2>1. <<>> \in Seq(Session)
    BY EmptySeq
  <2>2. 0 \in 0 .. BreakerDeaths - 1 /\ MaxSessions \in Nat
    BY Limits
  <2> QED
    BY <2>1, <2>2 DEF Init, Pool
<1>3. Idle \in Searcher /\ Idle.step = "idle" /\ Idle.frontier = {} /\ Idle.at = 0
  BY Limits DEF Idle, Searcher, Steps, Results
<1>4. search \in [Searches -> Searcher]
  BY <1>3 DEF Init
<1>5. Placing
  BY <1>1, <1>2, <1>3, <1>4 DEF Placing, Typed, Placed, Before, Present
<1>6. Counted
  <2>1. Users = {} /\ Out = {} /\ Starting = {} /\ Kept = {}
    BY <1>1, <1>3 DEF Users, Out, Starting, Kept, Entering
  <2>2. Cardinality(Users) = 0 /\ Cardinality(Out) = 0 /\ Cardinality(Starting) = 0 /\ Cardinality(Kept) = 0
    BY <2>1, FS_EmptySet
  <2>3. Len(pool.idle) = 0
    BY <1>2, EmptySeq
  <2> QED
    BY <1>2, <2>2, <2>3, Limits DEF Counted
<1>7. Owning
  <2>1. IdleSilent
    BY <1>2 DEF IdleSilent
  <2> QED
    BY <1>1, <2>1 DEF Owning, Own
<1> QED
  BY <1>5, <1>6, <1>7 DEF Inv

LEMMA Continues == Inv /\ [Next]_vars => Inv'
<1> SUFFICES ASSUME Inv, [Next]_vars PROVE Inv'
  OBVIOUS
<1>1. ASSUME NEW s \in Searches, Begin(s)
      PROVE  Inv'
  BY <1>1, BeginKeeps
<1>2. ASSUME NEW s \in Searches, Pooling(s)
      PROVE  Inv'
  BY <1>2, AcquireKeeps, CheckOutKeeps, RecheckKeeps, StartedKeeps, StartFailsKeeps, CheckInKeeps,
     CloseKeeps DEF Pooling
<1>3. ASSUME NEW s \in Searches, Searching(s)
      PROVE  Inv'
  BY <1>3, AskKeeps, NoAnswerKeeps, BlockedKeeps, OpensKeeps, TriedKeeps, PopKeeps, TryKeeps,
     ExhaustedKeeps, CheckProofKeeps, SearchBatchKeeps DEF Searching
<1>4. ASSUME NEW s \in Searches, Cancel(s)
      PROVE  Inv'
  BY <1>4, CancelKeeps
<1>5. CASE ProcessAnswers
  BY <1>5, ProcessAnswersKeeps
<1>6. CASE ProcessDies
  BY <1>6, ProcessDiesKeeps
<1>7. CASE CooledDown
  BY <1>7, CooledDownKeeps
<1>8. CASE UNCHANGED vars
  BY <1>8 DEF vars, Inv, Placing, Typed, Placed, Counted, Users, Out, Starting, Kept, Owning, IdleSilent,
     Silent, Own, Reading, OwnState, Heard, Asked
<1> QED
  BY <1>1, <1>2, <1>3, <1>4, <1>5, <1>6, <1>7, <1>8 DEF Next, Step

\* The inductive invariant of the pool and of the searches.
THEOREM Invariant == Spec => []Inv
<1> QED
  BY Starts, Continues, PTL DEF Spec

\* The pool, the sessions and the searches keep their types, and the counts their limits.
THEOREM TypesHold == Spec => []TypeOK
<1>1. Inv => TypeOK
  <2> SUFFICES ASSUME Inv PROVE TypeOK
    OBVIOUS
  <2>1. pool \in Pool /\ held \in [Searches -> Session \union {None}] /\ search \in [Searches -> Searcher]
    BY DEF Inv, Placing, Typed
  <2>2. pool.permits \in 0 .. MaxSessions /\ pool.spawned \in 0 .. MaxSessions
    BY <2>1, CountTypes, Limits DEF Inv, Counted, Pool
  <2>3. pool \in [permits : 0..MaxSessions, idle : Seq(Session), spawned : 0..MaxSessions,
                  deaths : 0..BreakerDeaths - 1, open : BOOLEAN]
    BY <2>1, <2>2 DEF Pool
  <2>4. \A s \in Searches : search[s].step \in Steps
    BY <2>1 DEF Searcher
  <2> QED
    BY <2>1, <2>3, <2>4 DEF TypeOK
<1> QED
  BY <1>1, Invariant, PTL

\* The pool never runs more REPL processes than repl_max_sessions, whatever is being closed or
\* started and however many starts were cancelled.
THEOREM ProcessesLimited == Spec => []ProcessesWithinLimit
<1>1. Inv => ProcessesWithinLimit
  <2> SUFFICES ASSUME Inv PROVE Processes <= MaxSessions
    BY DEF ProcessesWithinLimit
  <2> DEFINE Running == {s \in Out : held[s].alive}
  <2>1. Running \subseteq Out /\ IsFiniteSet(Out)
    BY SubsetCount DEF Out
  <2>2. Cardinality(Running) <= Cardinality(Out) /\ Cardinality(Running) \in Nat
    <3> HIDE DEF Running
    <3> QED
      BY <2>1, FS_Subset, FS_CardinalityType
  <2>3. Len(pool.idle) \in Nat /\ DOMAIN pool.idle = 1 .. Len(pool.idle)
    BY LenProperties DEF Inv, Placing, Typed, Pool
  <2>4. Cardinality(Alive) <= Len(pool.idle) /\ Cardinality(Alive) \in Nat
    <3>1. Alive \subseteq 1 .. Len(pool.idle)
      BY <2>3 DEF Alive
    <3>2. IsFiniteSet(1 .. Len(pool.idle)) /\ Cardinality(1 .. Len(pool.idle)) = Len(pool.idle)
      BY <2>3, FS_Interval
    <3> QED
      BY <3>1, <3>2, FS_Subset, FS_CardinalityType
  <2>5. {s \in Searches : At(s, "starting")} = Starting
    BY DEF Starting, At
  <2>6. Processes = Cardinality(Running) + Cardinality(Alive) + Cardinality(Starting)
    BY <2>5 DEF Processes
  <2>7. Cardinality(Out) + Len(pool.idle) + Cardinality(Starting) <= MaxSessions
    BY DEF Inv, Counted
  <2> HIDE DEF Running
  <2> QED
    BY <2>2, <2>3, <2>4, <2>6, <2>7, CountTypes, Limits
<1> QED
  BY <1>1, Invariant, PTL

\* A search reads the answers to its own requests and knows no state of another theorem, in a
\* process that no cancelled search left an answer in.
THEOREM AnswersOwn == Spec => []AnswersAreOwn
<1>1. Inv => AnswersAreOwn
  <2> SUFFICES ASSUME Inv, NEW s \in Out, ~held[s].cutOff
               PROVE  /\ (At(s, "reading") /\ held[s].out # <<>>) => Heard(s).to = Asked(s)
                      /\ \A id \in search[s].frontier \union {search[s].at} :
                           id \in DOMAIN held[s].states => held[s].states[id] = s
    BY DEF AnswersAreOwn
  <2>1. s \in Searches /\ held[s] # None
    BY DEF Out
  <2>2. Own(s) /\ held[s] \in Session
    BY <2>1 DEF Inv, Owning, Placing, Typed
  <2>3. held[s].out # <<>> => Len(held[s].out) # 0
    BY <2>2, EmptySeq DEF Session
  <2>4. (At(s, "reading") /\ held[s].out # <<>>) => Heard(s).to = Asked(s)
    BY <2>1, <2>2, <2>3 DEF Own, Reading, At
  <2> QED
    BY <2>1, <2>2, <2>4 DEF Own, OwnState
<1> QED
  BY <1>1, Invariant, PTL
=============================================================================
