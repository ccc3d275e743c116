------------------------- MODULE ProjectStoreProofs -------------------------
(***************************************************************************)
(* Theorems about ProjectStore, for any sessions, requests, solves, items, *)
(* kinds of cut and bounds.                                                *)
(*                                                                         *)
(* While no record shares a line with a cut one, the checkpoint log is one *)
(* cell per session (Cells) that only the operation under way changes.  An *)
(* index that this operation has checked holds the cells of the server's   *)
(* own sessions although other processes append meanwhile (Follows), so a  *)
(* claim is decided on what is stored (InFlight) and a granted request     *)
(* stays claimed wherever it is stored (Claims).                           *)
(*                                                                         *)
(* The index of the events is a replay of the log, line by line, and so is *)
(* the index of a log with one more line when the write that is committed  *)
(* was the last one (EventsFollow).  A solve's rows change by its own      *)
(* operations only, of which one at a time is awaited (Awaits, TurnInv).   *)
(***************************************************************************)
EXTENDS ProjectStore, FiniteSetTheorems, WellFoundedInduction, TLAPS

All == Sessions \union Foreign
Sig == [inode : Nat, size : Nat]
Cut == {"no", "text", "newline"}
Ckpt == "checkpoints"
Inode(l) == IF l = Ckpt THEN inode ELSE 0

-----------------------------------------------------------------------------
(* The invariant *)

\* What an operation is, step by step.
OpOK ==
  /\ op.step \in {"none", "stat", "load", "ready", "written", "compact", "restat", "done"}
  /\ op.step = "none" => op = Idle
  /\ op.step # "none" =>
       /\ DOMAIN op = {"step", "call", "log", "data", "at"}
       /\ op.log \in Logs /\ op.call \in {"claim", "read", "write", "grant", "append"}
       /\ op.call \in {"claim", "read"} => op.step \in {"stat", "load", "ready"}
       /\ op.call \in {"claim", "write", "grant"} =>
            op.log = Ckpt /\ op.data \in Record /\ op.data.session \in Sessions
       /\ op.call = "grant" => op.data.request \in Requests /\ op.data.claimed
       /\ op.call = "append" => op.log = "events" /\ op.data \in Event
       /\ op.step = "load" => op.at \in Sig
       /\ op.step \in {"compact", "restat"} => op.log = Ckpt

FilesOK ==
  /\ DOMAIN file = Logs
  /\ file["checkpoints"] \in Seq([data : Record, cut : Cut])
  /\ file["events"] \in Seq([data : Event, cut : Cut])

IndexOK ==
  /\ DOMAIN index = All /\ index = [s \in All |-> index[s]]
  /\ \A s \in All : index[s] # None => index[s] \in Record /\ index[s].session = s
  /\ IsFiniteSet(Live)

CountersOK ==
  /\ inode \in Nat /\ writes \in Nat /\ glued \in BOOLEAN /\ raced \in BOOLEAN
  /\ raised \subseteq Requests /\ granted \in [Requests -> Nat]

\* A signature never stands for more than its file holds.
SigOK(l) == sig[l] # None => /\ sig[l] \in Sig /\ sig[l].inode <= Inode(l)
                             /\ sig[l].inode = Inode(l) => sig[l].size <= Len(file[l])
SigsOK ==
  /\ DOMAIN sig = Logs /\ \A l \in Logs : SigOK(l)
  /\ op.step = "load" => op.at.inode = Inode(op.log) /\ op.at.size <= Len(file[op.log])
  /\ op.step \in {"ready", "written"} => sig[op.log] # None /\ sig[op.log].inode = Inode(op.log)
  /\ op.step = "written" => sig[op.log].size < Len(file[op.log])
  /\ op.step \in {"compact", "restat"} => sig[Ckpt] # None
  /\ op.step = "restat" => sig[Ckpt].inode < inode

\* A chunk fits its log.
Fits(l, c) == c \in [data : IF l = Ckpt THEN Record ELSE Event, cut : Cut]

Types == OpOK /\ FilesOK /\ IndexOK /\ CountersOK /\ SigsOK

\* Only the last line of a log may be cut.
Straight(f) == \A i \in 1..(Len(f) - 1) : f[i].cut = "no"

Cells == CheckpointsOf(file["checkpoints"])
Holds(c, S) == \A s \in S : c[s] = Cells[s]
Written(c) == [s \in All |-> IF s = op.data.session THEN op.data ELSE c[s]]

\* The index of the checkpoints follows the cells.
Follows ==
  /\ op.step \in {"ready", "compact", "restat", "done"} /\ op.log = Ckpt => Holds(index, Sessions)
  /\ op.step = "written" /\ op.log = Ckpt =>
       /\ Holds(Written(index), Sessions)
       /\ ~raced /\ sig[Ckpt].size + 1 = Len(file[Ckpt]) => Holds(Written(index), All)
  /\ op.step = "restat" /\ ~raced => Holds(index, All)
  /\ Trusted(Ckpt) /\ ~(op.step = "written" /\ op.log = Ckpt) =>
       Holds(index, Sessions) /\ (~raced => Holds(index, All))

\* A record whose request no cell holds and no run used before.
Fresh(d) == /\ ~d.claimed
            /\ d.request # None =>
                 /\ d.request \in raised /\ granted[d.request] = 0
                 /\ \A s \in Sessions : Cells[s] # None => Cells[s].request # d.request
Advances(c, d) == c # None /\ d = [c EXCEPT !.goal = TRUE]
Takes(c, d) == c # None /\ ~c.claimed /\ d = [c EXCEPT !.claimed = TRUE]

\* What a write in flight does to the cell of its session.
InFlight ==
  /\ op.step \in {"stat", "load", "ready"} /\ op.call = "write" =>
       Fresh(op.data) \/ Advances(Cells[op.data.session], op.data)
  /\ op.step \in {"stat", "load", "ready"} /\ op.call = "grant" =>
       Takes(Cells[op.data.session], op.data)
  /\ op.step \notin {"none", "stat", "load", "ready"} /\ op.call \in {"write", "grant"} =>
       Cells[op.data.session] = op.data
  /\ op.step # "none" /\ op.call = "grant" => granted[op.data.request] = 0

\* A request is in one cell, and claimed there once it was granted.
Claims ==
  /\ \A s \in Sessions : Cells[s] # None /\ Cells[s].request # None => Cells[s].request \in raised
  /\ \A s, t \in Sessions :
       (/\ Cells[s] # None /\ Cells[t] # None
        /\ Cells[s].request = Cells[t].request /\ Cells[s].request # None) => s = t
  /\ \A r \in Requests : granted[r] # 0 =>
       /\ granted[r] = 1 /\ r \in raised
       /\ \A s \in Sessions : Cells[s] # None /\ Cells[s].request = r => Cells[s].claimed

CheckpointInv ==
  ~glued => Straight(file["checkpoints"]) /\ Follows /\ InFlight /\ Claims

-----------------------------------------------------------------------------
(* The invariant of the event log *)

Replay == EventsOf(file["events"])

\* The index of the project follows the log.
EventsFollow ==
  /\ op.step = "written" /\ op.log = "events" /\ sig["events"].size + 1 = Len(file["events"]) =>
       Apply(state, op.data) = Replay
  /\ Trusted("events") /\ ~(op.step = "written" /\ op.log = "events") => state = Replay

EventInv == ~glued => Straight(file["events"]) /\ EventsFollow

RowsOf(T, s) == {t \in T : t.solve = s}
Turns(s) == RowsOf(Replay.turns, s)
TurnRow(s, x, a) == [solve |-> s, extra |-> x, answered |-> a]
Phases == {"none", "opening", "open", "updating", "updated", "looking", "missing", "adding",
           "kept", "failed"}
Early == op.step \in {"stat", "load", "ready"}

\* Which operation a solve waits for.
Awaits ==
  /\ solve \in [Solves -> Phases]
  /\ \A s \in Solves :
       /\ solve[s] \in {"opening", "updating", "adding"} => op.step # "none" /\ op.call = "append"
       /\ solve[s] = "opening" => op.data = [type |-> "turn", solve |-> s, answered |-> FALSE]
       /\ solve[s] = "updating" => op.data = [type |-> "turn_updated", solve |-> s]
       /\ solve[s] = "looking" => /\ op.step # "none" /\ op.call = "read"
                                  /\ op.log = "events" /\ op.data = s
       /\ solve[s] = "adding" => op.data = [type |-> "turn", solve |-> s, answered |-> TRUE]
  /\ op.step # "none" /\ op.call = "append" =>
       /\ op.data.type = "turn" => op.data.solve \in Solves /\ solve[op.data.solve] =
                                     IF op.data.answered THEN "adding" ELSE "opening"
       /\ op.data.type = "turn_updated" => op.data.solve \in Solves /\ solve[op.data.solve] = "updating"

IsDeleted(s) ==
  LET log == file["events"] IN
  \E d \in Readable(log) :
    /\ log[d].data.type = "conversation_deleted"
    /\ \A i \in Readable(log) : (/\ log[i].data.type \in {"turn", "turn_updated"}
                                 /\ log[i].data.solve = s) => i < d

TurnsFit(s) ==
  LET open == {TurnRow(s, FALSE, FALSE)}
      closed == {TurnRow(s, FALSE, TRUE)}
      extra == TurnRow(s, TRUE, TRUE)
      early == Early /\ ~Glues("events")
      rest == ~Glues("events")
  IN /\ solve[s] = "none" /\ rest => Turns(s) = {}
     /\ solve[s] = "opening" /\ early => Turns(s) = {}
     /\ solve[s] = "opening" /\ ~Early => Turns(s) \subseteq open
     /\ solve[s] = "open" => Turns(s) \subseteq open
     /\ solve[s] = "updating" /\ Early => Turns(s) \subseteq open
     /\ solve[s] = "updating" /\ ~Early => Turns(s) \subseteq closed
     /\ solve[s] \in {"updated", "looking"} => Turns(s) \subseteq closed
     /\ solve[s] = "missing" /\ rest => Turns(s) \subseteq open
     /\ solve[s] = "adding" /\ early => Turns(s) \subseteq open
     /\ solve[s] = "adding" /\ ~Early => extra \in Turns(s) /\ Turns(s) \subseteq open \union {extra}
     /\ solve[s] = "kept" => (\E t \in Turns(s) : /\ t.answered
                                                 /\ \A u \in Turns(s) : u.answered => u = t)
                             \/ IsDeleted(s)

Row == [solve : Solves, extra : BOOLEAN, answered : BOOLEAN]
ReplayOK == DOMAIN Replay = DOMAIN NoProject /\ Replay.turns \subseteq Row
Seen == op.step = "ready" /\ op.log = "events" => state.turns = Replay.turns
Kept == ReplayOK /\ Seen /\ \A s \in Solves : TurnsFit(s)
TurnInv == ~glued => Kept

-----------------------------------------------------------------------------
(* Positions of a log *)

\* Induction over the naturals, by way of the finite intervals from 0.
LEMMA LeastExists ==
  ASSUME NEW T, T \subseteq Nat, T # {}
  PROVE  \E m \in T : \A n \in T : m <= n
<1> DEFINE F == {0 .. n : n \in T}
           R == StrictSubsetOrdering(Nat)
<1>1. F \subseteq FiniteSubsetsOf(Nat)
  <2>1. \A n \in T : 0 .. n \subseteq Nat /\ IsFiniteSet(0 .. n)
    BY FS_Interval
  <2> QED
    BY <2>1 DEF FiniteSubsetsOf
<1>2. PICK x \in F : \A y \in F : ~ (<<y, x>> \in R)
  <2>1. IsWellFoundedOn(R, FiniteSubsetsOf(Nat))
    BY FS_StrictSubsetOrderingWellFounded
  <2>2. F # {}
    OBVIOUS
  <2> HIDE DEF F, R
  <2> QED
    BY <1>1, <2>1, <2>2, WFMin
<1>3. PICK m \in T : x = 0 .. m
  OBVIOUS
<1>4. ASSUME NEW n \in T, n < m
      PROVE  FALSE
  <2>1. 0 .. n \subseteq 0 .. m /\ m \in 0 .. m /\ m \notin 0 .. n
    BY <1>4
  <2>2. <<0 .. n, x>> \in R
    BY <1>3, <2>1 DEF StrictSubsetOrdering
  <2> QED
    BY <1>2, <2>2
<1> QED
  BY <1>3, <1>4

LEMMA GreatestExists ==
  ASSUME NEW n \in Nat, NEW T, T \subseteq 1 .. n, T # {}
  PROVE  \E m \in T : \A k \in T : k <= m
<1> DEFINE U == {n - k : k \in T}
<1>1. U \subseteq Nat /\ U # {}
  <2>1. \A k \in T : n - k \in Nat
    OBVIOUS
  <2> QED
    BY <2>1
<1>2. PICK u \in U : \A v \in U : u <= v
  <2> HIDE DEF U
  <2> QED
    BY <1>1, LeastExists
<1>3. PICK m \in T : u = n - m
  OBVIOUS
<1>4. \A k \in T : n - k \in U
  OBVIOUS
<1> HIDE DEF U
<1> QED
  BY <1>2, <1>3, <1>4

WholeLines(f) == \A i \in 1 .. Len(f) : f[i].cut = "no"

\* A log whose lines are all whole can be read everywhere, and so can what is appended to
\* it, unless only some of its text is written.
LEMMA ReadableWhole ==
  ASSUME NEW X, NEW f \in Seq(X), WholeLines(f)
  PROVE  Readable(f) = 1 .. Len(f)
BY DEF Readable, WholeLines

LEMMA ReadableAppend ==
  ASSUME NEW X, NEW f \in Seq(X), WholeLines(f), NEW c \in X
  PROVE  /\ c.cut \in {"no", "newline"} => Readable(Append(f, c)) = 1 .. (Len(f) + 1)
         /\ c.cut = "text" => Readable(Append(f, c)) = 1 .. Len(f)
         /\ Len(Append(f, c)) = Len(f) + 1 /\ Append(f, c)[Len(f) + 1] = c
         /\ \A i \in 1 .. Len(f) : Append(f, c)[i] = f[i]
<1> PICK g : g = Append(f, c)
  OBVIOUS
<1>1. /\ g \in Seq(X) /\ Len(g) = Len(f) + 1 /\ g[Len(f) + 1] = c
      /\ \A i \in 1 .. Len(f) : g[i] = f[i]
      /\ DOMAIN g = 1 .. (Len(f) + 1) /\ Len(f) \in Nat
  OBVIOUS
<1>2. \A i \in 1 .. (Len(f) + 1) : i > 1 => g[i - 1].cut = "no"
  BY <1>1 DEF WholeLines
<1>3. \A i \in 1 .. (Len(f) + 1) :
        i \in Readable(g) <=> g[i].cut = "no" \/ (g[i].cut = "newline" /\ i = Len(f) + 1)
  BY <1>1, <1>2 DEF Readable
<1>4. Readable(g) \subseteq 1 .. (Len(f) + 1)
  BY <1>1 DEF Readable
<1>5. Len(f) + 1 \in Readable(g) <=> c.cut \in {"no", "newline"}
  BY <1>1, <1>3
<1>6. \A i \in 1 .. Len(f) : i \in Readable(g)
  BY <1>1, <1>3 DEF WholeLines
<1>7. 1 .. (Len(f) + 1) = (1 .. Len(f)) \union {Len(f) + 1}
  BY <1>1
<1>8. Len(f) + 1 \notin 1 .. Len(f)
  BY <1>1
<1>9. c.cut \in {"no", "newline"} => Readable(g) = 1 .. (Len(f) + 1)
  BY <1>4, <1>5, <1>6, <1>7
<1>10. c.cut = "text" => Readable(g) = 1 .. Len(f)
  <2>1. c.cut = "text" => Len(f) + 1 \notin Readable(g)
    BY <1>5
  <2> QED
    BY <1>4, <1>6, <1>7, <2>1
<1> QED
  BY <1>1, <1>9, <1>10

\* What is stored for a session is its last record.
LEMMA StoredIs ==
  ASSUME NEW f, NEW s, NEW i \in Readable(f), Readable(f) \subseteq Int, f[i].data.session = s,
         \A j \in Readable(f) : j > i => f[j].data.session # s
  PROVE  Stored(f, s) = f[i].data
<1>1. Latest(f, s) = {i}
  BY DEF Latest
<1> QED
  BY <1>1 DEF Stored

LEMMA StoredNone ==
  ASSUME NEW f, NEW s, \A j \in Readable(f) : f[j].data.session # s
  PROVE  Stored(f, s) = None
BY DEF Stored, Latest

LEMMA StoredSession ==
  ASSUME NEW f, NEW s, Stored(f, s) # None
  PROVE  \E i \in Readable(f) : Stored(f, s) = f[i].data /\ f[i].data.session = s
BY DEF Stored, Latest

LEMMA StoredAppend ==
  ASSUME NEW X, NEW f \in Seq(X), WholeLines(f), NEW c \in X, NEW s
  PROVE  /\ c.cut \in {"no", "newline"} =>
              Stored(Append(f, c), s) = IF c.data.session = s THEN c.data ELSE Stored(f, s)
         /\ c.cut = "text" => Stored(Append(f, c), s) = Stored(f, s)
<1> PICK g : g = Append(f, c)
  OBVIOUS
<1>1. /\ Readable(f) = 1 .. Len(f) /\ Len(f) \in Nat
      /\ g[Len(f) + 1] = c /\ \A i \in 1 .. Len(f) : g[i] = f[i]
      /\ c.cut \in {"no", "newline"} => Readable(g) = 1 .. (Len(f) + 1)
      /\ c.cut = "text" => Readable(g) = 1 .. Len(f)
  BY ReadableWhole, ReadableAppend
<1>2. ASSUME Latest(g, s) = Latest(f, s)
      PROVE  Stored(g, s) = Stored(f, s)
  <2>1. Latest(f, s) \subseteq 1 .. Len(f)
    BY <1>1 DEF Latest
  <2>2. ASSUME Latest(f, s) # {}
        PROVE  Stored(g, s) = Stored(f, s)
    <3>1. PICK i : i = CHOOSE k \in Latest(f, s) : TRUE
      OBVIOUS
    <3>2. i \in Latest(f, s)
      BY <2>2, <3>1
    <3>3. Stored(f, s) = f[i].data /\ Stored(g, s) = g[i].data
      BY <1>2, <2>2, <3>1 DEF Stored
    <3> QED
      BY <1>1, <2>1, <3>2, <3>3
  <2> QED
    BY <1>2, <2>2 DEF Stored
<1>3. CASE c.cut \in {"no", "newline"} /\ c.data.session = s
  <2>1. /\ Len(f) + 1 \in Readable(g) /\ Readable(g) \subseteq Int
        /\ g[Len(f) + 1].data.session = s
        /\ \A j \in Readable(g) : ~ (j > Len(f) + 1)
    BY <1>1, <1>3
  <2>2. Stored(g, s) = g[Len(f) + 1].data
    BY <2>1, StoredIs
  <2> QED
    BY <1>1, <1>3, <2>2
<1>4. CASE c.cut \in {"no", "newline"} /\ c.data.session # s
  BY <1>1, <1>2, <1>4 DEF Latest
<1>5. CASE c.cut = "text"
  BY <1>1, <1>2, <1>5 DEF Latest
<1> QED
  BY <1>3, <1>4, <1>5

\* A log of the live records, in any order and number, stores the live records.
Lists(f, n, c) == /\ \A t \in All : c[t] # None => c[t].session = t
                  /\ \A i \in 1 .. n : f[i].cut = "no"
                  /\ {f[i].data : i \in 1 .. n} = {c[t] : t \in All} \ {None}
LEMMA StoredRewrite ==
  ASSUME NEW n \in Nat, NEW f, DOMAIN f = 1 .. n, Len(f) = n, NEW c, Lists(f, n, c),
         NEW s \in All
  PROVE  Stored(f, s) = c[s]
<1>6. /\ \A t \in All : c[t] # None => c[t].session = t
      /\ \A i \in 1 .. n : f[i].cut = "no"
      /\ {f[i].data : i \in 1 .. n} = {c[t] : t \in All} \ {None}
  BY DEF Lists
<1>1. Readable(f) = 1 .. n
  BY <1>6 DEF Readable
<1>2. \A i \in 1 .. n : \E t \in All : f[i].data = c[t] /\ c[t] # None
  <2>1. \A i \in 1 .. n : f[i].data \in {c[t] : t \in All} \ {None}
    BY <1>6
  <2> QED
    BY <2>1
<1>3. \A i \in 1 .. n : f[i].data.session = s => f[i].data = c[s]
  BY <1>2, <1>6
<1>4. CASE c[s] = None
  <2>1. \A i \in 1 .. n : f[i].data.session # s
    BY <1>2, <1>3, <1>4
  <2> QED
    BY <1>1, <1>4, <2>1, StoredNone
<1>5. CASE c[s] # None
  <2> DEFINE T == {i \in 1 .. n : f[i].data.session = s}
  <2>1. c[s] \in {f[i].data : i \in 1 .. n}
    BY <1>5, <1>6
  <2>2. T # {} /\ T \subseteq 1 .. n
    BY <1>5, <1>6, <2>1
  <2>3. PICK m \in T : \A k \in T : k <= m
    <3> HIDE DEF T
    <3> QED
      BY <2>2, GreatestExists
  <2>4. \A j \in Readable(f) : j > m => f[j].data.session # s
    BY <1>1, <2>3
  <2>5. Stored(f, s) = f[m].data
    BY <1>1, <2>3, <2>4, StoredIs
  <2> QED
    BY <1>3, <2>3, <2>5
<1> QED
  BY <1>4, <1>5

-----------------------------------------------------------------------------
(* The replay of a log *)

\* The index of the project after each line of a log.
IsReplay(f, n, g) ==
  g = [i \in 0 .. n |-> IF i = 0 THEN NoProject
                        ELSE IF i \in Readable(f) THEN Apply(g[i - 1], f[i].data)
                        ELSE g[i - 1]]

\* Every log has one: a shortest log without would have one up to its last line.
LEMMA ReplayExists ==
  ASSUME NEW f, NEW n \in Nat
  PROVE  \E g : IsReplay(f, n, g)
<1> DEFINE T == {k \in Nat : ~ \E g : IsReplay(f, k, g)}
<1>1. SUFFICES ASSUME T # {} PROVE FALSE
  OBVIOUS
<1>2. PICK m \in T : \A k \in T : m <= k
  <2> HIDE DEF T
  <2>1. T \subseteq Nat
    BY DEF T
  <2> QED
    BY <1>1, <2>1, LeastExists
<1>3. CASE m = 0
  <2>1. IsReplay(f, m, [i \in 0 .. 0 |-> NoProject])
    BY <1>3 DEF IsReplay
  <2> QED
    BY <2>1
<1>4. CASE m # 0
  <2>1. m - 1 \in Nat /\ m - 1 \notin T
    BY <1>2, <1>4
  <2>2. PICK g : IsReplay(f, m - 1, g)
    BY <2>1
  <2>3. PICK last : last = IF m \in Readable(f) THEN Apply(g[m - 1], f[m].data) ELSE g[m - 1]
    OBVIOUS
  <2>4. PICK h : h = [i \in 0 .. m |-> IF i = m THEN last ELSE g[i]]
    OBVIOUS
  <2>5. ASSUME NEW i \in 0 .. m
        PROVE  h[i] = IF i = 0 THEN NoProject
                      ELSE IF i \in Readable(f) THEN Apply(h[i - 1], f[i].data) ELSE h[i - 1]
    <3>1. CASE i = m
      <4>1. h[i] = last /\ h[i - 1] = g[m - 1]
        BY <1>4, <2>1, <2>4, <3>1
      <4> QED
        BY <1>4, <2>3, <3>1, <4>1
    <3>2. CASE i # m
      <4>1. i \in 0 .. (m - 1) /\ h[i] = g[i] /\ (i # 0 => h[i - 1] = g[i - 1])
        BY <2>1, <2>4, <3>2
      <4>2. g[i] = IF i = 0 THEN NoProject
                   ELSE IF i \in Readable(f) THEN Apply(g[i - 1], f[i].data) ELSE g[i - 1]
        BY <2>2, <4>1 DEF IsReplay
      <4> QED
        BY <4>1, <4>2
    <3> QED
      BY <3>1, <3>2
  <2>6. h = [i \in 0 .. m |-> IF i = 0 THEN NoProject
                              ELSE IF i \in Readable(f) THEN Apply(h[i - 1], f[i].data)
                              ELSE h[i - 1]]
    BY <2>4, <2>5
  <2>7. IsReplay(f, m, h)
    BY <2>6 DEF IsReplay
  <2> QED
    BY <2>7
<1> QED
  BY <1>3, <1>4

LEMMA EventsOfIs ==
  ASSUME NEW f, Len(f) \in Nat
  PROVE  \E g : IsReplay(f, Len(f), g) /\ EventsOf(f) = g[Len(f)]
<1>1. \E g : IsReplay(f, Len(f), g)
  BY ReplayExists
<1>2. PICK g : g = CHOOSE h : IsReplay(f, Len(f), h)
  OBVIOUS
<1>3. IsReplay(f, Len(f), g)
  BY <1>1, <1>2
<1>4. EventsOf(f) = g[Len(f)]
  BY <1>2 DEF EventsOf, IsReplay
<1> QED
  BY <1>3, <1>4

\* Two logs have the same first lines.
SameLines(f, g, k) ==
  \A i \in 1 .. k : f[i] = g[i] /\ (i \in Readable(f) <=> i \in Readable(g))

\* Two replays agree as far as their logs do.
LEMMA ReplayAgrees ==
  ASSUME NEW f, NEW g, NEW m \in Nat, NEW n \in Nat, NEW a, NEW b,
         IsReplay(f, m, a), IsReplay(g, n, b), NEW k \in Nat, k <= m, k <= n,
         SameLines(f, g, k)
  PROVE  a[k] = b[k]
<1> DEFINE T == {i \in 0 .. k : a[i] # b[i]}
<1>1. SUFFICES ASSUME T # {} PROVE FALSE
  OBVIOUS
<1>2. PICK j \in T : \A i \in T : j <= i
  <2>1. T \subseteq Nat
    OBVIOUS
  <2> HIDE DEF T
  <2> QED
    BY <1>1, <2>1, LeastExists
<1>3. j \in 0 .. m /\ j \in 0 .. n
  OBVIOUS
<1>4. /\ a[j] = IF j = 0 THEN NoProject
                ELSE IF j \in Readable(f) THEN Apply(a[j - 1], f[j].data) ELSE a[j - 1]
      /\ b[j] = IF j = 0 THEN NoProject
                ELSE IF j \in Readable(g) THEN Apply(b[j - 1], g[j].data) ELSE b[j - 1]
  BY <1>3 DEF IsReplay
<1>5. CASE j = 0
  BY <1>4, <1>5
<1>6. CASE j # 0
  <2>1. j - 1 \in 0 .. k /\ j - 1 \notin T /\ j \in 1 .. k
    BY <1>2, <1>6
  <2>2. a[j - 1] = b[j - 1]
    BY <2>1
  <2> QED
    BY <1>4, <1>6, <2>1, <2>2 DEF SameLines
<1> QED
  BY <1>5, <1>6

LEMMA EventsOfEmpty == EventsOf(<<>>) = NoProject
<1>1. Len(<<>>) = 0
  OBVIOUS
<1>2. PICK g : IsReplay(<<>>, 0, g) /\ EventsOf(<<>>) = g[0]
  BY <1>1, EventsOfIs
<1> QED
  BY <1>2 DEF IsReplay

\* A line appended to a straight log applies its event, if it can be read.
LEMMA EventsOfAppend ==
  ASSUME NEW X, NEW f \in Seq(X), WholeLines(f), NEW c \in X
  PROVE  /\ c.cut \in {"no", "newline"} => EventsOf(Append(f, c)) = Apply(EventsOf(f), c.data)
         /\ c.cut = "text" => EventsOf(Append(f, c)) = EventsOf(f)
<1> PICK g : g = Append(f, c)
  OBVIOUS
<1> PICK n : n = Len(f)
  OBVIOUS
<1>1. /\ Readable(f) = 1 .. n /\ n \in Nat /\ Len(g) = n + 1
      /\ g[n + 1] = c /\ \A i \in 1 .. n : g[i] = f[i]
      /\ c.cut \in {"no", "newline"} => Readable(g) = 1 .. (n + 1)
      /\ c.cut = "text" => Readable(g) = 1 .. n
  BY ReadableWhole, ReadableAppend
<1>2. PICK a : IsReplay(f, n, a) /\ EventsOf(f) = a[n]
  <2>1. \E a : IsReplay(f, Len(f), a) /\ EventsOf(f) = a[Len(f)]
    BY <1>1, EventsOfIs
  <2> QED
    BY <2>1, Zenon
<1>3. PICK b : IsReplay(g, n + 1, b) /\ EventsOf(g) = b[n + 1]
  <2>1. Len(g) \in Nat /\ Len(g) = n + 1
    BY <1>1
  <2>2. \E b : IsReplay(g, Len(g), b) /\ EventsOf(g) = b[Len(g)]
    BY <2>1, EventsOfIs
  <2> QED
    BY <2>1, <2>2, Zenon
<1>4. b[n + 1] = IF n + 1 \in Readable(g) THEN Apply(b[n], g[n + 1].data) ELSE b[n]
  BY <1>1, <1>3 DEF IsReplay
<1>5. ASSUME c.cut \in {"no", "newline", "text"}
      PROVE  a[n] = b[n]
  <2>1. SameLines(f, g, n)
    BY <1>1, <1>5 DEF SameLines
  <2>2. n + 1 \in Nat /\ n <= n /\ n <= n + 1
    BY <1>1
  <2> QED
    BY <1>1, <1>2, <1>3, <2>1, <2>2, ReplayAgrees
<1> QED
  BY <1>1, <1>2, <1>3, <1>4, <1>5

-----------------------------------------------------------------------------
(* Types *)

LEMMA ElementType ==
  ASSUME NEW S, NEW f \in Seq(S), NEW i \in DOMAIN f
  PROVE  f[i] \in S
OBVIOUS

LEMMA ListType ==
  ASSUME NEW S, NEW n \in Nat, NEW f \in [1 .. n -> S]
  PROVE  f \in Seq(S) /\ Len(f) = n /\ DOMAIN f = 1 .. n
OBVIOUS

LEMMA AppendType ==
  ASSUME NEW S, NEW f \in Seq(S), NEW c \in S
  PROVE  Append(f, c) \in Seq(S) /\ Len(Append(f, c)) = Len(f) + 1 /\ Len(f) \in Nat
OBVIOUS

LEMMA PutFile ==
  ASSUME FilesOK, NEW l \in Logs, NEW c, Fits(l, c), Put(l, c), writes \in Nat, glued \in BOOLEAN
  PROVE  /\ FilesOK' /\ writes' \in Nat /\ glued' \in BOOLEAN
         /\ file'[l] = Append(file[l], c) /\ \A k \in Logs \ {l} : file'[k] = file[k]
         /\ Len(file'[l]) = Len(file[l]) + 1 /\ \A k \in Logs : Len(file[k]) \in Nat
<1>1. /\ file' = [file EXCEPT ![l] = Append(file[l], c)]
      /\ writes' = writes + 1 /\ glued' = (glued \/ Glues(l))
  BY DEF Put
<1>2. DOMAIN file = {"events", "checkpoints"} /\ l \in {"events", "checkpoints"}
  BY DEF FilesOK, Logs
<1>3. file'[l] = Append(file[l], c) /\ \A k \in Logs \ {l} : file'[k] = file[k]
  BY <1>1, <1>2 DEF Logs
<1>4. writes' \in Nat /\ glued' \in BOOLEAN
  <2>1. Glues(l) \in BOOLEAN
    BY DEF Glues
  <2> QED
    BY <1>1, <2>1
<1>5. file' = [k \in Logs |-> file'[k]]
  BY <1>1, <1>2 DEF Logs
<1>8. \A k \in Logs : Len(file[k]) \in Nat
  BY DEF FilesOK, Logs
<1>9. DOMAIN file' = Logs
  BY <1>5
<1>6. CASE l = "checkpoints"
  <2>1. c \in [data : Record, cut : Cut] /\ file["checkpoints"] \in Seq([data : Record, cut : Cut])
    BY <1>6 DEF Fits, FilesOK, Ckpt
  <2>2. /\ file'["checkpoints"] \in Seq([data : Record, cut : Cut])
        /\ Len(file'["checkpoints"]) = Len(file["checkpoints"]) + 1
    <3>1. file'["checkpoints"] = Append(file["checkpoints"], c)
      BY <1>3, <1>6
    <3> QED
      BY <2>1, <3>1, AppendType
  <2>3. file'["events"] = file["events"]
    BY <1>3, <1>6 DEF Logs
  <2> QED
    BY <1>2, <1>3, <1>4, <1>6, <1>8, <1>9, <2>1, <2>2, <2>3 DEF FilesOK
<1>7. CASE l = "events"
  <2>1. c \in [data : Event, cut : Cut] /\ file["events"] \in Seq([data : Event, cut : Cut])
    BY <1>7 DEF Fits, FilesOK, Ckpt
  <2>2. /\ file'["events"] \in Seq([data : Event, cut : Cut])
        /\ Len(file'["events"]) = Len(file["events"]) + 1
    <3>1. file'["events"] = Append(file["events"], c)
      BY <1>3, <1>7
    <3> QED
      BY <2>1, <3>1, AppendType
  <2>3. file'["checkpoints"] = file["checkpoints"]
    BY <1>3, <1>7 DEF Logs
  <2> QED
    BY <1>2, <1>3, <1>4, <1>7, <1>8, <1>9, <2>1, <2>2, <2>3 DEF FilesOK
<1> QED
  BY <1>2, <1>6, <1>7

LEMMA CellIs ==
  ASSUME FilesOK, NEW s \in All
  PROVE  /\ Cells[s] = Stored(file["checkpoints"], s)
         /\ Cells[s] # None => Cells[s] \in Record /\ Cells[s].session = s
<1>1. Cells[s] = Stored(file["checkpoints"], s)
  BY DEF Cells, CheckpointsOf, All
<1>2. \A i \in Readable(file["checkpoints"]) : file["checkpoints"][i].data \in Record
  <2> PICK f : f = file["checkpoints"]
    OBVIOUS
  <2>1. f \in Seq([data : Record, cut : Cut]) /\ Readable(f) \subseteq DOMAIN f
    BY DEF FilesOK, Readable
  <2>2. \A i \in DOMAIN f : f[i] \in [data : Record, cut : Cut]
    BY <2>1, ElementType
  <2> QED
    BY <2>1, <2>2
<1>3. ASSUME Stored(file["checkpoints"], s) # None
      PROVE  /\ Stored(file["checkpoints"], s) \in Record
             /\ Stored(file["checkpoints"], s).session = s
  <2>1. PICK i \in Readable(file["checkpoints"]) :
               /\ Stored(file["checkpoints"], s) = file["checkpoints"][i].data
               /\ file["checkpoints"][i].data.session = s
    BY <1>3, StoredSession
  <2> QED
    BY <1>2, <2>1
<1> QED
  BY <1>1, <1>3

\* Finitely many sessions have a record.
LEMMA LoadedFinite ==
  ASSUME FilesOK
  PROVE  IsFiniteSet({Cells[s] : s \in All} \ {None})
<1> PICK f : f = file["checkpoints"]
  OBVIOUS
<1> PICK n : n = Len(f)
  OBVIOUS
<1>1. f \in Seq([data : Record, cut : Cut]) /\ n \in Nat /\ DOMAIN f = 1 .. n
  BY DEF FilesOK
<1> DEFINE D == {f[i].data : i \in 1 .. n}
<1>2. IsFiniteSet(D)
  <2>1. [i \in 1 .. n |-> f[i].data] \in Surjection(1 .. n, D)
    BY DEF Surjection
  <2>2. IsFiniteSet(1 .. n)
    BY <1>1, FS_Interval
  <2> HIDE DEF D
  <2> QED
    BY <2>1, <2>2, FS_Surjection
<1>3. ASSUME NEW s \in All, Cells[s] # None
      PROVE  Cells[s] \in D
  <2>1. Cells[s] = Stored(f, s)
    BY CellIs
  <2>2. PICK i \in Readable(f) : Stored(f, s) = f[i].data
    BY <1>3, <2>1, StoredSession
  <2>3. i \in 1 .. n
    BY <1>1, <2>2 DEF Readable
  <2> QED
    BY <2>1, <2>2, <2>3
<1>4. {Cells[s] : s \in All} \ {None} \in SUBSET D
  BY <1>3
<1> HIDE DEF D
<1> QED
  BY <1>2, <1>4, FS_Subset

LEMMA TypesInit == Init => Types
<1> SUFFICES ASSUME Init PROVE Types
  OBVIOUS
<1>1. OpOK
  BY DEF Init, OpOK, Idle
<1>2. FilesOK
  BY DEF Init, FilesOK, Logs
<1>3. IndexOK
  <2>1. Live = {}
    BY DEF Init, Live
  <2> QED
    BY <2>1, FS_EmptySet DEF Init, IndexOK, All
<1>4. CountersOK
  BY DEF Init, CountersOK
<1>5. SigsOK
  BY DEF Init, SigsOK, SigOK, Idle, Logs
<1> QED
  BY <1>1, <1>2, <1>3, <1>4, <1>5 DEF Types

\* An operation that begins changes nothing else.
Begins ==
  /\ op = Idle /\ op'.step = "stat" /\ raised \subseteq raised' /\ raised' \subseteq Requests
  /\ UNCHANGED <<file, inode, memory, granted, glued, raced, writes>>

LEMMA TypesBegin ==
  ASSUME Types, Begins, OpOK'
  PROVE  Types'
<1>1. FilesOK'
  BY DEF Types, Begins, FilesOK
<1>2. IndexOK'
  BY DEF Types, Begins, IndexOK, memory, Live
<1>3. CountersOK'
  BY DEF Types, Begins, CountersOK, memory
<1>4. SigsOK'
  BY DEF Types, Begins, SigsOK, SigOK, memory, Inode
<1> QED
  BY <1>1, <1>2, <1>3, <1>4 DEF Types

LEMMA StartIs ==
  ASSUME NEW call, NEW l, NEW d, Start(call, l, d)
  PROVE  /\ op' = [step |-> "stat", call |-> call, log |-> l, data |-> d, at |-> None]
         /\ op'.step = "stat" /\ op'.call = call /\ op'.log = l /\ op'.data = d
         /\ DOMAIN op' = {"step", "call", "log", "data", "at"}
BY DEF Start

LEMMA BeginWriteCheckpoint ==
  ASSUME Types, NEW s \in Sessions, NEW r \in Requests \union {None}, WriteCheckpoint(s, r)
  PROVE  Begins /\ OpOK'
<1>1. /\ op'.step = "stat" /\ op'.call = "write" /\ op'.log = "checkpoints"
      /\ op'.data = [session |-> s, request |-> r, claimed |-> FALSE, goal |-> FALSE]
      /\ DOMAIN op' = {"step", "call", "log", "data", "at"}
  BY StartIs DEF WriteCheckpoint
<1>2. op'.data \in Record /\ op'.data.session \in Sessions
  BY <1>1 DEF Record
<1>3. OpOK'
  BY <1>1, <1>2 DEF OpOK, Logs, Ckpt
<1>4. Begins
  BY <1>1 DEF WriteCheckpoint, MayStart, Begins, Types, CountersOK
<1> QED
  BY <1>3, <1>4

LEMMA BeginClaim ==
  ASSUME Types, NEW s \in Sessions, NEW r \in Requests \union {None}, Claim(s, r)
  PROVE  Begins /\ OpOK' /\ op'.call = "claim" /\ raised' = raised
<1>1. /\ op'.step = "stat" /\ op'.call = "claim" /\ op'.log = "checkpoints"
      /\ op'.data = [session |-> s, request |-> r, claimed |-> TRUE, goal |-> FALSE]
      /\ DOMAIN op' = {"step", "call", "log", "data", "at"}
  BY StartIs DEF Claim
<1>2. op'.data \in Record /\ op'.data.session \in Sessions
  BY <1>1 DEF Record
<1>3. OpOK'
  BY <1>1, <1>2 DEF OpOK, Logs, Ckpt
<1>4. Begins /\ raised' = raised
  BY <1>1 DEF Claim, MayStart, Begins, Types, CountersOK, history
<1> QED
  BY <1>1, <1>3, <1>4

LEMMA BeginRead ==
  ASSUME Types, NEW l \in Logs, Read(l)
  PROVE  Begins /\ OpOK' /\ op'.call = "read" /\ raised' = raised
<1>1. /\ op'.step = "stat" /\ op'.call = "read" /\ op'.log = l
      /\ DOMAIN op' = {"step", "call", "log", "data", "at"}
  BY StartIs DEF Read
<1>2. OpOK'
  BY <1>1 DEF OpOK
<1>3. Begins /\ raised' = raised
  BY <1>1 DEF Read, MayStart, Begins, Types, CountersOK, history
<1> QED
  BY <1>1, <1>2, <1>3

LEMMA BeginAppendEvent ==
  ASSUME Types, NEW e \in Event, AppendEvent(e)
  PROVE  Begins /\ OpOK' /\ op'.call = "append" /\ raised' = raised
<1>1. /\ op'.step = "stat" /\ op'.call = "append" /\ op'.log = "events" /\ op'.data = e
      /\ DOMAIN op' = {"step", "call", "log", "data", "at"}
  BY StartIs DEF AppendEvent
<1>2. OpOK'
  BY <1>1 DEF OpOK, Logs
<1>3. Begins /\ raised' = raised
  BY <1>1 DEF AppendEvent, MayStart, Begins, Types, CountersOK, history
<1> QED
  BY <1>1, <1>2, <1>3

LEMMA BeginTurn ==
  ASSUME Types, NEW s \in Solves, NEW before, NEW during, NEW e \in Event, Turn(s, before, during, e)
  PROVE  Begins /\ OpOK' /\ op'.call = "append" /\ raised' = raised
<1>1. /\ op'.step = "stat" /\ op'.call = "append" /\ op'.log = "events" /\ op'.data = e
      /\ DOMAIN op' = {"step", "call", "log", "data", "at"}
  BY StartIs DEF Turn
<1>2. OpOK'
  BY <1>1 DEF OpOK, Logs
<1>3. Begins /\ raised' = raised
  BY <1>1 DEF Turn, MayStart, Begins, Types, CountersOK, history
<1> QED
  BY <1>1, <1>2, <1>3

LEMMA BeginLookUp ==
  ASSUME Types, NEW s \in Solves, LookUp(s)
  PROVE  Begins /\ OpOK' /\ op'.call = "read" /\ raised' = raised
<1>1. /\ op'.step = "stat" /\ op'.call = "read" /\ op'.log = "events"
      /\ DOMAIN op' = {"step", "call", "log", "data", "at"}
  BY StartIs DEF LookUp
<1>2. OpOK'
  BY <1>1 DEF OpOK, Logs
<1>3. Begins /\ raised' = raised
  BY <1>1 DEF LookUp, MayStart, Begins, Types, CountersOK, history
<1> QED
  BY <1>1, <1>2, <1>3

LEMMA TurnEvents ==
  ASSUME NEW s \in Solves
  PROVE  /\ [type |-> "turn", solve |-> s, answered |-> FALSE] \in Event
         /\ [type |-> "turn", solve |-> s, answered |-> TRUE] \in Event
         /\ [type |-> "turn_updated", solve |-> s] \in Event
BY DEF Event

LEMMA SignatureIs ==
  ASSUME Types, NEW l \in Logs
  PROVE  /\ Signature(l) \in Sig /\ Signature(l).inode = Inode(l)
         /\ Signature(l).size = Len(file[l]) /\ Len(file[l]) \in Nat
         /\ Signature(l) = [inode |-> Inode(l), size |-> Len(file[l])]
<1>1. Len(file[l]) \in Nat
  BY DEF Types, FilesOK, Logs
<1>2. Inode(l) \in Nat
  BY DEF Types, CountersOK, Inode
<1> QED
  BY <1>1, <1>2 DEF Signature, Inode, Ckpt, Sig

LEMMA TypesStat ==
  ASSUME Types, Stat
  PROVE  Types'
<1>1. /\ DOMAIN op = {"step", "call", "log", "data", "at"} /\ op.log \in Logs /\ op.step = "stat"
      /\ OpOK /\ SigsOK
  BY DEF Types, OpOK, Stat
<1>2. /\ Signature(op.log) \in Sig /\ Signature(op.log).inode = Inode(op.log)
      /\ Signature(op.log).size = Len(file[op.log]) /\ Len(file[op.log]) \in Nat
  BY <1>1, SignatureIs
<1>3. /\ UNCHANGED <<file, inode, sig, index, state, solve, raised, granted, glued, raced, writes>>
  BY DEF Stat, memory, history
<1>4. FilesOK' /\ IndexOK' /\ CountersOK'
  BY <1>3 DEF Types, FilesOK, IndexOK, CountersOK, Live
<1>5. CASE sig[op.log] = Signature(op.log)
  <2>1. op' = [op EXCEPT !.step = "ready"]
    BY <1>5 DEF Stat
  <2>2. OpOK'
    BY <1>1, <2>1 DEF OpOK
  <2>3. op'.step = "ready" /\ op'.log = op.log
    BY <1>1, <2>1
  <2>4. Signature(op.log) # None
    BY <1>2, NoneAssumption DEF Sig
  <2>5. SigsOK'
    BY <1>1, <1>2, <1>3, <1>5, <2>3, <2>4 DEF SigsOK, SigOK, Inode
  <2> QED
    BY <1>4, <2>2, <2>5 DEF Types
<1>6. CASE sig[op.log] # Signature(op.log)
  <2>1. op' = [op EXCEPT !.step = "load", !.at = Signature(op.log)]
    BY <1>6 DEF Stat
  <2>2. OpOK'
    BY <1>1, <1>2, <2>1 DEF OpOK
  <2>3. op'.step = "load" /\ op'.log = op.log /\ op'.at = Signature(op.log)
    BY <1>1, <2>1
  <2>4. SigsOK'
    BY <1>1, <1>2, <1>3, <2>3 DEF SigsOK, SigOK, Inode
  <2> QED
    BY <1>4, <2>2, <2>4 DEF Types
<1> QED
  BY <1>5, <1>6

LEMMA TypesLoad ==
  ASSUME Types, Load
  PROVE  /\ Types' /\ op'.step = "ready" /\ op'.log = op.log /\ op'.call = op.call
         /\ op'.data = op.data
<1>1. /\ DOMAIN op = {"step", "call", "log", "data", "at"} /\ op.log \in Logs /\ op.step = "load"
      /\ OpOK /\ SigsOK /\ op.at \in Sig
  BY DEF Types, OpOK, Load
<1>2. /\ UNCHANGED <<file, inode, solve, raised, granted, glued, raced, writes>>
      /\ op' = [op EXCEPT !.step = "ready", !.at = None]
      /\ sig' = [sig EXCEPT ![op.log] = op.at]
  BY DEF Load, history
<1>3. FilesOK' /\ CountersOK'
  BY <1>2 DEF Types, FilesOK, CountersOK
<1>4. OpOK'
  BY <1>1, <1>2 DEF OpOK
<1>5. /\ op'.step = "ready" /\ op'.log = op.log /\ op'.call = op.call /\ op'.data = op.data
  BY <1>1, <1>2
<1>6. IndexOK'
  <2>1. CASE op.log = "events"
    <3>1. index' = index
      BY <2>1 DEF Load
    <3> QED
      BY <3>1 DEF Types, IndexOK, Live
  <2>2. CASE op.log # "events"
    <3>1. index' = Cells
      BY <2>2 DEF Load, Cells
    <3>2. DOMAIN index' = All /\ index' = [s \in All |-> index'[s]]
      BY <3>1 DEF Cells, CheckpointsOf, All
    <3>3. Live' = {Cells[s] : s \in All} \ {None}
      BY <3>1 DEF Live, All
    <3>4. IsFiniteSet(Live')
      BY <3>3, LoadedFinite DEF Types
    <3>5. \A s \in All : Cells[s] # None => Cells[s] \in Record /\ Cells[s].session = s
      BY CellIs DEF Types
    <3> QED
      BY <3>1, <3>2, <3>4, <3>5 DEF IndexOK
  <2> QED
    BY <2>1, <2>2
<1>7. SigsOK'
  <2>1. DOMAIN sig' = Logs /\ sig'[op.log] = op.at /\ \A l \in Logs \ {op.log} : sig'[l] = sig[l]
    BY <1>1, <1>2 DEF SigsOK
  <2>2. op.at # None
    BY <1>1, NoneAssumption DEF Sig
  <2>3. op.at.inode = Inode(op.log) /\ op.at.size <= Len(file[op.log])
    BY <1>1 DEF SigsOK
  <2>4. \A l \in Logs : SigOK(l)'
    <3>1. ASSUME NEW l \in Logs
          PROVE  SigOK(l)'
      <4>1. CASE l = op.log
        <5>1. Inode(l) \in Nat
          BY DEF Types, CountersOK, Inode
        <5> QED
          BY <1>1, <1>2, <2>1, <2>3, <4>1, <5>1 DEF SigOK, Inode
      <4>2. CASE l # op.log
        BY <1>1, <1>2, <2>1, <4>2 DEF SigsOK, SigOK, Inode
      <4> QED
        BY <4>1, <4>2
    <3> QED
      BY <3>1
  <2> QED
    BY <1>2, <1>5, <2>1, <2>2, <2>3, <2>4 DEF SigsOK, Inode
<1> QED
  BY <1>3, <1>4, <1>5, <1>6, <1>7 DEF Types

\* An operation that ends without having written.
Leaves == op' = Idle /\ UNCHANGED <<file, inode, memory, raised, granted, glued, raced, writes>>

LEMMA TypesLeave ==
  ASSUME Types, Leaves
  PROVE  Types'
<1>1. FilesOK' /\ IndexOK' /\ CountersOK'
  BY DEF Types, Leaves, FilesOK, IndexOK, CountersOK, memory, Live
<1>2. OpOK'
  BY DEF Leaves, OpOK, Idle
<1>3. SigsOK'
  BY DEF Types, Leaves, SigsOK, SigOK, memory, Inode, Idle
<1> QED
  BY <1>1, <1>2, <1>3 DEF Types

\* What a claim decides.
LEMMA Decided ==
  ASSUME Types, Decide, op' # Idle, NEW c, c = index[op.data.session]
  PROVE  /\ c \in Record /\ c # None /\ c.session = op.data.session /\ OpOK'
         /\ op'.step = "stat" /\ op'.log = op.log /\ op'.data \in Record
         /\ op'.data.session = op.data.session
         /\ \/ op'.call = "write" /\ op'.data = [c EXCEPT !.goal = TRUE]
            \/ /\ op'.call = "grant" /\ op'.data = [c EXCEPT !.claimed = TRUE] /\ ~c.claimed
               /\ c.request = op.data.request /\ op.data.request \in Requests
<1>1. /\ DOMAIN op = {"step", "call", "log", "data", "at"} /\ op.call = "claim" /\ op.step = "ready"
      /\ op.log = "checkpoints" /\ op.data \in Record /\ op.data.session \in Sessions
  BY DEF Types, OpOK, Decide, Ckpt
<1>2. PICK r : r = op.data.request
  OBVIOUS
<1>3. r \in Requests \union {None}
  BY <1>1, <1>2 DEF Record
<1>4. /\ Claimable(c, r)
      /\ op' = [op EXCEPT !.step = "stat", !.call = IF r = None THEN "write" ELSE "grant",
                          !.data = IF r = None THEN [c EXCEPT !.goal = TRUE]
                                   ELSE [c EXCEPT !.claimed = TRUE]]
  BY <1>2 DEF Decide
<1>5. c # None
  BY <1>4 DEF Claimable
<1>6. c \in Record /\ c.session = op.data.session
  BY <1>1, <1>5 DEF Types, IndexOK, All
<1>7. /\ op'.step = "stat" /\ op'.log = op.log /\ DOMAIN op' = DOMAIN op
      /\ op'.call = IF r = None THEN "write" ELSE "grant"
      /\ op'.data = IF r = None THEN [c EXCEPT !.goal = TRUE] ELSE [c EXCEPT !.claimed = TRUE]
  BY <1>1, <1>4
<1>8. CASE r = None
  <2>1. op'.data = [c EXCEPT !.goal = TRUE] /\ op'.call = "write"
    BY <1>7, <1>8
  <2>2. op'.data \in Record /\ op'.data.session = c.session
    BY <1>6, <2>1 DEF Record
  <2>3. OpOK'
    BY <1>1, <1>6, <1>7, <2>1, <2>2 DEF OpOK, Logs, Ckpt
  <2> QED
    BY <1>5, <1>6, <1>7, <2>1, <2>2, <2>3
<1>9. CASE r # None
  <2>1. op'.data = [c EXCEPT !.claimed = TRUE] /\ op'.call = "grant"
    BY <1>7, <1>9
  <2>2. /\ op'.data \in Record /\ op'.data.session = c.session /\ op'.data.claimed
        /\ op'.data.request = c.request
    BY <1>6, <2>1 DEF Record
  <2>3. ~c.claimed /\ c.request = r /\ r \in Requests
    BY <1>3, <1>4, <1>9 DEF Claimable
  <2>4. OpOK'
    BY <1>1, <1>6, <1>7, <2>1, <2>2, <2>3 DEF OpOK, Logs, Ckpt
  <2> QED
    BY <1>2, <1>5, <1>6, <1>7, <2>1, <2>2, <2>3, <2>4
<1> QED
  BY <1>8, <1>9

LEMMA TypesDecide ==
  ASSUME Types, Decide
  PROVE  Types'
<1>1. UNCHANGED <<file, inode, memory, raised, granted, glued, raced, writes>>
  BY DEF Decide, history
<1>2. CASE op' = Idle
  BY <1>1, <1>2, TypesLeave DEF Leaves
<1>3. CASE op' # Idle
  <2>1. OpOK' /\ op'.step = "stat"
    BY <1>3, Decided
  <2>2. FilesOK' /\ IndexOK' /\ CountersOK'
    BY <1>1 DEF Types, FilesOK, IndexOK, CountersOK, memory, Live
  <2>3. SigsOK'
    BY <1>1, <2>1 DEF Types, SigsOK, SigOK, memory, Inode
  <2> QED
    BY <2>1, <2>2, <2>3 DEF Types
<1> QED
  BY <1>2, <1>3

LEMMA SigsPut ==
  ASSUME Types, NEW l \in Logs, NEW c, Fits(l, c), Put(l, c), UNCHANGED <<inode, sig>>
  PROVE  /\ FilesOK' /\ DOMAIN sig' = Logs /\ \A k \in Logs : SigOK(k)'
         /\ \A k \in Logs : Len(file[k]) <= Len(file'[k]) /\ Len(file[k]) \in Nat
         /\ Len(file'[l]) = Len(file[l]) + 1 /\ writes' \in Nat /\ glued' \in BOOLEAN
<1>1. /\ FilesOK' /\ writes' \in Nat /\ glued' \in BOOLEAN
      /\ \A k \in Logs \ {l} : file'[k] = file[k]
      /\ Len(file'[l]) = Len(file[l]) + 1 /\ \A k \in Logs : Len(file[k]) \in Nat
  BY PutFile DEF Types, CountersOK
<1>2. \A k \in Logs : Len(file[k]) <= Len(file'[k]) /\ Len(file[k]) \in Nat
  <2>1. ASSUME NEW k \in Logs
        PROVE  Len(file[k]) <= Len(file'[k]) /\ Len(file[k]) \in Nat
    <3>1. CASE k = l
      BY <1>1, <3>1
    <3>2. CASE k # l
      BY <1>1, <3>2
    <3> QED
      BY <3>1, <3>2
  <2> QED
    BY <2>1
<1>3. ASSUME NEW k \in Logs
      PROVE  SigOK(k)'
  <2> PICK m : m = Len(file[k])
    OBVIOUS
  <2> PICK n : n = Len(file'[k])
    OBVIOUS
  <2>1. m \in Nat /\ n \in Nat /\ m <= n
    BY <1>1, <1>2 DEF FilesOK, Logs
  <2>2. SigOK(k) /\ Inode(k)' = Inode(k) /\ sig' = sig
    BY DEF Types, SigsOK, Inode
  <2>3. sig[k] # None => /\ sig[k] \in Sig /\ sig[k].inode <= Inode(k)
                         /\ (sig[k].inode = Inode(k) => sig[k].size <= m)
    BY <2>2 DEF SigOK
  <2>4. sig[k] # None => /\ sig[k] \in Sig /\ sig[k].inode <= Inode(k)
                         /\ (sig[k].inode = Inode(k) => sig[k].size <= n)
    BY <2>1, <2>3 DEF Sig
  <2> QED
    BY <2>2, <2>4 DEF SigOK
<1> QED
  BY <1>1, <1>2, <1>3 DEF Types, SigsOK

LEMMA WritingIs ==
  ASSUME Types, Writing
  PROVE  /\ DOMAIN op = {"step", "call", "log", "data", "at"} /\ op.log \in Logs /\ op.step = "ready"
         /\ op.call \in {"write", "grant", "append"} /\ (op.log = Ckpt <=> op.call # "append")
         /\ \A cut \in Cut : Fits(op.log, [data |-> op.data, cut |-> cut])
         /\ Cuts \subseteq Cut
<1>1. /\ DOMAIN op = {"step", "call", "log", "data", "at"} /\ op.log \in Logs /\ op.step = "ready"
      /\ op.call \in {"write", "grant", "append"}
      /\ (op.call # "append" => op.log = Ckpt /\ op.data \in Record)
      /\ (op.call = "append" => op.log = "events" /\ op.data \in Event)
  BY DEF Types, OpOK, Writing
<1>2. Cuts \subseteq Cut
  BY CutAssumption DEF Cut
<1> QED
  BY <1>1, <1>2 DEF Fits, Ckpt

LEMMA TypesWrite ==
  ASSUME Types, Write
  PROVE  /\ Types' /\ op'.step = "written" /\ op'.log = op.log /\ op'.call = op.call
         /\ op'.data = op.data
<1>1. /\ DOMAIN op = {"step", "call", "log", "data", "at"} /\ op.log \in Logs /\ op.step = "ready"
      /\ op.call \in {"write", "grant", "append"} /\ Fits(op.log, Whole(op.data))
      /\ OpOK /\ SigsOK
  BY WritingIs DEF Write, Whole, Cut, Types
<1>2. /\ Put(op.log, Whole(op.data)) /\ op' = [op EXCEPT !.step = "written"]
      /\ UNCHANGED <<inode, sig, index, state, solve, raised, granted, raced, faults>>
  BY DEF Write, At, memory
<1>3. /\ FilesOK' /\ DOMAIN sig' = Logs /\ \A k \in Logs : SigOK(k)'
      /\ Len(file'[op.log]) = Len(file[op.log]) + 1 /\ writes' \in Nat /\ glued' \in BOOLEAN
      /\ Len(file[op.log]) \in Nat
  BY <1>1, <1>2, SigsPut
<1>4. /\ op'.step = "written" /\ op'.log = op.log /\ op'.call = op.call /\ op'.data = op.data
  BY <1>1, <1>2
<1>5. OpOK'
  BY <1>1, <1>2 DEF OpOK
<1>6. IndexOK' /\ CountersOK'
  BY <1>2, <1>3 DEF Types, IndexOK, CountersOK, Live
<1>7. /\ sig[op.log] # None /\ sig[op.log].inode = Inode(op.log) /\ SigOK(op.log)
  BY <1>1 DEF SigsOK
<1>8. sig[op.log].size < Len(file'[op.log])
  BY <1>3, <1>7 DEF SigOK, Sig
<1>9. SigsOK'
  BY <1>2, <1>3, <1>4, <1>7, <1>8 DEF SigsOK, Inode
<1> QED
  BY <1>3, <1>4, <1>5, <1>6, <1>9 DEF Types

\* An operation that fails, leaving some of its line, or none of it, in its log.
LEMMA TypesWriteFails ==
  ASSUME Types, WriteFails
  PROVE  Types'
<1>1. /\ op' = Idle /\ UNCHANGED <<inode, sig, index, state, raised, granted, raced>> /\ Writing
  BY DEF WriteFails, memory
<1>2. CASE UNCHANGED <<file, glued, writes>>
  BY <1>1, <1>2, TypesLeave DEF Leaves, memory
<1>3. CASE \E cut \in Cuts : Put(op.log, [data |-> op.data, cut |-> cut])
  <2>1. PICK c : Fits(op.log, c) /\ Put(op.log, c)
    BY <1>1, <1>3, WritingIs
  <2>2. /\ FilesOK' /\ DOMAIN sig' = Logs /\ \A k \in Logs : SigOK(k)'
        /\ writes' \in Nat /\ glued' \in BOOLEAN
    BY <1>1, <2>1, SigsPut, WritingIs
  <2>3. OpOK' /\ op'.step = "none"
    BY <1>1 DEF OpOK, Idle
  <2>4. IndexOK' /\ CountersOK'
    BY <1>1, <2>2 DEF Types, IndexOK, CountersOK, Live
  <2>5. SigsOK'
    BY <2>2, <2>3 DEF SigsOK
  <2> QED
    BY <2>2, <2>3, <2>4, <2>5 DEF Types
<1> QED
  BY <1>2, <1>3 DEF WriteFails

LEMMA TypesExternal ==
  ASSUME Types, NEW l \in Logs, NEW d, Fits(l, Whole(d)), ExternalAppend(l, d)
  PROVE  Types'
<1>1. /\ Put(l, Whole(d)) /\ raced' = (raced \/ (l = "checkpoints" /\ op.step = "restat"))
      /\ UNCHANGED <<inode, sig, index, state, op, solve, raised, granted, faults>>
  BY DEF ExternalAppend, memory
<1>2. /\ FilesOK' /\ DOMAIN sig' = Logs /\ \A k \in Logs : SigOK(k)'
      /\ \A k \in Logs : Len(file[k]) <= Len(file'[k]) /\ Len(file[k]) \in Nat
      /\ writes' \in Nat /\ glued' \in BOOLEAN
  BY <1>1, SigsPut
<1>3. OpOK'
  BY <1>1 DEF Types, OpOK
<1>4. IndexOK' /\ CountersOK'
  BY <1>1, <1>2 DEF Types, IndexOK, CountersOK, Live
<1>5. SigsOK'
  <2> PICK n : n = [k \in Logs |-> Len(file'[k])]
    OBVIOUS
  <2>1. \A k \in Logs : n[k] \in Nat /\ n[k] = Len(file'[k])
    BY <1>2 DEF FilesOK, Logs
  <2>2. op.step # "none" => op.log \in Logs
    BY DEF Types, OpOK
  <2>3. op.step = "load" => op.at.inode = Inode(op.log) /\ op.at.size <= n[op.log]
    BY <1>2, <2>1, <2>2 DEF Types, SigsOK, OpOK, Sig
  <2>4. op.step = "written" => sig[op.log].size < n[op.log]
    <3>1. SUFFICES ASSUME op.step = "written" PROVE sig[op.log].size < n[op.log]
      OBVIOUS
    <3>2. sig[op.log] # None /\ SigOK(op.log) /\ sig[op.log].size < Len(file[op.log])
      BY <2>2, <3>1 DEF Types, SigsOK
    <3>3. sig[op.log].size \in Nat
      BY <3>2 DEF SigOK, Sig
    <3> QED
      BY <1>2, <2>1, <2>2, <3>1, <3>2, <3>3
  <2> QED
    BY <1>1, <1>2, <2>1, <2>2, <2>3, <2>4 DEF Types, SigsOK, Inode
<1> QED
  BY <1>2, <1>3, <1>4, <1>5 DEF Types

LEMMA TypesCrash ==
  ASSUME Types, Crash
  PROVE  Types'
<1>1. /\ op' = Idle /\ UNCHANGED <<inode, raised, granted, raced>>
      /\ sig' = [l \in Logs |-> None] /\ index' = [s \in All |-> None]
  BY DEF Crash, All
<1>2. OpOK' /\ op'.step = "none"
  BY <1>1 DEF OpOK, Idle
<1>3. IndexOK'
  <2>1. Live' = {}
    BY <1>1 DEF Live, All
  <2> QED
    BY <1>1, <2>1, FS_EmptySet DEF IndexOK
<1>4. SigsOK'
  BY <1>1, <1>2 DEF SigsOK, SigOK
<1>5. FilesOK' /\ writes' \in Nat /\ glued' \in BOOLEAN
  <2>1. CASE UNCHANGED <<file, glued, writes>>
    BY <2>1 DEF Types, FilesOK, CountersOK
  <2>2. CASE Writing /\ \E cut \in Cuts : Put(op.log, [data |-> op.data, cut |-> cut])
    <3>1. PICK c : Fits(op.log, c) /\ Put(op.log, c)
      BY <2>2, WritingIs
    <3> QED
      BY <2>2, <3>1, PutFile, WritingIs DEF Types, CountersOK
  <2> QED
    BY <2>1, <2>2 DEF Crash
<1> QED
  BY <1>1, <1>2, <1>3, <1>4, <1>5 DEF Types, CountersOK

LEMMA TypesReturn ==
  ASSUME Types, Return
  PROVE  Types'
<1>1. op' = Idle /\ UNCHANGED <<file, inode, sig, index, state, raised, glued, raced, writes>>
  BY DEF Return, memory
<1>2. OpOK' /\ op'.step = "none"
  BY <1>1 DEF OpOK, Idle
<1>3. granted' \in [Requests -> Nat]
  BY DEF Types, CountersOK, OpOK, Return
<1>4. FilesOK' /\ IndexOK' /\ CountersOK'
  BY <1>1, <1>3 DEF Types, FilesOK, IndexOK, CountersOK, Live
<1>5. SigsOK'
  BY <1>1, <1>2 DEF Types, SigsOK, SigOK, Inode
<1> QED
  BY <1>2, <1>4, <1>5 DEF Types

LEMMA CommitIs ==
  ASSUME Types, Commit
  PROVE  /\ op.step = "written" /\ op.log \in Logs /\ op'.log = op.log /\ op'.call = op.call
         /\ op'.data = op.data /\ op'.step \in {"compact", "done"} /\ OpOK'
         /\ op'.step = "compact" => op.log = Ckpt
         /\ sig'[op.log] = [inode |-> Inode(op.log), size |-> sig[op.log].size + 1]
         /\ sig'[op.log] \in Sig /\ sig'[op.log] # None /\ sig'[op.log].size <= Len(file[op.log])
         /\ DOMAIN sig' = Logs /\ \A l \in Logs \ {op.log} : sig'[l] = sig[l]
         /\ sig[op.log].size \in Nat
<1>1. /\ DOMAIN op = {"step", "call", "log", "data", "at"} /\ op.log \in Logs /\ op.step = "written"
      /\ OpOK /\ SigsOK
  BY DEF Types, OpOK, Commit
<1>2. sig[op.log] # None /\ SigOK(op.log) /\ sig[op.log].size < Len(file[op.log])
  BY <1>1 DEF SigsOK
<1>3. sig[op.log].size \in Nat
  BY <1>2 DEF SigOK, Sig
<1>4. /\ Signature(op.log) = [inode |-> Inode(op.log), size |-> Len(file[op.log])]
      /\ Inode(op.log) \in Nat /\ Len(file[op.log]) \in Nat
  BY <1>1, SignatureIs DEF Types, CountersOK, Inode
<1>5. SignatureExpected(op.log) = [inode |-> Inode(op.log), size |-> sig[op.log].size + 1]
  BY <1>4 DEF SignatureExpected
<1>6. sig' = [sig EXCEPT ![op.log] = SignatureExpected(op.log)]
  BY DEF Commit
<1>7. /\ DOMAIN sig' = Logs /\ \A l \in Logs \ {op.log} : sig'[l] = sig[l]
      /\ sig'[op.log] = [inode |-> Inode(op.log), size |-> sig[op.log].size + 1]
  BY <1>1, <1>5, <1>6 DEF SigsOK
<1>8. sig'[op.log] \in Sig
  BY <1>3, <1>4, <1>7 DEF Sig
<1>9. sig'[op.log] # None /\ sig'[op.log].size <= Len(file[op.log])
  BY <1>2, <1>3, <1>4, <1>7, <1>8, NoneAssumption DEF Sig
<1>10. PICK st \in {"compact", "done"} :
         op' = [op EXCEPT !.step = st] /\ (st = "compact" => op.log = Ckpt)
  BY DEF Commit, At, Ckpt
<1>11. OpOK'
  BY <1>1, <1>10 DEF OpOK
<1>12. op'.log = op.log /\ op'.call = op.call /\ op'.data = op.data /\ op'.step = st
  BY <1>1, <1>10
<1> QED
  BY <1>1, <1>3, <1>7, <1>8, <1>9, <1>10, <1>11, <1>12

LEMMA TypesCommit ==
  ASSUME Types, Commit
  PROVE  Types'
<1>1. /\ op.step = "written" /\ op.log \in Logs /\ op'.log = op.log
      /\ op'.step \in {"compact", "done"} /\ OpOK' /\ (op'.step = "compact" => op.log = Ckpt)
      /\ sig'[op.log] = [inode |-> Inode(op.log), size |-> sig[op.log].size + 1]
      /\ sig'[op.log] \in Sig /\ sig'[op.log] # None /\ sig'[op.log].size <= Len(file[op.log])
      /\ DOMAIN sig' = Logs /\ \A l \in Logs \ {op.log} : sig'[l] = sig[l]
  BY CommitIs
<1>2. UNCHANGED <<file, inode, solve, raised, granted, glued, raced, writes>>
  BY DEF Commit, history
<1>3. FilesOK' /\ CountersOK'
  BY <1>2 DEF Types, FilesOK, CountersOK
<1>4. SigsOK'
  <2>1. \A l \in Logs : SigOK(l)'
    <3>1. ASSUME NEW l \in Logs
          PROVE  SigOK(l)'
      <4>1. CASE l = op.log
        <5>1. Inode(l) \in Nat
          BY DEF Types, CountersOK, Inode
        <5> QED
          BY <1>1, <1>2, <4>1, <5>1 DEF SigOK, Inode
      <4>2. CASE l # op.log
        BY <1>1, <1>2, <4>2 DEF Types, SigsOK, SigOK, Inode
      <4> QED
        BY <4>1, <4>2
    <3> QED
      BY <3>1
  <2> QED
    BY <1>1, <1>2, <2>1 DEF SigsOK, Ckpt
<1>5. IndexOK'
  <2>1. CASE op.log = "events"
    <3>1. index' = index
      BY <2>1 DEF Commit
    <3> QED
      BY <3>1 DEF Types, IndexOK, Live
  <2>2. CASE op.log # "events"
    <3> PICK d : d = op.data
      OBVIOUS
    <3>1. index' = [index EXCEPT ![d.session] = d] /\ d \in Record /\ d.session \in All
      BY <1>1, <2>2 DEF Types, OpOK, Commit, Ckpt, Logs, All
    <3>2. Live' \subseteq Live \union {d}
      BY <3>1 DEF Live, Types, IndexOK, All
    <3>3. IsFiniteSet(Live')
      BY <3>2, FS_AddElement, FS_Subset DEF Types, IndexOK
    <3> QED
      BY <3>1, <3>3 DEF Types, IndexOK
  <2> QED
    BY <2>1, <2>2
<1> QED
  BY <1>1, <1>3, <1>4, <1>5 DEF Types

\* The compacted log holds the live records and no others.
LEMMA CompactIs ==
  ASSUME Types, Compact
  PROVE  /\ op.step = "compact" /\ op'.step = "restat" /\ op'.log = Ckpt /\ op.log = Ckpt
         /\ op'.call = op.call /\ op'.data = op.data /\ OpOK'
         /\ file'["events"] = file["events"] /\ FilesOK'
         /\ \A s \in All : Stored(file'["checkpoints"], s) = index[s]
         /\ \A i \in 1 .. Len(file'["checkpoints"]) : file'["checkpoints"][i].cut = "no"
         /\ UNCHANGED <<sig, index, state, solve, raised, granted, glued, raced, writes>>
<1>1. /\ DOMAIN op = {"step", "call", "log", "data", "at"} /\ op.log = Ckpt /\ op.step = "compact"
      /\ OpOK
  BY DEF Types, OpOK, Compact
<1>2. PICK f \in Rewrites : file' = [file EXCEPT !["checkpoints"] = f]
  BY DEF Compact
<1>3. op' = [op EXCEPT !.step = "restat"]
  BY DEF Compact, At
<1>4. /\ op'.step = "restat" /\ op'.log = Ckpt /\ op'.call = op.call /\ op'.data = op.data
  BY <1>1, <1>3
<1>5. OpOK'
  BY <1>1, <1>3 DEF OpOK
<1>6. file'["checkpoints"] = f /\ file'["events"] = file["events"] /\ DOMAIN file' = Logs
  BY <1>2 DEF Types, FilesOK, Logs
<1> PICK n : n = Cardinality(Live)
  OBVIOUS
<1>7. n \in Nat
  BY FS_CardinalityType DEF Types, IndexOK
<1>8. Live \subseteq Record
  BY DEF Types, IndexOK, Live, All
<1>9. f \in [1 .. n -> {Whole(c) : c \in Live}] /\ {f[i].data : i \in DOMAIN f} = Live
  BY DEF Rewrites
<1>10. \A i \in 1 .. n : f[i].cut = "no" /\ f[i] \in [data : Record, cut : Cut]
  <2>1. ASSUME NEW i \in 1 .. n
        PROVE  f[i].cut = "no" /\ f[i] \in [data : Record, cut : Cut]
    <3>1. PICK c \in Live : f[i] = Whole(c)
      BY <1>9
    <3> QED
      BY <1>8, <3>1 DEF Whole, Cut
  <2> QED
    BY <2>1
<1>11. /\ f \in Seq([data : Record, cut : Cut]) /\ Len(f) = n /\ DOMAIN f = 1 .. n
  <2>1. f \in [1 .. n -> [data : Record, cut : Cut]]
    BY <1>9, <1>10
  <2> QED
    BY <1>7, <2>1, ListType
<1>12. FilesOK'
  BY <1>6, <1>11 DEF Types, FilesOK
<1>13. ASSUME NEW s \in All
       PROVE  Stored(f, s) = index[s]
  <2>1. DOMAIN index = All /\ \A t \in All : index[t] # None => index[t].session = t
    BY DEF Types, IndexOK
  <2>2. \A i \in 1 .. n : f[i].cut = "no"
    BY <1>10
  <2>3. {f[i].data : i \in 1 .. n} = {index[t] : t \in All} \ {None}
    BY <1>9, <1>11 DEF Live, All
  <2> PICK c : c = index
    OBVIOUS
  <2>4. Lists(f, n, c)
    BY <2>1, <2>2, <2>3 DEF Lists
  <2>5. Stored(f, s) = c[s]
    BY <1>7, <1>11, <2>4, StoredRewrite
  <2> QED
    BY <2>5
<1> QED
  BY <1>1, <1>4, <1>5, <1>6, <1>10, <1>11, <1>12, <1>13 DEF Compact, memory, history

LEMMA TypesCompact ==
  ASSUME Types, Compact
  PROVE  Types'
<1>1. /\ op.step = "compact" /\ op'.step = "restat" /\ op'.log = Ckpt /\ op.log = Ckpt
      /\ OpOK' /\ FilesOK' /\ file'["events"] = file["events"]
      /\ UNCHANGED <<sig, index, state, solve, raised, granted, glued, raced, writes>>
  BY CompactIs
<1>2. inode' = inode + 1 /\ inode \in Nat
  BY DEF Types, CountersOK, Compact
<1>3. IndexOK' /\ CountersOK'
  BY <1>1, <1>2 DEF Types, IndexOK, CountersOK, Live
<1>4. SigsOK'
  <2>1. SigOK(Ckpt) /\ sig[Ckpt] # None
    BY <1>1 DEF Types, SigsOK, Logs, Ckpt
  <2>2. sig[Ckpt] \in Sig /\ sig[Ckpt].inode < inode'
    BY <1>2, <2>1 DEF SigOK, Inode, Sig
  <2>3. SigOK(Ckpt)'
    BY <1>1, <1>2, <2>2 DEF SigOK, Inode, Sig
  <2>4. SigOK("events")'
    BY <1>1 DEF Types, SigsOK, SigOK, Inode, Ckpt, Logs
  <2> QED
    BY <1>1, <2>1, <2>2, <2>3, <2>4 DEF Types, SigsOK, Logs, Ckpt
<1> QED
  BY <1>1, <1>3, <1>4 DEF Types

LEMMA TypesNoCompaction ==
  ASSUME Types, NoCompaction
  PROVE  /\ Types' /\ op'.step = "done" /\ op'.log = op.log /\ op'.call = op.call
         /\ op'.data = op.data /\ op.step = "compact" /\ op.log = Ckpt
<1>1. /\ DOMAIN op = {"step", "call", "log", "data", "at"} /\ op.log = Ckpt /\ op.step = "compact"
      /\ OpOK
  BY DEF Types, OpOK, NoCompaction
<1>2. op' = [op EXCEPT !.step = "done"]
  BY DEF NoCompaction, At
<1>3. OpOK' /\ op'.step = "done" /\ op'.log = op.log /\ op'.call = op.call /\ op'.data = op.data
  BY <1>1, <1>2 DEF OpOK
<1>4. UNCHANGED <<file, inode, sig, index, state, solve, raised, granted, glued, raced, writes>>
  BY DEF NoCompaction, memory, history
<1>5. FilesOK' /\ IndexOK' /\ CountersOK'
  BY <1>4 DEF Types, FilesOK, IndexOK, CountersOK, Live
<1>6. SigsOK'
  BY <1>3, <1>4 DEF Types, SigsOK, SigOK, Inode
<1> QED
  BY <1>1, <1>3, <1>5, <1>6 DEF Types

LEMMA TypesRestat ==
  ASSUME Types, Restat
  PROVE  /\ Types' /\ op'.step = "done" /\ op'.log = op.log /\ op'.call = op.call
         /\ op'.data = op.data /\ op.step = "restat" /\ op.log = Ckpt
         /\ sig'["events"] = sig["events"]
<1>1. /\ DOMAIN op = {"step", "call", "log", "data", "at"} /\ op.log = Ckpt /\ op.step = "restat"
      /\ OpOK /\ SigsOK
  BY DEF Types, OpOK, Restat
<1>2. op' = [op EXCEPT !.step = "done"]
  BY DEF Restat, At
<1>3. OpOK' /\ op'.step = "done" /\ op'.log = op.log /\ op'.call = op.call /\ op'.data = op.data
  BY <1>1, <1>2 DEF OpOK
<1>4. UNCHANGED <<file, inode, index, state, solve, raised, granted, glued, raced, writes>>
  BY DEF Restat, history
<1>5. FilesOK' /\ IndexOK' /\ CountersOK'
  BY <1>4 DEF Types, FilesOK, IndexOK, CountersOK, Live
<1>6. /\ sig'[Ckpt] = Signature(Ckpt) /\ DOMAIN sig' = Logs /\ sig'["events"] = sig["events"]
  BY <1>1 DEF Restat, SigsOK, Logs, Ckpt
<1>7. /\ Signature(Ckpt) \in Sig /\ Signature(Ckpt).inode = Inode(Ckpt)
      /\ Signature(Ckpt).size = Len(file[Ckpt]) /\ Len(file[Ckpt]) \in Nat
  BY SignatureIs DEF Logs, Ckpt
<1>8. SigOK(Ckpt)'
  <2>1. Inode(Ckpt) \in Nat
    BY DEF Types, CountersOK, Inode
  <2> QED
    BY <1>4, <1>6, <1>7, <2>1 DEF SigOK, Inode
<1>9. SigOK("events")'
  BY <1>1, <1>4, <1>6 DEF SigsOK, SigOK, Inode, Ckpt, Logs
<1>10. SigsOK'
  BY <1>3, <1>6, <1>8, <1>9 DEF SigsOK, Logs, Ckpt
<1> QED
  BY <1>1, <1>3, <1>5, <1>6, <1>10 DEF Types

\* An event or a checkpoint of another process.
LEMMA ForeignFits ==
  /\ \A s \in Foreign : Fits("checkpoints", Whole([session |-> s, request |-> None,
                                                   claimed |-> FALSE, goal |-> FALSE]))
  /\ \A i \in Items : Fits("events", Whole([type |-> "knowledge_added", item |-> i]))
<1>1. ASSUME NEW s \in Foreign
      PROVE  [session |-> s, request |-> None, claimed |-> FALSE, goal |-> FALSE] \in Record
  BY DEF Record
<1>2. ASSUME NEW i \in Items
      PROVE  [type |-> "knowledge_added", item |-> i] \in Event
  BY DEF Event
<1> QED
  BY <1>1, <1>2 DEF Fits, Whole, Cut, Ckpt

LEMMA ReturnReadLeaves ==
  ASSUME ReturnRead
  PROVE  Leaves /\ op.step = "ready"
BY DEF ReturnRead, Leaves, history

LEMMA RefuseLeaves ==
  ASSUME Refuse
  PROVE  Leaves /\ op.step = "ready"
BY DEF Refuse, Leaves, history

\* Each operation that begins.
Beginning ==
  \/ \E s \in Sessions, r \in Requests \union {None} : WriteCheckpoint(s, r)
  \/ /\ Begins /\ OpOK' /\ op'.call \in {"claim", "read", "append"} /\ raised' = raised

LEMMA NextCases ==
  ASSUME Types, Next
  PROVE  \/ Beginning
         \/ Stat \/ Load \/ (Leaves /\ op.step = "ready") \/ (Decide /\ op' # Idle)
         \/ Write \/ WriteFails \/ Commit \/ Return \/ Compact \/ NoCompaction \/ Restat
         \/ \E l \in Logs, d \in Record \union Event :
              /\ ExternalAppend(l, d) /\ Fits(l, Whole(d))
              /\ l = Ckpt => d.session \in Foreign
         \/ Crash
<1>1. ASSUME NEW s \in Sessions, NEW r \in Requests \union {None}, WriteCheckpoint(s, r) \/ Claim(s, r)
      PROVE  Beginning
  BY <1>1, BeginClaim DEF Beginning
<1>2. ASSUME NEW l \in Logs, Read(l)
      PROVE  Beginning
  BY <1>2, BeginRead DEF Beginning
<1>3. ASSUME NEW e \in Event, AppendEvent(e)
      PROVE  Beginning
  BY <1>3, BeginAppendEvent DEF Beginning
<1>4. ASSUME NEW s \in Solves, PendingTurn(s) \/ UpdateTurn(s) \/ LookUp(s) \/ AddTurn(s)
      PROVE  Beginning
  <2>1. CASE PendingTurn(s)
    BY <2>1, TurnEvents, BeginTurn DEF PendingTurn, Beginning
  <2>2. CASE UpdateTurn(s)
    BY <2>2, TurnEvents, BeginTurn DEF UpdateTurn, Beginning
  <2>3. CASE AddTurn(s)
    BY <2>3, TurnEvents, BeginTurn DEF AddTurn, Beginning
  <2>4. CASE LookUp(s)
    BY <2>4, BeginLookUp DEF Beginning
  <2> QED
    BY <1>4, <2>1, <2>2, <2>3, <2>4
<1>5. ASSUME ReturnRead \/ Refuse \/ (Decide /\ op' = Idle)
      PROVE  Leaves /\ op.step = "ready"
  <2>1. CASE Decide /\ op' = Idle
    BY <2>1 DEF Decide, Leaves, history
  <2> QED
    BY <1>5, <2>1, ReturnReadLeaves, RefuseLeaves
<1>6. ASSUME NEW s \in Foreign,
             ExternalAppend("checkpoints", [session |-> s, request |-> None,
                                            claimed |-> FALSE, goal |-> FALSE])
      PROVE  \E l \in Logs, d \in Record \union Event :
               /\ ExternalAppend(l, d) /\ Fits(l, Whole(d))
               /\ l = Ckpt => d.session \in Foreign
  <2>1. PICK d : d = [session |-> s, request |-> None, claimed |-> FALSE, goal |-> FALSE]
    OBVIOUS
  <2>2. d \in Record /\ d.session \in Foreign /\ "checkpoints" \in Logs
    BY <2>1 DEF Record, Logs
  <2>3. ExternalAppend("checkpoints", d) /\ Fits("checkpoints", Whole(d))
    BY <1>6, <2>1, ForeignFits
  <2> QED
    BY <2>2, <2>3
<1>7. ASSUME NEW i \in Items,
             ExternalAppend("events", [type |-> "knowledge_added", item |-> i])
      PROVE  \E l \in Logs, d \in Record \union Event :
               /\ ExternalAppend(l, d) /\ Fits(l, Whole(d))
               /\ l = Ckpt => d.session \in Foreign
  <2>1. PICK d : d = [type |-> "knowledge_added", item |-> i]
    OBVIOUS
  <2>2. d \in Event /\ "events" \in Logs /\ "events" # Ckpt
    BY <2>1 DEF Event, Logs, Ckpt
  <2>3. ExternalAppend("events", d) /\ Fits("events", Whole(d))
    BY <1>7, <2>1, ForeignFits
  <2> QED
    BY <2>2, <2>3
<1> QED
  BY <1>1, <1>2, <1>3, <1>4, <1>5, <1>6, <1>7 DEF Next

LEMMA TypesBeginning ==
  ASSUME Types, Beginning
  PROVE  Types' /\ Begins
<1>1. Begins /\ OpOK'
  BY BeginWriteCheckpoint DEF Beginning
<1> QED
  BY <1>1, TypesBegin

LEMMA TypesStutter ==
  ASSUME Types, UNCHANGED vars
  PROVE  Types'
BY DEF Types, vars, memory, history, OpOK, FilesOK, IndexOK, Live, CountersOK, SigsOK, SigOK, Inode

LEMMA TypesNext == Types /\ [Next]_vars => Types'
<1> SUFFICES ASSUME Types, [Next]_vars PROVE Types'
  OBVIOUS
<1>1. ASSUME NEW l \in Logs, NEW d \in Record \union Event, ExternalAppend(l, d), Fits(l, Whole(d))
      PROVE  Types'
  BY <1>1, TypesExternal
<1>2. CASE Next
  <2>1. CASE Beginning
    BY <2>1, TypesBeginning
  <2>2. CASE Stat \/ Load \/ Leaves \/ Decide \/ Write
    BY <2>2, TypesStat, TypesLoad, TypesLeave, TypesDecide, TypesWrite
  <2>3. CASE WriteFails \/ Commit \/ Return \/ Compact
    BY <2>3, TypesWriteFails, TypesCommit, TypesReturn, TypesCompact
  <2>4. CASE NoCompaction \/ Restat \/ Crash
    BY <2>4, TypesNoCompaction, TypesRestat, TypesCrash
  <2> QED
    BY <1>1, <1>2, <2>1, <2>2, <2>3, <2>4, NextCases
<1>3. CASE UNCHANGED vars
  BY <1>3, TypesStutter
<1> QED
  BY <1>2, <1>3

-----------------------------------------------------------------------------
(* The cells of the checkpoint log *)

LEMMA TrustedIs ==
  ASSUME Types, NEW l \in Logs
  PROVE  Trusted(l) <=> /\ sig[l] # None /\ sig[l].inode = Inode(l)
                        /\ sig[l].size = Len(file[l])
<1>1. /\ Signature(l) \in Sig /\ Signature(l) = [inode |-> Inode(l), size |-> Len(file[l])]
  BY SignatureIs
<1>2. sig[l] # None => sig[l] \in Sig
  BY DEF Types, SigsOK, SigOK
<1>3. Signature(l) # None
  BY <1>1, NoneAssumption DEF Sig
<1>4. ASSUME sig[l] # None
      PROVE  sig[l] = [inode |-> sig[l].inode, size |-> sig[l].size]
  BY <1>2, <1>4 DEF Sig
<1> QED
  BY <1>1, <1>3, <1>4 DEF Trusted

LEMMA TrustedIsNext ==
  ASSUME Types', NEW l \in Logs, Trusted(l)'
  PROVE  sig'[l] # None /\ sig'[l].inode = Inode(l)' /\ sig'[l].size = Len(file'[l])
<1>1. Len(file'[l]) \in Nat /\ Inode(l)' \in Nat
  BY DEF Types, FilesOK, Logs, CountersOK, Inode
<1>2. sig'[l] = [inode |-> Inode(l)', size |-> Len(file'[l])]
  BY DEF Trusted, Signature, Inode, Ckpt
<1>3. sig'[l] \in Sig
  BY <1>1, <1>2 DEF Sig
<1> QED
  BY <1>2, <1>3, NoneAssumption DEF Sig

LEMMA TrustedKept ==
  ASSUME NEW l \in Logs, file'[l] = file[l], sig'[l] = sig[l], inode' = inode
  PROVE  Trusted(l)' <=> Trusted(l)
BY DEF Trusted, Signature

\* A log that has grown since its index was read is not trusted.
LEMMA GrownUntrusted ==
  ASSUME Types, Types', NEW l \in Logs, sig'[l] = sig[l], inode' = inode,
         Len(file'[l]) = Len(file[l]) + 1
  PROVE  ~Trusted(l)'
<1>1. SUFFICES ASSUME Trusted(l)' PROVE FALSE
  OBVIOUS
<1>2. sig[l] # None /\ sig[l].inode = Inode(l) /\ sig[l].size = Len(file[l]) + 1
  BY <1>1, TrustedIsNext DEF Inode
<1>3. SigOK(l) /\ Len(file[l]) \in Nat
  BY DEF Types, SigsOK, FilesOK, Logs
<1> QED
  BY <1>2, <1>3 DEF SigOK

LEMMA CellsKept ==
  ASSUME file'["checkpoints"] = file["checkpoints"]
  PROVE  Cells' = Cells
BY DEF Cells, CheckpointsOf, Stored, Latest, Readable

\* A line appended to a straight log is the new content of its session's cell, unless
\* only some of its text is written.
LEMMA CellsPut ==
  ASSUME Types, Types', NEW c, Fits(Ckpt, c), Put(Ckpt, c), ~glued', Straight(file[Ckpt])
  PROVE  /\ Straight(file'[Ckpt]) /\ Len(file'[Ckpt]) = Len(file[Ckpt]) + 1
         /\ file'["events"] = file["events"] /\ ~glued
         /\ \A s \in All : Cells'[s] = IF c.cut # "text" /\ c.data.session = s THEN c.data
                                       ELSE Cells[s]
<1> PICK f : f = file[Ckpt]
  OBVIOUS
<1> PICK n : n = Len(f)
  OBVIOUS
<1>1. /\ f \in Seq([data : Record, cut : Cut]) /\ n \in Nat /\ Ckpt \in Logs /\ "events" \in Logs
      /\ c \in [data : Record, cut : Cut]
  BY DEF Types, FilesOK, Ckpt, Fits, Logs
<1>2. /\ file'[Ckpt] = Append(f, c) /\ file'["events"] = file["events"]
      /\ Len(file'[Ckpt]) = n + 1
  BY <1>1, PutFile DEF Types, CountersOK, Logs, Ckpt
<1>3. ~glued /\ ~Glues(Ckpt)
  BY DEF Put
<1>4. \A i \in 1 .. n : f[i].cut = "no"
  <2>1. \A i \in 1 .. (n - 1) : f[i].cut = "no"
    BY DEF Straight
  <2>2. n > 0 => f[n].cut = "no"
    BY <1>1, <1>3 DEF Glues
  <2> QED
    BY <1>1, <2>1, <2>2
<1>5. Straight(file'[Ckpt])
  <2>1. \A i \in 1 .. n : Append(f, c)[i] = f[i]
    BY <1>1
  <2> QED
    BY <1>1, <1>2, <1>4, <2>1 DEF Straight
<1>6. ASSUME NEW s \in All
      PROVE  Cells'[s] = IF c.cut # "text" /\ c.data.session = s THEN c.data ELSE Cells[s]
  <2>1. Cells[s] = Stored(f, s)
    BY CellIs DEF Types, Ckpt
  <2>2. Cells'[s] = Stored(Append(f, c), s)
    <3>1. Cells' = CheckpointsOf(file'["checkpoints"])
      BY DEF Cells
    <3> QED
      BY <1>2, <3>1 DEF CheckpointsOf, Ckpt, All
  <2>3. c.cut \in {"no", "newline", "text"}
    BY <1>1 DEF Cut
  <2>4. /\ c.cut \in {"no", "newline"} =>
             Stored(Append(f, c), s) = IF c.data.session = s THEN c.data ELSE Stored(f, s)
        /\ c.cut = "text" => Stored(Append(f, c), s) = Stored(f, s)
    <3>1. WholeLines(f)
      BY <1>4 DEF WholeLines
    <3>2. PICK X : f \in Seq(X) /\ c \in X
      BY <1>1
    <3> QED
      BY <3>1, <3>2, StoredAppend
  <2> QED
    BY <2>1, <2>2, <2>3, <2>4
<1> QED
  BY <1>2, <1>3, <1>5, <1>6

LEMMA PutEvents ==
  ASSUME Types, NEW c, Fits("events", c), Put("events", c)
  PROVE  /\ file'["checkpoints"] = file["checkpoints"] /\ Cells' = Cells
         /\ Len(file'["events"]) = Len(file["events"]) + 1
<1>1. /\ file'["checkpoints"] = file["checkpoints"] /\ Len(file'["events"]) = Len(file["events"]) + 1
  BY PutFile DEF Types, CountersOK, Logs
<1> QED
  BY <1>1, CellsKept

\* What a write may do to a cell.
Legit(s, d) == Fresh(d) \/ Advances(Cells[s], d) \/ Takes(Cells[s], d)

LEMMA ClaimsKept ==
  ASSUME Claims, \A s \in Sessions : Cells'[s] = Cells[s], raised \subseteq raised',
         UNCHANGED granted
  PROVE  Claims'
BY DEF Claims

LEMMA ClaimsWrite ==
  ASSUME Types, Claims, NEW s \in Sessions, NEW d \in Record, d.session = s, Legit(s, d),
         \A t \in Sessions : Cells'[t] = IF t = s THEN d ELSE Cells[t],
         UNCHANGED <<raised, granted>>
  PROVE  Claims'
<1>1. d # None
  BY NoneAssumption
<1>2. Cells[s] # None => Cells[s] \in Record
  BY CellIs DEF Types, All
<1>3. \/ Fresh(d)
      \/ /\ Cells[s] # None /\ d.request = Cells[s].request
         /\ Cells[s].claimed => d.claimed
  <2> PICK c : c = Cells[s]
    OBVIOUS
  <2>1. CASE Advances(c, d)
    <3>1. c \in Record /\ d = [c EXCEPT !.goal = TRUE]
      BY <1>2, <2>1 DEF Advances
    <3>2. d.request = c.request /\ d.claimed = c.claimed
      BY <3>1 DEF Record
    <3> QED
      BY <2>1, <3>2 DEF Advances
  <2>2. CASE Takes(c, d)
    <3>1. c \in Record /\ d = [c EXCEPT !.claimed = TRUE]
      BY <1>2, <2>2 DEF Takes
    <3>2. d.request = c.request /\ d.claimed
      BY <3>1 DEF Record
    <3> QED
      BY <2>2, <3>2 DEF Takes
  <2> QED
    BY <2>1, <2>2 DEF Legit
<1>4. CASE Fresh(d)
  <2>1. /\ ~d.claimed
        /\ d.request # None =>
             /\ d.request \in raised /\ granted[d.request] = 0
             /\ \A t \in Sessions : Cells[t] # None => Cells[t].request # d.request
    BY <1>4 DEF Fresh
  <2>2. \A t \in Sessions : Cells'[t] # None /\ Cells'[t].request # None =>
          Cells'[t].request \in raised
    BY <2>1 DEF Claims
  <2>3. \A t, u \in Sessions :
          (/\ Cells'[t] # None /\ Cells'[u] # None
           /\ Cells'[t].request = Cells'[u].request /\ Cells'[t].request # None) => t = u
    BY <2>1 DEF Claims
  <2>4. \A r \in Requests : granted[r] # 0 =>
          \A t \in Sessions : Cells'[t] # None /\ Cells'[t].request = r => Cells'[t].claimed
    BY <2>1, RequestAssumption DEF Claims
  <2>5. \A r \in Requests : granted[r] # 0 => granted[r] = 1 /\ r \in raised
    BY DEF Claims
  <2> QED
    BY <2>2, <2>3, <2>4, <2>5 DEF Claims
<1>5. CASE /\ Cells[s] # None /\ d.request = Cells[s].request
           /\ Cells[s].claimed => d.claimed
  <2>1. \A t \in Sessions : Cells'[t] # None /\ Cells'[t].request # None =>
          Cells'[t].request \in raised
    BY <1>5 DEF Claims
  <2>2. \A t, u \in Sessions :
          (/\ Cells'[t] # None /\ Cells'[u] # None
           /\ Cells'[t].request = Cells'[u].request /\ Cells'[t].request # None) => t = u
    BY <1>5 DEF Claims
  <2>3. \A r \in Requests : granted[r] # 0 =>
          \A t \in Sessions : Cells'[t] # None /\ Cells'[t].request = r => Cells'[t].claimed
    BY <1>5 DEF Claims
  <2>4. \A r \in Requests : granted[r] # 0 => granted[r] = 1 /\ r \in raised
    BY DEF Claims
  <2> QED
    BY <2>1, <2>2, <2>3, <2>4 DEF Claims
<1> QED
  BY <1>3, <1>4, <1>5

Ck == Straight(file["checkpoints"]) /\ Follows /\ InFlight /\ Claims

LEMMA CkInit == Init => Ck
<1> SUFFICES ASSUME Init PROVE Ck
  OBVIOUS
<1>1. Types
  BY TypesInit
<1>2. \A s \in All : Cells[s] = None
  <2>1. ASSUME NEW s \in All
        PROVE  Cells[s] = None
    <3>1. file["checkpoints"] = <<>> /\ Readable(<<>>) = {}
      BY DEF Init, Logs, Readable
    <3>2. Stored(<<>>, s) = None
      BY <3>1, StoredNone
    <3> QED
      BY <1>1, <3>1, <3>2, CellIs DEF Types
  <2> QED
    BY <2>1
<1>3. Straight(file["checkpoints"])
  BY DEF Init, Logs, Straight
<1>4. ~Trusted(Ckpt)
  BY <1>1, TrustedIs DEF Init, Logs, Ckpt
<1>5. Follows
  BY <1>4 DEF Init, Follows, Idle
<1>6. InFlight
  BY DEF Init, InFlight, Idle
<1>7. Claims
  BY <1>2 DEF Init, Claims, All
<1> QED
  BY <1>3, <1>5, <1>6, <1>7 DEF Ck

LEMMA CkBegin ==
  ASSUME Types, Types', Ck, Beginning
  PROVE  Ck'
<1>1. Begins /\ OpOK'
  BY TypesBeginning DEF Types
<1>2. /\ op.step = "none" /\ op'.step = "stat" /\ UNCHANGED <<file, inode, sig, index, granted, raced>>
      /\ raised \subseteq raised'
  BY <1>1 DEF Begins, Idle, memory
<1>3. Cells' = Cells
  BY <1>2, CellsKept
<1>4. Follows'
  <2>1. Trusted(Ckpt)' <=> Trusted(Ckpt)
    BY <1>2, TrustedKept DEF Logs, Ckpt
  <2> QED
    BY <1>2, <1>3, <2>1 DEF Ck, Follows, Holds
<1>5. Claims'
  BY <1>2, <1>3, ClaimsKept DEF Ck
<1>6. InFlight'
  <2>1. CASE op'.call \in {"claim", "read", "append"}
    BY <1>2, <2>1 DEF InFlight
  <2>2. ASSUME NEW s \in Sessions, NEW r \in Requests \union {None}, WriteCheckpoint(s, r)
        PROVE  InFlight'
    <3>1. /\ op'.call = "write" /\ r \notin raised /\ raised' = raised \union ({r} \ {None})
          /\ op'.data = [session |-> s, request |-> r, claimed |-> FALSE, goal |-> FALSE]
      BY <2>2, StartIs DEF WriteCheckpoint
    <3>2. ~op'.data.claimed /\ op'.data.request = r
      BY <3>1
    <3>3. r # None => r \in raised' /\ r \in Requests
      BY <3>1
    <3>4. r # None => granted[r] = 0
      BY <3>1, <3>3 DEF Ck, Claims
    <3>5. r # None => \A t \in Sessions : Cells[t] # None => Cells[t].request # r
      BY <3>1 DEF Ck, Claims
    <3>6. Fresh(op.data)'
      BY <1>2, <1>3, <3>2, <3>3, <3>4, <3>5 DEF Fresh
    <3> QED
      BY <1>2, <3>1, <3>6 DEF InFlight
  <2> QED
    BY <2>1, <2>2 DEF Beginning
<1> QED
  BY <1>2, <1>4, <1>5, <1>6 DEF Ck

\* A step of an operation before it writes.
LEMMA InFlightEarly ==
  ASSUME InFlight, op'.call = op.call, op'.data = op.data, Cells' = Cells,
         op.step \in {"stat", "load", "ready"}, op'.step \in {"stat", "load", "ready"},
         UNCHANGED <<raised, granted>>
  PROVE  InFlight'
BY DEF InFlight, Fresh

LEMMA InFlightLate ==
  ASSUME InFlight, op'.call = op.call, op'.data = op.data,
         op'.data.session \in Sessions \/ op.call \notin {"write", "grant"},
         \A s \in Sessions : Cells'[s] = Cells[s],
         op.step \in {"written", "compact", "restat"},
         op'.step \in {"written", "compact", "restat", "done"}, UNCHANGED granted
  PROVE  InFlight'
BY DEF InFlight

LEMMA CkStat ==
  ASSUME Types, Types', Ck, Stat
  PROVE  Ck'
<1>1. /\ DOMAIN op = {"step", "call", "log", "data", "at"} /\ op.step = "stat" /\ op.log \in Logs
  BY DEF Types, OpOK, Stat
<1>2. UNCHANGED <<file, inode, sig, index, raised, granted, raced>>
  BY DEF Stat, memory, history
<1>3. Cells' = Cells
  BY <1>2, CellsKept
<1>4. /\ op'.step \in {"ready", "load"} /\ op'.log = op.log /\ op'.call = op.call
      /\ op'.data = op.data /\ (op'.step = "ready" => Trusted(op.log))
  BY <1>1 DEF Stat, Trusted
<1>5. Trusted(Ckpt)' <=> Trusted(Ckpt)
  BY <1>2, TrustedKept DEF Logs, Ckpt
<1>6. Follows'
  BY <1>1, <1>2, <1>3, <1>4, <1>5 DEF Ck, Follows, Holds
<1>7. InFlight'
  BY <1>1, <1>2, <1>3, <1>4, InFlightEarly DEF Ck
<1>8. Claims'
  BY <1>2, <1>3, ClaimsKept DEF Ck
<1> QED
  BY <1>2, <1>6, <1>7, <1>8 DEF Ck

LEMMA CkLoad ==
  ASSUME Types, Types', Ck, Load
  PROVE  Ck'
<1>1. /\ op.step = "load" /\ op.log \in Logs
  BY DEF Types, OpOK, Load
<1>2. UNCHANGED <<file, inode, raised, granted, raced>>
  BY DEF Load, history
<1>3. Cells' = Cells
  BY <1>2, CellsKept
<1>4. /\ op'.step = "ready" /\ op'.log = op.log /\ op'.call = op.call /\ op'.data = op.data
  BY TypesLoad
<1>5. Follows'
  <2>1. CASE op.log = "events"
    <3>1. index' = index /\ sig'["checkpoints"] = sig["checkpoints"]
      BY <2>1 DEF Load, Types, SigsOK, Logs
    <3>2. Trusted(Ckpt)' <=> Trusted(Ckpt)
      BY <1>2, <3>1, TrustedKept DEF Logs, Ckpt
    <3> QED
      BY <1>1, <1>2, <1>3, <1>4, <2>1, <3>1, <3>2 DEF Ck, Follows, Holds, Ckpt
  <2>2. CASE op.log # "events"
    <3>1. index' = Cells
      BY <2>2 DEF Load, Cells
    <3>2. Holds(index, Sessions)' /\ Holds(index, All)'
      BY <1>3, <3>1 DEF Holds
    <3> QED
      BY <1>4, <3>2 DEF Follows
  <2> QED
    BY <2>1, <2>2
<1>6. InFlight'
  BY <1>1, <1>2, <1>3, <1>4, InFlightEarly DEF Ck
<1>7. Claims'
  BY <1>2, <1>3, ClaimsKept DEF Ck
<1> QED
  BY <1>2, <1>5, <1>6, <1>7 DEF Ck

LEMMA CkLeave ==
  ASSUME Types, Types', Ck, Leaves, op.step = "ready"
  PROVE  Ck'
<1>1. UNCHANGED <<file, inode, sig, index, raised, granted, raced>> /\ op'.step = "none"
  BY DEF Leaves, memory, Idle
<1>2. Cells' = Cells
  BY <1>1, CellsKept
<1>3. Trusted(Ckpt)' <=> Trusted(Ckpt)
  BY <1>1, TrustedKept DEF Logs, Ckpt
<1>4. Follows'
  BY <1>1, <1>2, <1>3 DEF Ck, Follows, Holds
<1>5. InFlight'
  BY <1>1 DEF InFlight
<1>6. Claims'
  BY <1>1, <1>2, ClaimsKept DEF Ck
<1> QED
  BY <1>1, <1>4, <1>5, <1>6 DEF Ck

\* The claim was decided on the record that is stored.
LEMMA CkDecide ==
  ASSUME Types, Types', Ck, Decide, op' # Idle
  PROVE  Ck'
<1>1. /\ op.step = "ready" /\ op.log = Ckpt /\ op.data.session \in Sessions
  BY DEF Types, OpOK, Decide
<1>2. UNCHANGED <<file, inode, sig, index, raised, granted, raced>>
  BY DEF Decide, memory, history
<1>3. Cells' = Cells
  BY <1>2, CellsKept
<1>4. Trusted(Ckpt)' <=> Trusted(Ckpt)
  BY <1>2, TrustedKept DEF Logs, Ckpt
<1> PICK s : s = op.data.session
  OBVIOUS
<1> PICK c : c = index[s]
  OBVIOUS
<1>5. /\ c \in Record /\ c # None /\ op'.step = "stat" /\ op'.data.session = s
      /\ op'.data \in Record
      /\ \/ op'.call = "write" /\ op'.data = [c EXCEPT !.goal = TRUE]
         \/ /\ op'.call = "grant" /\ op'.data = [c EXCEPT !.claimed = TRUE] /\ ~c.claimed
            /\ c.request \in Requests
  BY Decided
<1>6. Cells[s] = c
  BY <1>1 DEF Ck, Follows, Holds
<1>7. Follows'
  BY <1>1, <1>2, <1>3, <1>4, <1>5 DEF Ck, Follows, Holds
<1>8. InFlight'
  <2>1. CASE op'.call = "write" /\ op'.data = [c EXCEPT !.goal = TRUE]
    <3>1. Advances(Cells'[s], op'.data)
      BY <1>3, <1>5, <1>6, <2>1 DEF Advances
    <3> QED
      BY <1>5, <2>1, <3>1 DEF InFlight
  <2>2. CASE /\ op'.call = "grant" /\ op'.data = [c EXCEPT !.claimed = TRUE] /\ ~c.claimed
             /\ c.request \in Requests
    <3>1. Takes(Cells'[s], op'.data)
      BY <1>3, <1>5, <1>6, <2>2 DEF Takes
    <3>2. op'.data.request = c.request
      BY <1>5, <2>2 DEF Record
    <3>3. granted[c.request] = 0
      BY <1>1, <1>5, <1>6, <2>2 DEF Ck, Claims
    <3> QED
      BY <1>2, <1>5, <2>2, <3>1, <3>2, <3>3 DEF InFlight
  <2> QED
    BY <1>5, <2>1, <2>2
<1>9. Claims'
  BY <1>2, <1>3, ClaimsKept DEF Ck
<1> QED
  BY <1>2, <1>7, <1>8, <1>9 DEF Ck

\* The record that a write in flight puts into its cell.
LEMMA LegitInFlight ==
  ASSUME Types, Ck, Writing, op.log = Ckpt
  PROVE  /\ op.data \in Record /\ op.data.session \in Sessions /\ op.data.session \in All
         /\ op.call \in {"write", "grant"} /\ Legit(op.data.session, op.data)
<1>1. op.step = "ready" /\ op.call \in {"write", "grant"}
  BY WritingIs
<1>2. op.data \in Record /\ op.data.session \in Sessions
  BY <1>1 DEF Types, OpOK
<1>3. Legit(op.data.session, op.data)
  BY <1>1 DEF Ck, InFlight, Legit
<1> QED
  BY <1>1, <1>2, <1>3 DEF All

LEMMA CkWrite ==
  ASSUME Types, Types', Ck, Write, ~glued'
  PROVE  Ck'
<1>1. /\ op.log \in Logs /\ op.step = "ready" /\ (op.log = Ckpt <=> op.call # "append")
      /\ op.call \in {"write", "grant", "append"} /\ Fits(op.log, Whole(op.data)) /\ Writing
  BY WritingIs DEF Write, Whole, Cut
<1>2. /\ Put(op.log, Whole(op.data))
      /\ UNCHANGED <<inode, sig, index, raised, granted, raced>>
  BY DEF Write, memory
<1>3. /\ op'.step = "written" /\ op'.log = op.log /\ op'.call = op.call /\ op'.data = op.data
  BY TypesWrite
<1>4. CASE op.log = Ckpt
  <2> PICK d : d = op.data
    OBVIOUS
  <2>1. /\ d \in Record /\ d.session \in Sessions /\ d.session \in All /\ Legit(d.session, d)
        /\ op.call \in {"write", "grant"}
    BY <1>1, <1>4, LegitInFlight
  <2>2. /\ Straight(file'[Ckpt]) /\ Len(file'[Ckpt]) = Len(file[Ckpt]) + 1
        /\ \A s \in All : Cells'[s] = IF Whole(d).cut # "text" /\ Whole(d).data.session = s
                                      THEN Whole(d).data ELSE Cells[s]
    BY <1>1, <1>2, <1>4, CellsPut DEF Ck, Ckpt
  <2>3. \A s \in All : Cells'[s] = IF s = d.session THEN d ELSE Cells[s]
    BY <2>2 DEF Whole
  <2>4. /\ Holds(index, Sessions)
        /\ Trusted(Ckpt) => (~raced => Holds(index, All))
    BY <1>1, <1>4 DEF Ck, Follows
  <2>5. Holds(Written(index), Sessions)'
    BY <1>2, <1>3, <2>3, <2>4 DEF Holds, Written, All
  <2>6. ~raced' /\ sig'[Ckpt].size + 1 = Len(file'[Ckpt]) => Holds(Written(index), All)'
    <3>1. SUFFICES ASSUME ~raced', sig'[Ckpt].size + 1 = Len(file'[Ckpt])
                   PROVE  Holds(Written(index), All)'
      OBVIOUS
    <3>2. sig[Ckpt] # None /\ sig[Ckpt].inode = Inode(Ckpt) /\ sig[Ckpt].size \in Nat
      BY <1>1, <1>4 DEF Types, SigsOK, SigOK, Sig
    <3>3. Len(file[Ckpt]) \in Nat
      BY DEF Types, FilesOK, Ckpt
    <3>4. Trusted(Ckpt)
      BY <1>1, <1>2, <1>4, <2>2, <3>1, <3>2, <3>3, TrustedIs
    <3> QED
      BY <1>2, <1>3, <2>3, <2>4, <3>1, <3>4 DEF Holds, Written
  <2>7. Follows'
    BY <1>3, <1>4, <2>5, <2>6 DEF Follows
  <2>8. InFlight'
    <3>1. Cells'[op'.data.session] = op'.data
      BY <1>3, <2>1, <2>3
    <3>2. op.call = "grant" => granted[op.data.request] = 0
      BY <1>1 DEF Ck, InFlight
    <3> QED
      BY <1>2, <1>3, <3>1, <3>2 DEF InFlight
  <2>9. Claims'
    BY <1>2, <2>1, <2>3, ClaimsWrite DEF Ck, All
  <2> QED
    BY <2>2, <2>7, <2>8, <2>9 DEF Ck, Ckpt
<1>5. CASE op.log = "events"
  <2>1. file'["checkpoints"] = file["checkpoints"] /\ Cells' = Cells
    BY <1>1, <1>2, <1>5, PutEvents
  <2>2. Trusted(Ckpt)' <=> Trusted(Ckpt)
    BY <1>2, <2>1, TrustedKept DEF Logs, Ckpt
  <2>3. Follows'
    BY <1>1, <1>2, <1>3, <1>5, <2>1, <2>2 DEF Ck, Follows, Holds, Ckpt
  <2>4. InFlight'
    BY <1>1, <1>3, <1>5 DEF InFlight, Ckpt
  <2>5. Claims'
    BY <1>2, <2>1, ClaimsKept DEF Ck
  <2> QED
    BY <2>1, <2>3, <2>4, <2>5 DEF Ck
<1> QED
  BY <1>1, <1>4, <1>5 DEF Logs, Ckpt

\* Some of a line is left in the log, and no operation is under way.
LEMMA CkTorn ==
  ASSUME Types, Types', Ck, Writing, ~glued', NEW cut \in Cuts,
         Put(op.log, [data |-> op.data, cut |-> cut]), op'.step = "none",
         UNCHANGED <<raised, granted, raced>>,
         (sig' = sig /\ inode' = inode /\ index' = index) \/ ~Trusted(Ckpt)'
  PROVE  Ck'
<1> PICK c : c = [data |-> op.data, cut |-> cut]
  OBVIOUS
<1>1. /\ op.log \in Logs /\ op.step = "ready" /\ Fits(op.log, c)
  BY WritingIs
<1>2. InFlight'
  BY DEF InFlight
<1>3. CASE op.log = Ckpt
  <2> PICK d : d = op.data
    OBVIOUS
  <2>1. /\ d \in Record /\ d.session \in Sessions /\ d.session \in All /\ Legit(d.session, d)
    BY <1>3, LegitInFlight
  <2>2. /\ Straight(file'[Ckpt]) /\ Len(file'[Ckpt]) = Len(file[Ckpt]) + 1
        /\ \A s \in All : Cells'[s] = IF c.cut # "text" /\ c.data.session = s
                                      THEN c.data ELSE Cells[s]
    BY <1>1, <1>3, CellsPut DEF Ck, Ckpt
  <2>3. c.data = d
    OBVIOUS
  <2>4. ~Trusted(Ckpt)'
    BY <1>1, <1>3, <2>2, GrownUntrusted
  <2>5. Follows'
    BY <2>4 DEF Follows
  <2>6. Claims'
    <3>1. CASE c.cut = "text"
      BY <2>2, <3>1, ClaimsKept DEF Ck, All
    <3>2. CASE c.cut # "text"
      <4>1. \A s \in Sessions : Cells'[s] = IF s = d.session THEN d ELSE Cells[s]
        BY <2>2, <2>3, <3>2 DEF All
      <4> QED
        BY <2>1, <4>1, ClaimsWrite DEF Ck
    <3> QED
      BY <3>1, <3>2
  <2> QED
    BY <1>2, <2>2, <2>5, <2>6 DEF Ck, Ckpt
<1>4. CASE op.log = "events"
  <2>1. file'["checkpoints"] = file["checkpoints"] /\ Cells' = Cells
    BY <1>1, <1>4, PutEvents
  <2>2. Follows'
    <3>1. CASE sig' = sig /\ inode' = inode /\ index' = index
      <4>1. Trusted(Ckpt)' <=> Trusted(Ckpt)
        BY <2>1, <3>1, TrustedKept DEF Logs, Ckpt
      <4> QED
        BY <1>1, <2>1, <3>1, <4>1 DEF Ck, Follows, Holds
    <3>2. CASE ~Trusted(Ckpt)'
      BY <3>2 DEF Follows
    <3> QED
      BY <3>1, <3>2
  <2>3. Claims'
    BY <2>1, ClaimsKept DEF Ck
  <2> QED
    BY <1>2, <2>1, <2>2, <2>3 DEF Ck
<1> QED
  BY <1>1, <1>3, <1>4 DEF Logs, Ckpt

LEMMA CkWriteFails ==
  ASSUME Types, Types', Ck, WriteFails, ~glued'
  PROVE  Ck'
<1>1. /\ op' = Idle /\ UNCHANGED <<inode, sig, index, state, raised, granted, raced>> /\ Writing
  BY DEF WriteFails, memory
<1>2. op'.step = "none" /\ op.step = "ready"
  BY <1>1, WritingIs DEF Idle
<1>3. CASE UNCHANGED <<file, glued, writes>>
  BY <1>1, <1>2, <1>3, CkLeave DEF Leaves, memory
<1>4. CASE \E cut \in Cuts : Put(op.log, [data |-> op.data, cut |-> cut])
  <2>1. PICK cut \in Cuts : Put(op.log, [data |-> op.data, cut |-> cut])
    BY <1>4
  <2> QED
    BY <1>1, <1>2, <2>1, CkTorn
<1> QED
  BY <1>3, <1>4 DEF WriteFails

LEMMA CkCrash ==
  ASSUME Types, Types', Ck, Crash, ~glued'
  PROVE  Ck'
<1>1. /\ op' = Idle /\ UNCHANGED <<inode, raised, granted, raced>> /\ sig' = [l \in Logs |-> None]
  BY DEF Crash
<1>2. op'.step = "none"
  BY <1>1 DEF Idle
<1>3. ~Trusted(Ckpt)'
  BY <1>1, TrustedIsNext DEF Logs, Ckpt
<1>4. CASE UNCHANGED <<file, glued, writes>>
  <2>1. Cells' = Cells
    BY <1>4, CellsKept
  <2>2. Follows' /\ InFlight'
    BY <1>2, <1>3 DEF Follows, InFlight
  <2>3. Claims'
    BY <1>1, <2>1, ClaimsKept DEF Ck
  <2> QED
    BY <1>4, <2>2, <2>3 DEF Ck
<1>5. CASE Writing /\ \E cut \in Cuts : Put(op.log, [data |-> op.data, cut |-> cut])
  <2>1. PICK cut \in Cuts : Put(op.log, [data |-> op.data, cut |-> cut])
    BY <1>5
  <2> QED
    BY <1>1, <1>2, <1>3, <1>5, <2>1, CkTorn
<1> QED
  BY <1>4, <1>5 DEF Crash

\* Another process writes the cells of its own sessions.
LEMMA CkExternal ==
  ASSUME Types, Types', Ck, NEW l \in Logs, NEW d \in Record \union Event,
         ExternalAppend(l, d), Fits(l, Whole(d)), l = Ckpt => d.session \in Foreign, ~glued'
  PROVE  Ck'
<1>1. /\ Put(l, Whole(d)) /\ raced' = (raced \/ (l = "checkpoints" /\ op.step = "restat"))
      /\ UNCHANGED <<inode, sig, index, op, raised, granted>>
  BY DEF ExternalAppend, memory
<1>2. CASE l = Ckpt
  <2>1. /\ Straight(file'[Ckpt]) /\ Len(file'[Ckpt]) = Len(file[Ckpt]) + 1
        /\ \A s \in All : Cells'[s] = IF Whole(d).cut # "text" /\ Whole(d).data.session = s
                                      THEN Whole(d).data ELSE Cells[s]
    BY <1>1, <1>2, CellsPut DEF Ck, Ckpt
  <2>2. \A s \in Sessions : Cells'[s] = Cells[s]
    BY <1>2, <2>1, SessionAssumption DEF Whole, All
  <2>3. ~Trusted(Ckpt)'
    BY <1>1, <1>2, <2>1, GrownUntrusted
  <2>4. op.step = "written" /\ op.log = Ckpt => sig'[Ckpt].size + 1 # Len(file'[Ckpt])
    <3>1. SUFFICES ASSUME op.step = "written", op.log = Ckpt
                   PROVE  sig'[Ckpt].size + 1 # Len(file'[Ckpt])
      OBVIOUS
    <3>2. sig[Ckpt] # None /\ SigOK(Ckpt) /\ sig[Ckpt].size < Len(file[Ckpt]) /\ Len(file[Ckpt]) \in Nat
      BY <3>1 DEF Types, SigsOK, FilesOK, Logs, Ckpt
    <3> QED
      BY <1>1, <2>1, <3>2 DEF SigOK, Sig
  <2>5. Follows'
    <3>1. op'.step \in {"ready", "compact", "restat", "done"} /\ op'.log = Ckpt =>
            Holds(index, Sessions)'
      BY <1>1, <2>2 DEF Ck, Follows, Holds
    <3>2. op'.step = "written" /\ op'.log = Ckpt => Holds(Written(index), Sessions)'
      <4>1. \A s \in Sessions : Written(index)'[s] = Written(index)[s]
        BY <1>1 DEF Written
      <4> QED
        BY <1>1, <2>2, <4>1 DEF Ck, Follows, Holds
    <3>3. op'.step = "restat" => raced'
      BY <1>1, <1>2 DEF Ckpt
    <3> QED
      BY <1>1, <2>3, <2>4, <3>1, <3>2, <3>3 DEF Follows
  <2>6. InFlight'
    <3>1. op.step # "none" /\ op.call \in {"write", "grant"} => op.data.session \in Sessions
      BY DEF Types, OpOK
    <3>2. ASSUME Fresh(op.data)
          PROVE  Fresh(op.data)'
      BY <1>1, <2>2, <3>2 DEF Fresh
    <3> QED
      BY <1>1, <2>2, <3>1, <3>2 DEF Ck, InFlight
  <2>7. Claims'
    BY <1>1, <2>2, ClaimsKept DEF Ck
  <2> QED
    BY <2>1, <2>5, <2>6, <2>7 DEF Ck, Ckpt
<1>3. CASE l = "events"
  <2>1. file'["checkpoints"] = file["checkpoints"] /\ Cells' = Cells
    BY <1>1, <1>3, PutEvents
  <2>2. Trusted(Ckpt)' <=> Trusted(Ckpt)
    BY <1>1, <2>1, TrustedKept DEF Logs, Ckpt
  <2>3. raced' = raced
    BY <1>1, <1>3 DEF Types, CountersOK
  <2>4. Follows'
    BY <1>1, <2>1, <2>2, <2>3 DEF Ck, Follows, Holds, Written, Ckpt
  <2>5. InFlight'
    BY <1>1, <2>1 DEF Ck, InFlight, Fresh
  <2>6. Claims'
    BY <1>1, <2>1, ClaimsKept DEF Ck
  <2> QED
    BY <2>1, <2>4, <2>5, <2>6 DEF Ck
<1> QED
  BY <1>2, <1>3 DEF Logs, Ckpt

LEMMA CkCommit ==
  ASSUME Types, Types', Ck, Commit
  PROVE  Ck'
<1>1. /\ op.step = "written" /\ op.log \in Logs /\ op'.log = op.log /\ op'.call = op.call
      /\ op'.data = op.data /\ op'.step \in {"compact", "done"}
      /\ (op'.step = "compact" => op.log = Ckpt)
      /\ sig'[op.log] = [inode |-> Inode(op.log), size |-> sig[op.log].size + 1]
      /\ \A l \in Logs \ {op.log} : sig'[l] = sig[l]
  BY CommitIs
<1>2. UNCHANGED <<file, inode, raised, granted, raced>>
  BY DEF Commit, history
<1>3. Cells' = Cells
  BY <1>2, CellsKept
<1>4. Claims'
  BY <1>2, <1>3, ClaimsKept DEF Ck
<1>5. InFlight'
  <2>1. op.call \in {"write", "grant"} => op.data.session \in Sessions
    BY <1>1 DEF Types, OpOK
  <2> QED
    BY <1>1, <1>2, <1>3, <2>1, InFlightLate DEF Ck
<1>6. Follows'
  <2>1. CASE op.log = Ckpt
    <3>1. index' = [index EXCEPT ![op.data.session] = op.data]
      BY <2>1 DEF Commit, Ckpt
    <3>2. \A s \in All : index'[s] = Written(index)[s]
      BY <3>1 DEF Types, IndexOK, Written
    <3>3. Holds(index, Sessions)'
      BY <1>1, <1>3, <2>1, <3>2 DEF Ck, Follows, Holds, All
    <3>4. Trusted(Ckpt)' /\ ~raced' => Holds(index, All)'
      <4>1. SUFFICES ASSUME Trusted(Ckpt)', ~raced' PROVE Holds(index, All)'
        OBVIOUS
      <4>2. sig'[Ckpt].size = Len(file[Ckpt])
        BY <1>2, <4>1, TrustedIsNext DEF Logs, Ckpt
      <4>3. sig[Ckpt].size + 1 = Len(file[Ckpt])
        BY <1>1, <2>1, <4>2
      <4> QED
        BY <1>1, <1>2, <1>3, <2>1, <3>2, <4>1, <4>3 DEF Ck, Follows, Holds
    <3> QED
      BY <1>1, <3>3, <3>4 DEF Follows
  <2>2. CASE op.log = "events"
    <3>1. index' = index /\ sig'[Ckpt] = sig[Ckpt]
      BY <1>1, <2>2 DEF Commit, Logs, Ckpt
    <3>2. Trusted(Ckpt)' <=> Trusted(Ckpt)
      BY <1>2, <3>1, TrustedKept DEF Logs, Ckpt
    <3> QED
      BY <1>1, <1>2, <1>3, <2>2, <3>1, <3>2 DEF Ck, Follows, Holds, Ckpt
  <2> QED
    BY <1>1, <2>1, <2>2 DEF Logs, Ckpt
<1> QED
  BY <1>2, <1>4, <1>5, <1>6 DEF Ck

\* The grant is counted while its record is the only one of its request.
LEMMA CkReturn ==
  ASSUME Types, Types', Ck, Return
  PROVE  Ck'
<1>1. op.step = "done" /\ op' = Idle /\ UNCHANGED <<file, inode, sig, index, raised, raced>>
  BY DEF Return, memory
<1>2. op'.step = "none" /\ Cells' = Cells
  BY <1>1, CellsKept DEF Idle
<1>3. Follows'
  <2>1. Trusted(Ckpt)' <=> Trusted(Ckpt)
    BY <1>1, TrustedKept DEF Logs, Ckpt
  <2> QED
    BY <1>1, <1>2, <2>1 DEF Ck, Follows, Holds
<1>4. InFlight'
  BY <1>2 DEF InFlight
<1>5. Claims'
  <2>1. CASE op.call = "grant"
    <3> PICK r : r = op.data.request
      OBVIOUS
    <3> PICK s : s = op.data.session
      OBVIOUS
    <3>1. /\ r \in Requests /\ s \in Sessions /\ op.data.claimed /\ op.data \in Record
      BY <1>1, <2>1 DEF Types, OpOK
    <3>2. Cells[s] = op.data /\ granted[r] = 0
      BY <1>1, <2>1 DEF Ck, InFlight
    <3>3. granted' = [granted EXCEPT ![r] = granted[r] + 1]
      BY <2>1 DEF Return
    <3>4. granted'[r] = 1 /\ \A q \in Requests \ {r} : granted'[q] = granted[q]
      BY <3>1, <3>2, <3>3 DEF Types, CountersOK
    <3>5. op.data # None /\ r # None
      BY <3>1, NoneAssumption, RequestAssumption
    <3>6. r \in raised
      BY <3>1, <3>2, <3>5 DEF Ck, Claims
    <3>7. \A t \in Sessions : Cells[t] # None /\ Cells[t].request = r => Cells[t].claimed
      <4>1. ASSUME NEW t \in Sessions, Cells[t] # None, Cells[t].request = r
            PROVE  Cells[t].claimed
        <5>1. t = s
          BY <3>1, <3>2, <3>5, <4>1 DEF Ck, Claims
        <5> QED
          BY <3>1, <3>2, <5>1
      <4> QED
        BY <4>1
    <3>8. \A q \in Requests : granted'[q] # 0 =>
            /\ granted'[q] = 1 /\ q \in raised
            /\ \A t \in Sessions : Cells[t] # None /\ Cells[t].request = q => Cells[t].claimed
      BY <3>4, <3>6, <3>7 DEF Ck, Claims
    <3> QED
      BY <1>1, <1>2, <3>8 DEF Ck, Claims
  <2>2. CASE op.call # "grant"
    BY <1>1, <1>2, <2>2, ClaimsKept DEF Ck, Return
  <2> QED
    BY <2>1, <2>2
<1> QED
  BY <1>1, <1>3, <1>4, <1>5 DEF Ck

\* Compaction leaves the cells of the server's own sessions alone.
LEMMA CompactCells ==
  ASSUME Types, Ck, Compact
  PROVE  /\ \A s \in All : Cells'[s] = index[s]
         /\ \A s \in Sessions : Cells'[s] = Cells[s]
<1>1. /\ op.step = "compact" /\ op.log = Ckpt
      /\ \A s \in All : Stored(file'["checkpoints"], s) = index[s]
  BY CompactIs
<1>2. \A s \in All : Cells'[s] = index[s]
  BY <1>1 DEF Cells, CheckpointsOf, All
<1>3. \A s \in Sessions : index[s] = Cells[s]
  BY <1>1 DEF Ck, Follows, Holds
<1> QED
  BY <1>2, <1>3 DEF All

LEMMA CkCompact ==
  ASSUME Types, Types', Ck, Compact
  PROVE  Ck'
<1>1. /\ op.step = "compact" /\ op'.step = "restat" /\ op'.log = Ckpt /\ op.log = Ckpt
      /\ op'.call = op.call /\ op'.data = op.data
      /\ \A i \in 1 .. Len(file'["checkpoints"]) : file'["checkpoints"][i].cut = "no"
      /\ UNCHANGED <<sig, index, raised, granted, raced>>
  BY CompactIs
<1>2. /\ \A s \in All : Cells'[s] = index[s]
      /\ \A s \in Sessions : Cells'[s] = Cells[s]
  BY CompactCells
<1>3. Straight(file'["checkpoints"])
  BY <1>1 DEF Straight, Types, FilesOK
<1>4. Follows'
  BY <1>1, <1>2 DEF Follows, Holds, All
<1>5. InFlight'
  <2>1. op.call \in {"write", "grant"} => op.data.session \in Sessions
    BY <1>1 DEF Types, OpOK
  <2> QED
    BY <1>1, <1>2, <2>1, InFlightLate DEF Ck
<1>6. Claims'
  BY <1>1, <1>2, ClaimsKept DEF Ck
<1> QED
  BY <1>3, <1>4, <1>5, <1>6 DEF Ck

LEMMA CkNoCompaction ==
  ASSUME Types, Types', Ck, NoCompaction
  PROVE  Ck'
<1>1. /\ op'.step = "done" /\ op'.log = op.log /\ op'.call = op.call /\ op'.data = op.data
      /\ op.step = "compact" /\ op.log = Ckpt
  BY TypesNoCompaction
<1>2. UNCHANGED <<file, inode, sig, index, raised, granted, raced>>
  BY DEF NoCompaction, memory, history
<1>3. Cells' = Cells
  BY <1>2, CellsKept
<1>4. Trusted(Ckpt)' <=> Trusted(Ckpt)
  BY <1>2, TrustedKept DEF Logs, Ckpt
<1>5. Follows'
  BY <1>1, <1>2, <1>3, <1>4 DEF Ck, Follows, Holds
<1>6. InFlight'
  <2>1. op.call \in {"write", "grant"} => op.data.session \in Sessions
    BY <1>1 DEF Types, OpOK
  <2> QED
    BY <1>1, <1>2, <1>3, <2>1, InFlightLate DEF Ck
<1>7. Claims'
  BY <1>2, <1>3, ClaimsKept DEF Ck
<1> QED
  BY <1>2, <1>5, <1>6, <1>7 DEF Ck

LEMMA CkRestat ==
  ASSUME Types, Types', Ck, Restat
  PROVE  Ck'
<1>1. /\ op'.step = "done" /\ op'.log = op.log /\ op'.call = op.call /\ op'.data = op.data
      /\ op.step = "restat" /\ op.log = Ckpt
  BY TypesRestat
<1>2. UNCHANGED <<file, inode, index, raised, granted, raced>>
  BY DEF Restat, history
<1>3. Cells' = Cells
  BY <1>2, CellsKept
<1>4. Follows'
  BY <1>1, <1>2, <1>3 DEF Ck, Follows, Holds
<1>5. InFlight'
  <2>1. op.call \in {"write", "grant"} => op.data.session \in Sessions
    BY <1>1 DEF Types, OpOK
  <2> QED
    BY <1>1, <1>2, <1>3, <2>1, InFlightLate DEF Ck
<1>6. Claims'
  BY <1>2, <1>3, ClaimsKept DEF Ck
<1> QED
  BY <1>2, <1>4, <1>5, <1>6 DEF Ck

LEMMA CkStutter ==
  ASSUME Types, Ck, UNCHANGED vars
  PROVE  Ck'
<1>1. UNCHANGED <<file, inode, sig, index, op, raised, granted, raced>>
  BY DEF vars, memory, history
<1>2. Cells' = Cells
  BY <1>1, CellsKept
<1>3. Trusted(Ckpt)' <=> Trusted(Ckpt)
  BY <1>1, TrustedKept DEF Logs, Ckpt
<1>4. Follows'
  BY <1>1, <1>2, <1>3 DEF Ck, Follows, Holds, Written
<1>5. InFlight'
  BY <1>1, <1>2 DEF Ck, InFlight, Fresh
<1>6. Claims'
  BY <1>1, <1>2, ClaimsKept DEF Ck
<1> QED
  BY <1>1, <1>4, <1>5, <1>6 DEF Ck

\* A log never stops being glued.
LEMMA GluedStays ==
  ASSUME [Next]_vars, glued
  PROVE  glued'
<1>1. CASE Next
  <2>1. ASSUME NEW l, NEW c, Put(l, c) PROVE glued'
    BY <2>1 DEF Put
  <2>2. ASSUME NEW s, NEW r, WriteCheckpoint(s, r) \/ Claim(s, r) PROVE glued'
    BY <2>2 DEF WriteCheckpoint, Claim, history
  <2>3. ASSUME NEW l, Read(l) PROVE glued'
    BY <2>3 DEF Read, history
  <2>4. ASSUME NEW e, AppendEvent(e) PROVE glued'
    BY <2>4 DEF AppendEvent, history
  <2>5. ASSUME NEW s, PendingTurn(s) \/ UpdateTurn(s) \/ LookUp(s) \/ AddTurn(s) PROVE glued'
    BY <2>5 DEF PendingTurn, UpdateTurn, LookUp, AddTurn, Turn, history
  <2>6. CASE Stat \/ Load \/ ReturnRead \/ Decide \/ Refuse
    BY <2>6 DEF Stat, Load, ReturnRead, Decide, Refuse, history
  <2>7. CASE Commit \/ Return \/ Compact \/ NoCompaction \/ Restat
    BY <2>7 DEF Commit, Return, Compact, NoCompaction, Restat, history
  <2>8. CASE Write \/ WriteFails \/ Crash
    BY <2>1, <2>8 DEF Write, WriteFails, Crash
  <2>9. ASSUME NEW l, NEW d, ExternalAppend(l, d) PROVE glued'
    BY <2>1, <2>9 DEF ExternalAppend
  <2> QED
    BY <1>1, <2>2, <2>3, <2>4, <2>5, <2>6, <2>7, <2>8, <2>9 DEF Next
<1>2. CASE UNCHANGED vars
  BY <1>2 DEF vars, history
<1> QED
  BY <1>1, <1>2

LEMMA CheckpointNext == Types /\ Types' /\ CheckpointInv /\ [Next]_vars => CheckpointInv'
<1> SUFFICES ASSUME Types, Types', CheckpointInv, [Next]_vars, ~glued'
             PROVE  Ck'
  BY DEF CheckpointInv, Ck
<1>1. ~glued
  BY GluedStays
<1>2. Ck
  BY <1>1 DEF CheckpointInv, Ck
<1>3. ASSUME NEW l \in Logs, NEW d \in Record \union Event, ExternalAppend(l, d),
             Fits(l, Whole(d)), l = Ckpt => d.session \in Foreign
      PROVE  Ck'
  BY <1>2, <1>3, CkExternal
<1>4. CASE Next
  <2>1. CASE Beginning
    BY <1>2, <2>1, CkBegin
  <2>2. CASE Stat \/ Load \/ (Leaves /\ op.step = "ready") \/ (Decide /\ op' # Idle)
    BY <1>2, <2>2, CkStat, CkLoad, CkLeave, CkDecide
  <2>3. CASE Write \/ WriteFails \/ Commit \/ Return
    BY <1>2, <2>3, CkWrite, CkWriteFails, CkCommit, CkReturn
  <2>4. CASE Compact \/ NoCompaction \/ Restat \/ Crash
    BY <1>2, <2>4, CkCompact, CkNoCompaction, CkRestat, CkCrash
  <2> QED
    BY <1>3, <1>4, <2>1, <2>2, <2>3, <2>4, NextCases
<1>5. CASE UNCHANGED vars
  BY <1>2, <1>5, CkStutter
<1> QED
  BY <1>4, <1>5

\* The store's state has its types, and a signature never stands for more than its file
\* holds, whatever was written, cut, rewritten or lost in between.
THEOREM TypesAlways == Spec => []Types
<1> QED
  BY TypesInit, TypesNext, PTL DEF Spec

\* While no record shares a line with a cut one, the index that an operation has checked
\* holds the cells of the server's own sessions, the write in flight is a legal change of
\* its session's cell, and a granted request is claimed wherever it is stored.
THEOREM CheckpointAlways == Spec => []CheckpointInv
<1>1. Init => CheckpointInv
  BY CkInit DEF CheckpointInv, Ck
<1> QED
  BY <1>1, CheckpointNext, TypesAlways, PTL DEF Spec

\* A decision or an action is claimed once, whoever else appends to the log, however often
\* it is compacted and wherever the server dies, as long as no line was cut.
THEOREM ClaimsAreOnce == Spec => []UncutClaimsAreOnce
<1>1. Types /\ CheckpointInv => UncutClaimsAreOnce
  BY DEF Types, CountersOK, CheckpointInv, Claims, UncutClaimsAreOnce
<1> QED
  BY <1>1, TypesAlways, CheckpointAlways, PTL

\* A cell changes by the write of the operation under way; a claim is a compare-and-set.
Rewritten(old, new) ==
  new # old =>
    /\ new = op.data /\ writes' = writes + 1
    /\ new.claimed => /\ old # None /\ old.request = new.request
                      /\ old.claimed => new = [old EXCEPT !.goal = TRUE]
CellSteps == \A s \in Sessions : Rewritten(Cells[s], Cells'[s])

LEMMA CellStepsKept ==
  ASSUME file'["checkpoints"] = file["checkpoints"]
  PROVE  CellSteps
<1>1. Cells' = Cells
  BY CellsKept
<1> QED
  BY <1>1 DEF CellSteps, Rewritten

LEMMA CellStepsPut ==
  ASSUME Types, Types', Ck, Writing, ~glued', NEW cut \in Cut,
         Put(op.log, [data |-> op.data, cut |-> cut])
  PROVE  CellSteps
<1> PICK c : c = [data |-> op.data, cut |-> cut]
  OBVIOUS
<1>1. /\ op.log \in Logs /\ op.step = "ready" /\ Fits(op.log, c) /\ Put(op.log, c)
  BY WritingIs
<1>2. CASE op.log = Ckpt
  <2> PICK d : d = op.data
    OBVIOUS
  <2>1. /\ d \in Record /\ d.session \in Sessions /\ d.session \in All /\ Legit(d.session, d)
    BY <1>2, LegitInFlight
  <2>2. \A s \in All : Cells'[s] = IF c.cut # "text" /\ c.data.session = s
                                   THEN c.data ELSE Cells[s]
    BY <1>1, <1>2, CellsPut DEF Ck, Ckpt
  <2>3. c.data = d /\ writes' = writes + 1
    BY <1>1 DEF Put
  <2>4. ASSUME NEW s \in Sessions, Cells'[s] # Cells[s]
        PROVE  /\ Cells'[s] = d
               /\ d.claimed => /\ Cells[s] # None /\ Cells[s].request = d.request
                               /\ Cells[s].claimed => d = [Cells[s] EXCEPT !.goal = TRUE]
    <3> PICK old : old = Cells[s]
      OBVIOUS
    <3>1. s = d.session /\ Cells'[s] = d
      BY <2>2, <2>3, <2>4 DEF All
    <3>2. old # None => old \in Record
      BY CellIs DEF Types, All
    <3>3. CASE Fresh(d)
      BY <3>1, <3>3 DEF Fresh
    <3>4. CASE Advances(old, d)
      <4>1. old # None /\ d = [old EXCEPT !.goal = TRUE]
        BY <3>4 DEF Advances
      <4>2. d.request = old.request
        BY <3>2, <4>1 DEF Record
      <4> QED
        BY <3>1, <4>1, <4>2
    <3>5. CASE Takes(old, d)
      <4>1. old # None /\ d = [old EXCEPT !.claimed = TRUE] /\ ~old.claimed
        BY <3>5 DEF Takes
      <4>2. d.request = old.request
        BY <3>2, <4>1 DEF Record
      <4> QED
        BY <3>1, <4>1, <4>2
    <3> QED
      BY <2>1, <3>1, <3>3, <3>4, <3>5 DEF Legit
  <2> QED
    BY <2>3, <2>4 DEF CellSteps, Rewritten
<1>3. CASE op.log = "events"
  BY <1>1, <1>3, PutEvents, CellStepsKept
<1> QED
  BY <1>1, <1>2, <1>3 DEF Logs, Ckpt

LEMMA CellStepsTorn ==
  ASSUME Types, Types', Ck, Writing, ~glued',
         \E cut \in Cuts : Put(op.log, [data |-> op.data, cut |-> cut])
  PROVE  CellSteps
<1>1. PICK cut \in Cuts : Put(op.log, [data |-> op.data, cut |-> cut])
  OBVIOUS
<1>2. cut \in Cut
  BY CutAssumption DEF Cut
<1> QED
  BY <1>1, <1>2, CellStepsPut

LEMMA CellStepsExternal ==
  ASSUME Types, Types', Ck, NEW l \in Logs, NEW d \in Record \union Event,
         ExternalAppend(l, d), Fits(l, Whole(d)), l = Ckpt => d.session \in Foreign, ~glued'
  PROVE  CellSteps
<1>1. Put(l, Whole(d))
  BY DEF ExternalAppend
<1>2. CASE l = Ckpt
  <2>1. \A s \in All : Cells'[s] = IF Whole(d).cut # "text" /\ Whole(d).data.session = s
                                   THEN Whole(d).data ELSE Cells[s]
    BY <1>1, <1>2, CellsPut DEF Ck, Ckpt
  <2>2. \A s \in Sessions : Cells'[s] = Cells[s]
    BY <1>2, <2>1, SessionAssumption DEF Whole, All
  <2> QED
    BY <2>2 DEF CellSteps, Rewritten
<1>3. CASE l = "events"
  BY <1>1, <1>3, PutEvents, CellStepsKept
<1> QED
  BY <1>2, <1>3 DEF Logs, Ckpt

LEMMA CellStepsNext ==
  ASSUME Types, Types', CheckpointInv, [Next]_vars, ~glued'
  PROVE  CellSteps
<1>1. Ck
  BY GluedStays DEF CheckpointInv, Ck
<1>2. ASSUME NEW l \in Logs, NEW d \in Record \union Event, ExternalAppend(l, d),
             Fits(l, Whole(d)), l = Ckpt => d.session \in Foreign
      PROVE  CellSteps
  BY <1>1, <1>2, CellStepsExternal
<1>3. CASE Next
  <2>1. CASE Beginning
    BY <2>1, TypesBeginning, CellStepsKept DEF Begins
  <2>2. CASE Stat \/ Load \/ Leaves \/ Decide \/ Commit \/ Return \/ NoCompaction \/ Restat
    <3>1. file' = file
      BY <2>2 DEF Stat, Load, Leaves, Decide, Commit, Return, NoCompaction, Restat
    <3> QED
      BY <3>1, CellStepsKept
  <2>3. CASE Write
    <3>1. Writing /\ Put(op.log, [data |-> op.data, cut |-> "no"]) /\ "no" \in Cut
      BY <2>3 DEF Write, Whole, Cut
    <3> QED
      BY <1>1, <3>1, CellStepsPut
  <2>4. CASE WriteFails \/ Crash
    <3>1. file' = file \/ (Writing /\ \E cut \in Cuts : Put(op.log, [data |-> op.data, cut |-> cut]))
      BY <2>4 DEF WriteFails, Crash
    <3> QED
      BY <1>1, <3>1, CellStepsKept, CellStepsTorn
  <2>5. CASE Compact
    BY <1>1, <2>5, CompactCells DEF CellSteps, Rewritten
  <2> QED
    BY <1>2, <1>3, <2>1, <2>2, <2>3, <2>4, <2>5, NextCases
<1>4. CASE UNCHANGED vars
  BY <1>4, CellStepsKept DEF vars
<1> QED
  BY <1>3, <1>4

\* The checkpoint log is one cell per session of this server: compaction, reloads, crashes
\* and the appends of other processes leave it alone; only the write of the operation under
\* way changes it, and a claim is a compare-and-set of what is stored.
THEOREM CellsOnly == Spec => CheckpointsAreCells
<1>1. Types /\ Types' /\ CheckpointInv /\ [Next]_vars =>
        [\A s \in Sessions : ~glued' => CellStep(s)]_vars
  <2> HAVE Types /\ Types' /\ CheckpointInv /\ [Next]_vars
  <2>1. \A s \in Sessions : /\ Cells[s] = Stored(file["checkpoints"], s)
                            /\ Cells'[s] = Stored(file["checkpoints"], s)'
    BY DEF Cells, CheckpointsOf, All
  <2>2. ~glued' => CellSteps
    BY CellStepsNext
  <2> QED
    BY <2>1, <2>2 DEF CellSteps, Rewritten, CellStep
<1> QED
  BY <1>1, TypesAlways, CheckpointAlways, PTL DEF Spec, CheckpointsAreCells

-----------------------------------------------------------------------------
(* The replay of the event log *)

LEMMA ReplayKept ==
  ASSUME file'["events"] = file["events"]
  PROVE  Replay' = Replay
BY DEF Replay

\* A line appended to a straight log applies its event, unless only some of its text is
\* written.
LEMMA ReplayPut ==
  ASSUME Types, Types', NEW c, Fits("events", c), Put("events", c), ~glued',
         Straight(file["events"])
  PROVE  /\ Straight(file'["events"]) /\ Len(file'["events"]) = Len(file["events"]) + 1
         /\ file'["events"] = Append(file["events"], c) /\ WholeLines(file["events"])
         /\ file'["checkpoints"] = file["checkpoints"] /\ ~glued
         /\ Replay' = IF c.cut = "text" THEN Replay ELSE Apply(Replay, c.data)
<1> PICK f : f = file["events"]
  OBVIOUS
<1> PICK n : n = Len(f)
  OBVIOUS
<1>1. /\ f \in Seq([data : Event, cut : Cut]) /\ n \in Nat /\ "events" \in Logs
      /\ "checkpoints" \in Logs /\ c \in [data : Event, cut : Cut]
  BY DEF Types, FilesOK, Fits, Logs, Ckpt
<1>2. /\ file'["events"] = Append(f, c) /\ file'["checkpoints"] = file["checkpoints"]
      /\ Len(file'["events"]) = n + 1
  BY <1>1, PutFile DEF Types, CountersOK, Logs
<1>3. ~glued /\ ~Glues("events")
  BY DEF Put
<1>4. \A i \in 1 .. n : f[i].cut = "no"
  <2>1. \A i \in 1 .. (n - 1) : f[i].cut = "no"
    BY DEF Straight
  <2>2. n > 0 => f[n].cut = "no"
    BY <1>1, <1>3 DEF Glues
  <2> QED
    BY <1>1, <2>1, <2>2
<1>5. Straight(file'["events"])
  <2>1. \A i \in 1 .. n : Append(f, c)[i] = f[i]
    BY <1>1
  <2> QED
    BY <1>1, <1>2, <1>4, <2>1 DEF Straight
<1>6. WholeLines(f)
  BY <1>4 DEF WholeLines
<1>7. Replay' = IF c.cut = "text" THEN Replay ELSE Apply(Replay, c.data)
  <2>1. Replay = EventsOf(f) /\ Replay' = EventsOf(Append(f, c))
    BY <1>2 DEF Replay
  <2>2. PICK X : f \in Seq(X) /\ c \in X
    BY <1>1
  <2>3. /\ c.cut \in {"no", "newline"} => EventsOf(Append(f, c)) = Apply(EventsOf(f), c.data)
        /\ c.cut = "text" => EventsOf(Append(f, c)) = EventsOf(f)
    BY <1>6, <2>2, EventsOfAppend
  <2>4. c.cut \in {"no", "newline", "text"}
    BY <1>1 DEF Cut
  <2> QED
    BY <2>1, <2>3, <2>4
<1> QED
  BY <1>2, <1>3, <1>5, <1>6, <1>7

Ev == Straight(file["events"]) /\ EventsFollow
Applying == op.step = "written" /\ op.log = "events"

LEMMA EvInit == Init => Ev
<1> SUFFICES ASSUME Init PROVE Ev
  OBVIOUS
<1>1. ~Trusted("events")
  BY TypesInit, TrustedIs DEF Init, Logs
<1> QED
  BY <1>1 DEF Init, Ev, EventsFollow, Straight, Idle, Logs

LEMMA EvKept ==
  ASSUME Ev, file'["events"] = file["events"], sig'["events"] = sig["events"], state' = state,
         (~Applying /\ ~Applying') \/ op' = op
  PROVE  Ev'
<1>1. Replay' = Replay
  BY ReplayKept
<1>2. Trusted("events")' <=> Trusted("events")
  BY DEF Trusted, Signature
<1> QED
  BY <1>1, <1>2 DEF Ev, EventsFollow, Applying

LEMMA EvUntrusted ==
  ASSUME Types', ~Trusted("events")', Straight(file'["events"]), ~Applying'
  PROVE  Ev'
BY DEF Ev, EventsFollow, Applying

LEMMA EvLoad ==
  ASSUME Types, Types', Ev, Load
  PROVE  Ev'
<1>1. /\ op.step = "load" /\ op.log \in Logs /\ op'.step = "ready" /\ op'.log = op.log
  BY TypesLoad DEF Types, OpOK, Load
<1>2. UNCHANGED file
  BY DEF Load
<1>3. CASE op.log = "events"
  <2>1. state' = Replay /\ Replay' = Replay
    BY <1>2, <1>3, ReplayKept DEF Load, Replay
  <2> QED
    BY <1>1, <1>2, <2>1 DEF Ev, EventsFollow
<1>4. CASE op.log # "events"
  BY <1>1, <1>2, <1>4, EvKept DEF Load, Types, SigsOK, Logs, Applying
<1> QED
  BY <1>3, <1>4

LEMMA EvWrite ==
  ASSUME Types, Types', Ev, Write, ~glued'
  PROVE  Ev'
<1>1. /\ op.log \in Logs /\ op.step = "ready" /\ Fits(op.log, Whole(op.data))
  BY WritingIs DEF Write, Whole, Cut
<1>2. Put(op.log, Whole(op.data)) /\ UNCHANGED <<inode, sig, state>>
  BY DEF Write, memory
<1>3. op'.step = "written" /\ op'.log = op.log /\ op'.data = op.data
  BY TypesWrite
<1>4. CASE op.log = "events"
  <2>1. /\ Straight(file'["events"]) /\ Len(file'["events"]) = Len(file["events"]) + 1
        /\ Replay' = IF Whole(op.data).cut = "text" THEN Replay
                     ELSE Apply(Replay, Whole(op.data).data)
    BY <1>1, <1>2, <1>4, ReplayPut DEF Ev
  <2>2. Replay' = Apply(Replay, op.data)
    BY <2>1 DEF Whole
  <2>3. ASSUME sig'["events"].size + 1 = Len(file'["events"])
        PROVE  Apply(state', op'.data) = Replay'
    <3>1. sig["events"] # None /\ sig["events"].inode = Inode("events") /\ sig["events"].size \in Nat
      BY <1>1, <1>4 DEF Types, SigsOK, SigOK, Sig
    <3>2. Len(file["events"]) \in Nat
      BY DEF Types, FilesOK
    <3>3. Trusted("events")
      BY <1>1, <1>2, <1>4, <2>1, <2>3, <3>1, <3>2, TrustedIs
    <3> QED
      BY <1>1, <1>2, <1>3, <2>2, <3>3 DEF Ev, EventsFollow
  <2> QED
    BY <1>3, <1>4, <2>1, <2>3 DEF Ev, EventsFollow
<1>5. CASE op.log = Ckpt
  <2>1. file'["events"] = file["events"]
    BY <1>1, <1>2, <1>5, PutFile DEF Types, CountersOK, Logs, Ckpt
  <2> QED
    BY <1>1, <1>2, <1>3, <1>5, <2>1, EvKept DEF Applying, Ckpt
<1> QED
  BY <1>1, <1>4, <1>5 DEF Logs, Ckpt

LEMMA EvTorn ==
  ASSUME Types, Types', Ev, Writing, ~glued',
         \E cut \in Cuts : Put(op.log, [data |-> op.data, cut |-> cut]), op'.step = "none",
         (sig' = sig /\ inode' = inode /\ state' = state) \/ ~Trusted("events")'
  PROVE  Ev'
<1>1. PICK cut \in Cuts : Put(op.log, [data |-> op.data, cut |-> cut])
  OBVIOUS
<1> PICK c : c = [data |-> op.data, cut |-> cut]
  OBVIOUS
<1>2. /\ op.log \in Logs /\ op.step = "ready" /\ Fits(op.log, c)
  BY WritingIs
<1>3. CASE op.log = "events"
  <2>1. Straight(file'["events"]) /\ Len(file'["events"]) = Len(file["events"]) + 1
    BY <1>1, <1>2, <1>3, ReplayPut DEF Ev
  <2>2. ~Trusted("events")'
    BY <1>2, <1>3, <2>1, GrownUntrusted
  <2> QED
    BY <2>1, <2>2, EvUntrusted DEF Applying
<1>4. CASE op.log = Ckpt
  <2>1. file'["events"] = file["events"]
    BY <1>1, <1>2, <1>4, PutFile DEF Types, CountersOK, Logs, Ckpt
  <2>2. CASE sig' = sig /\ inode' = inode /\ state' = state
    BY <1>2, <1>4, <2>1, <2>2, EvKept DEF Applying, Ckpt
  <2>3. CASE ~Trusted("events")'
    BY <2>1, <2>3, EvUntrusted DEF Applying, Ev
  <2> QED
    BY <2>2, <2>3
<1> QED
  BY <1>2, <1>3, <1>4 DEF Logs, Ckpt

LEMMA EvWriteFails ==
  ASSUME Types, Types', Ev, WriteFails, ~glued'
  PROVE  Ev'
<1>1. /\ op' = Idle /\ UNCHANGED <<inode, sig, state>> /\ Writing
  BY DEF WriteFails, memory
<1>2. op'.step = "none" /\ op.step = "ready"
  BY <1>1, WritingIs DEF Idle
<1>3. CASE UNCHANGED <<file, glued, writes>>
  BY <1>1, <1>2, <1>3, EvKept DEF Applying
<1>4. CASE \E cut \in Cuts : Put(op.log, [data |-> op.data, cut |-> cut])
  BY <1>1, <1>2, <1>4, EvTorn
<1> QED
  BY <1>3, <1>4 DEF WriteFails

LEMMA EvCrash ==
  ASSUME Types, Types', Ev, Crash, ~glued'
  PROVE  Ev'
<1>1. /\ op' = Idle /\ sig' = [l \in Logs |-> None]
  BY DEF Crash
<1>2. op'.step = "none"
  BY <1>1 DEF Idle
<1>3. ~Trusted("events")'
  BY <1>1, TrustedIsNext DEF Logs
<1>4. CASE UNCHANGED <<file, glued, writes>>
  BY <1>2, <1>3, <1>4, EvUntrusted DEF Applying, Ev
<1>5. CASE Writing /\ \E cut \in Cuts : Put(op.log, [data |-> op.data, cut |-> cut])
  BY <1>2, <1>3, <1>5, EvTorn
<1> QED
  BY <1>4, <1>5 DEF Crash

LEMMA EvCommit ==
  ASSUME Types, Types', Ev, Commit
  PROVE  Ev'
<1>1. /\ op.step = "written" /\ op.log \in Logs /\ op'.log = op.log
      /\ op'.data = op.data /\ op'.step \in {"compact", "done"}
      /\ sig'[op.log] = [inode |-> Inode(op.log), size |-> sig[op.log].size + 1]
      /\ \A l \in Logs \ {op.log} : sig'[l] = sig[l]
  BY CommitIs
<1>2. UNCHANGED file
  BY DEF Commit
<1>3. CASE op.log = "events"
  <2>1. state' = Apply(state, op.data) /\ Replay' = Replay
    BY <1>2, <1>3, ReplayKept DEF Commit
  <2>2. ASSUME Trusted("events")'
        PROVE  state' = Replay'
    <3>1. sig'["events"].size = Len(file["events"])
      BY <1>2, <2>2, TrustedIsNext DEF Logs
    <3>2. sig["events"].size + 1 = Len(file["events"])
      BY <1>1, <1>3, <3>1
    <3> QED
      BY <1>1, <1>3, <2>1, <3>2 DEF Ev, EventsFollow
  <2> QED
    BY <1>1, <1>2, <2>2 DEF Ev, EventsFollow
<1>4. CASE op.log # "events"
  <2>1. sig'["events"] = sig["events"] /\ state' = state
    BY <1>1, <1>4 DEF Commit, Logs
  <2> QED
    BY <1>1, <1>2, <1>4, <2>1, EvKept DEF Applying
<1> QED
  BY <1>3, <1>4

LEMMA EvExternal ==
  ASSUME Types, Types', Ev, NEW l \in Logs, NEW d \in Record \union Event,
         ExternalAppend(l, d), Fits(l, Whole(d)), ~glued'
  PROVE  Ev'
<1>1. Put(l, Whole(d)) /\ UNCHANGED <<inode, sig, state, op>>
  BY DEF ExternalAppend, memory
<1>2. CASE l = "events"
  <2>1. Straight(file'["events"]) /\ Len(file'["events"]) = Len(file["events"]) + 1
    BY <1>1, <1>2, ReplayPut DEF Ev
  <2>2. ~Trusted("events")'
    BY <1>1, <1>2, <2>1, GrownUntrusted
  <2>3. Applying => sig'["events"].size + 1 # Len(file'["events"])
    <3>1. SUFFICES ASSUME Applying
                   PROVE  sig'["events"].size + 1 # Len(file'["events"])
      OBVIOUS
    <3>2. /\ sig["events"] # None /\ SigOK("events") /\ sig["events"].size < Len(file["events"])
          /\ Len(file["events"]) \in Nat
      BY <3>1 DEF Types, SigsOK, FilesOK, Logs, Applying
    <3> QED
      BY <1>1, <2>1, <3>2 DEF SigOK, Sig
  <2> QED
    BY <1>1, <2>1, <2>2, <2>3 DEF Ev, EventsFollow, Applying
<1>3. CASE l = Ckpt
  <2>1. file'["events"] = file["events"]
    BY <1>1, <1>3, PutFile DEF Types, CountersOK, Logs, Ckpt
  <2> QED
    BY <1>1, <2>1, EvKept
<1> QED
  BY <1>2, <1>3 DEF Logs, Ckpt

LEMMA EventNext == Types /\ Types' /\ EventInv /\ [Next]_vars => EventInv'
<1> SUFFICES ASSUME Types, Types', EventInv, [Next]_vars, ~glued'
             PROVE  Ev'
  BY DEF EventInv, Ev
<1>1. Ev
  BY GluedStays DEF EventInv, Ev
<1>2. ASSUME NEW l \in Logs, NEW d \in Record \union Event, ExternalAppend(l, d), Fits(l, Whole(d))
      PROVE  Ev'
  BY <1>1, <1>2, EvExternal
<1>3. CASE Next
  <2>1. CASE Beginning
    <3>1. Begins
      BY <2>1, TypesBeginning
    <3> QED
      BY <1>1, <3>1, EvKept DEF Begins, memory, Idle, Applying
  <2>2. CASE Stat
    <3>1. op.step = "stat" /\ op'.step \in {"ready", "load"}
      BY <2>2 DEF Stat, Types, OpOK
    <3> QED
      BY <1>1, <2>2, <3>1, EvKept DEF Stat, memory, Applying
  <2>3. CASE Leaves /\ op.step = "ready"
    BY <1>1, <2>3, EvKept DEF Leaves, memory, Idle, Applying
  <2>4. CASE Decide /\ op' # Idle
    <3>1. op.step = "ready" /\ op'.step = "stat"
      BY <2>4, Decided DEF Decide
    <3> QED
      BY <1>1, <2>4, <3>1, EvKept DEF Decide, memory, Applying
  <2>5. CASE Return
    BY <1>1, <2>5, EvKept DEF Return, memory, Idle, Applying
  <2>6. CASE Compact
    <3>1. op.step = "compact" /\ op'.step = "restat" /\ file'["events"] = file["events"]
      BY <2>6, CompactIs
    <3> QED
      BY <1>1, <2>6, <3>1, EvKept DEF Compact, memory, Applying
  <2>7. CASE NoCompaction
    <3>1. op.step = "compact" /\ op'.step = "done"
      BY <2>7, TypesNoCompaction
    <3> QED
      BY <1>1, <2>7, <3>1, EvKept DEF NoCompaction, memory, Applying
  <2>8. CASE Restat
    <3>1. op.step = "restat" /\ op'.step = "done" /\ sig'["events"] = sig["events"]
      BY <2>8, TypesRestat DEF Restat, Types, SigsOK, Logs
    <3> QED
      BY <1>1, <2>8, <3>1, EvKept DEF Restat, Applying
  <2>9. CASE Load \/ Write \/ WriteFails \/ Commit \/ Crash
    BY <1>1, <2>9, EvLoad, EvWrite, EvWriteFails, EvCommit, EvCrash
  <2> QED
    BY <1>2, <1>3, <2>1, <2>2, <2>3, <2>4, <2>5, <2>6, <2>7, <2>8, <2>9, NextCases
<1>4. CASE UNCHANGED vars
  BY <1>1, <1>4, EvKept DEF vars, memory
<1> QED
  BY <1>3, <1>4

\* While no record shares a line with a cut one, only the last line of the event log may be
\* cut, and the project's index is the replay of the log whenever its signature fits.
THEOREM EventsAlways == Spec => []EventInv
<1>1. Init => EventInv
  BY EvInit DEF EventInv, Ev
<1> QED
  BY <1>1, EventNext, TypesAlways, PTL DEF Spec

\* An index that is trusted is what reading its log again would build, whoever wrote the log
\* and whatever failed: an append of another process between a stat and a write shows in the
\* next comparison, as the signature after a write is the expected one.
THEOREM IndexesReplay == Spec => []IndexIsReplay
<1>1. Types /\ CheckpointInv /\ EventInv => IndexIsReplay
  <2> SUFFICES ASSUME Types, CheckpointInv, EventInv, ~glued, ~raced
               PROVE  /\ Trusted("events") => state = EventsOf(file["events"])
                      /\ Trusted("checkpoints") => index = CheckpointsOf(file["checkpoints"])
    BY DEF IndexIsReplay
  <2>1. ASSUME NEW l \in Logs, Trusted(l)
        PROVE  ~(op.step = "written" /\ op.log = l)
    <3>1. sig[l] # None /\ sig[l].size = Len(file[l]) /\ Len(file[l]) \in Nat
      BY <2>1, TrustedIs DEF Types, FilesOK, Logs
    <3> QED
      BY <3>1 DEF Types, SigsOK
  <2>2. Trusted("events") => state = Replay
    BY <2>1 DEF EventInv, EventsFollow, Logs
  <2>3. Trusted(Ckpt) => index = Cells
    <3>1. Trusted(Ckpt) => Holds(index, All)
      BY <2>1 DEF CheckpointInv, Follows, Logs, Ckpt
    <3> QED
      BY <3>1 DEF Types, IndexOK, Holds, Cells, CheckpointsOf, All
  <2> QED
    BY <2>2, <2>3 DEF Replay, Cells, Ckpt
<1> QED
  BY <1>1, TypesAlways, CheckpointAlways, EventsAlways, PTL

-----------------------------------------------------------------------------
(* The turns of a solve *)

\* What an event does to the rows of the project.
LEMMA ApplyIs ==
  ASSUME NEW st, DOMAIN st = DOMAIN NoProject, NEW e \in Event
  PROVE  /\ DOMAIN Apply(st, e) = DOMAIN NoProject
         /\ Apply(st, e).turns =
              IF e.type = "turn" THEN st.turns \union {TurnRow(e.solve, e.answered, e.answered)}
              ELSE IF e.type = "turn_updated" THEN Answered(st.turns, e.solve)
              ELSE IF e.type = "conversation_deleted" THEN {}
              ELSE st.turns
<1>1. DOMAIN st = {"project", "starred", "turns", "facts", "review", "resolved"}
  BY DEF NoProject
<1>2. e.type \in {"project_saved", "conversation_deleted", "starred", "turn", "turn_updated",
                  "knowledge_added", "knowledge_updated", "knowledge_deleted",
                  "review_item_added", "review_item_resolved"}
  BY DEF Event
<1>3. CASE e.type \in {"project_saved", "starred", "turn", "turn_updated", "conversation_deleted"}
  BY <1>1, <1>3 DEF Apply, NoProject, TurnRow
<1>4. CASE e.type \in {"knowledge_added", "knowledge_updated", "knowledge_deleted"}
  BY <1>1, <1>4 DEF Apply, NoProject
<1>5. CASE e.type = "review_item_added"
  BY <1>1, <1>5 DEF Apply, NoProject
<1>6. CASE e.type = "review_item_resolved"
  BY <1>1, <1>6 DEF Apply, NoProject
<1> QED
  BY <1>2, <1>3, <1>4, <1>5, <1>6

LEMMA AwaitsInit == Init => Awaits
BY DEF Init, Awaits, Phases, Idle

Waiting == {"opening", "updating", "looking", "adding"}

\* Nobody waits for an operation while none is under way.
LEMMA NobodyWaits ==
  ASSUME Awaits, op.step = "none"
  PROVE  \A s \in Solves : solve[s] \in Phases \ Waiting
BY DEF Awaits, Waiting, Phases

\* An operation of no solve begins.
LEMMA AwaitsOther ==
  ASSUME Awaits, op.step = "none", solve' = solve,
         op'.step # "none" /\ op'.call = "append" => op'.data.type \notin {"turn", "turn_updated"}
  PROVE  Awaits'
<1>1. \A s \in Solves : solve[s] \in Phases \ Waiting
  BY NobodyWaits
<1> QED
  BY <1>1 DEF Awaits, Waiting

\* An operation goes on.
LEMMA AwaitsOn ==
  ASSUME Awaits, solve' = solve, op.step # "none", op'.step # "none", op'.call = op.call,
         op'.log = op.log, op'.data = op.data
  PROVE  Awaits'
BY DEF Awaits

\* No solve waits any more.
LEMMA AwaitsNone ==
  ASSUME solve' \in [Solves -> Phases \ Waiting], op'.step = "none"
  PROVE  Awaits'
BY DEF Awaits, Waiting

LEMMA EndsIs ==
  ASSUME Awaits, NEW ok \in BOOLEAN, Ends(ok)
  PROVE  /\ solve' \in [Solves -> Phases \ Waiting]
         /\ \A s \in Solves : solve[s] \notin Waiting => solve'[s] = solve[s]
         /\ \A s \in Solves : solve[s] = "opening" => solve'[s] = IF ok THEN "open" ELSE "none"
         /\ \A s \in Solves : solve[s] = "updating" => solve'[s] = IF ok THEN "updated" ELSE "missing"
         /\ \A s \in Solves : solve[s] = "adding" => solve'[s] = IF ok THEN "kept" ELSE "failed"
         /\ \A s \in Solves : solve[s] = "looking" =>
              solve'[s] = IF \E t \in state.turns : t.solve = s THEN "kept" ELSE "missing"
BY DEF Awaits, Ends, Waiting, Phases

LEMMA AwaitsEnds ==
  ASSUME Awaits, NEW ok \in BOOLEAN, Ends(ok), op' = Idle
  PROVE  Awaits'
BY EndsIs, AwaitsNone DEF Idle

LEMMA AwaitsTurn ==
  ASSUME Types, Awaits, NEW s \in Solves, PendingTurn(s) \/ UpdateTurn(s) \/ AddTurn(s)
  PROVE  Awaits'
<1>1. op.step = "none"
  BY DEF PendingTurn, UpdateTurn, AddTurn, Turn, MayStart, Idle
<1>2. \A t \in Solves : solve[t] \in Phases \ Waiting
  BY <1>1, NobodyWaits
<1>3. DOMAIN solve = Solves /\ solve \in [Solves -> Phases]
  BY DEF Awaits
<1>4. CASE PendingTurn(s)
  <2>1. /\ solve' = [solve EXCEPT ![s] = "opening"] /\ op'.step = "stat" /\ op'.call = "append"
        /\ op'.data = [type |-> "turn", solve |-> s, answered |-> FALSE]
    BY <1>4, StartIs DEF PendingTurn, Turn
  <2>2. op'.data.type = "turn" /\ op'.data.solve = s /\ op'.data.answered = FALSE
    BY <2>1
  <2>3. \A t \in Solves : solve'[t] = IF t = s THEN "opening" ELSE solve[t]
    BY <1>3, <2>1
  <2>4. solve' \in [Solves -> Phases]
    BY <1>3, <2>1 DEF Phases
  <2> QED
    BY <1>2, <2>1, <2>2, <2>3, <2>4 DEF Awaits, Waiting
<1>5. CASE UpdateTurn(s)
  <2>1. /\ solve' = [solve EXCEPT ![s] = "updating"] /\ op'.step = "stat" /\ op'.call = "append"
        /\ op'.data = [type |-> "turn_updated", solve |-> s]
    BY <1>5, StartIs DEF UpdateTurn, Turn
  <2>2. op'.data.type = "turn_updated" /\ op'.data.solve = s
    BY <2>1
  <2>3. \A t \in Solves : solve'[t] = IF t = s THEN "updating" ELSE solve[t]
    BY <1>3, <2>1
  <2>4. solve' \in [Solves -> Phases]
    BY <1>3, <2>1 DEF Phases
  <2> QED
    BY <1>2, <2>1, <2>2, <2>3, <2>4 DEF Awaits, Waiting
<1>6. CASE AddTurn(s)
  <2>1. /\ solve' = [solve EXCEPT ![s] = "adding"] /\ op'.step = "stat" /\ op'.call = "append"
        /\ op'.data = [type |-> "turn", solve |-> s, answered |-> TRUE]
    BY <1>6, StartIs DEF AddTurn, Turn
  <2>2. op'.data.type = "turn" /\ op'.data.solve = s /\ op'.data.answered = TRUE
    BY <2>1
  <2>3. \A t \in Solves : solve'[t] = IF t = s THEN "adding" ELSE solve[t]
    BY <1>3, <2>1
  <2>4. solve' \in [Solves -> Phases]
    BY <1>3, <2>1 DEF Phases
  <2> QED
    BY <1>2, <2>1, <2>2, <2>3, <2>4 DEF Awaits, Waiting
<1> QED
  BY <1>4, <1>5, <1>6

LEMMA AwaitsLookUp ==
  ASSUME Types, Awaits, NEW s \in Solves, LookUp(s)
  PROVE  Awaits'
<1>1. op.step = "none"
  BY DEF LookUp, MayStart, Idle
<1>2. \A t \in Solves : solve[t] \in Phases \ Waiting
  BY <1>1, NobodyWaits
<1>3. solve' = [solve EXCEPT ![s] = "looking"]
  BY DEF LookUp
<1>4. /\ op'.step = "stat" /\ op'.call = "read" /\ op'.log = "events" /\ op'.data = s
  BY StartIs DEF LookUp
<1>5. solve \in [Solves -> Phases]
  BY DEF Awaits
<1>6. \A t \in Solves : solve'[t] = IF t = s THEN "looking" ELSE solve[t]
  BY <1>3, <1>5
<1>7. solve' \in [Solves -> Phases]
  BY <1>3, <1>5 DEF Phases
<1> QED
  BY <1>2, <1>4, <1>6, <1>7 DEF Awaits, Waiting

\* A refused event and a claim belong to no solve.
LEMMA AwaitsRefused ==
  ASSUME Types, Awaits, Refuse \/ Decide
  PROVE  /\ \A s \in Solves : solve[s] \in Phases \ Waiting
         /\ solve' = solve
         /\ op'.step # "none" => op'.call # "append"
<1>1. CASE Refuse
  <2>1. op.step = "ready" /\ op.call = "append" /\ ~Accepts(state, op.data) /\ op' = Idle /\ solve' = solve
    BY <1>1 DEF Refuse
  <2>2. op.data.type \notin {"turn", "turn_updated"}
    BY <2>1 DEF Accepts
  <2>3. ASSUME NEW s \in Solves
        PROVE  solve[s] \in Phases \ Waiting
    <3>1. solve[s] = "looking" => op.call = "read"
      BY DEF Awaits
    <3>2. solve[s] = "opening" => op.data = [type |-> "turn", solve |-> s, answered |-> FALSE]
      BY DEF Awaits
    <3>3. solve[s] = "adding" => op.data = [type |-> "turn", solve |-> s, answered |-> TRUE]
      BY DEF Awaits
    <3>4. solve[s] = "updating" => op.data = [type |-> "turn_updated", solve |-> s]
      BY DEF Awaits
    <3>5. solve[s] \notin {"opening", "adding", "updating"}
      BY <2>2, <3>2, <3>3, <3>4
    <3> QED
      BY <2>1, <3>1, <3>5 DEF Awaits, Waiting
  <2> QED
    BY <2>1, <2>3 DEF Idle
<1>2. CASE Decide
  <2>1. op.step = "ready" /\ op.call = "claim" /\ solve' = solve
    BY <1>2 DEF Decide
  <2>2. \A s \in Solves : solve[s] \in Phases \ Waiting
    BY <2>1 DEF Awaits, Waiting
  <2>3. op'.step # "none" => op'.call # "append"
    <3>1. CASE op' = Idle
      BY <3>1 DEF Idle
    <3>2. CASE op' # Idle
      <4>1. op'.call = "write" \/ op'.call = "grant"
        BY <1>2, <3>2, Decided
      <4> QED
        BY <4>1
    <3> QED
      BY <3>1, <3>2
  <2> QED
    BY <2>1, <2>2, <2>3
<1> QED
  BY <1>1, <1>2

LEMMA AwaitsSame ==
  ASSUME Awaits, UNCHANGED <<op, solve>>
  PROVE  Awaits'
BY DEF Awaits

\* An operation that goes on, by its action.
Goes == /\ solve' = solve /\ op.step # "none" /\ op'.step # "none" /\ op'.call = op.call
        /\ op'.log = op.log /\ op'.data = op.data
LEMMA GoesOn ==
  ASSUME Types, Stat \/ Load \/ Write \/ Commit \/ Compact \/ NoCompaction \/ Restat
  PROVE  Goes
<1>1. CASE Stat
  BY <1>1 DEF Stat, Types, OpOK, Goes
<1>2. CASE Load
  BY <1>2, TypesLoad DEF Load, Goes
<1>3. CASE Write
  BY <1>3, TypesWrite DEF Write, Writing, Goes
<1>4. CASE Commit
  BY <1>4, CommitIs DEF Commit, Goes
<1>5. CASE Compact
  BY <1>5, CompactIs DEF Compact, Goes
<1>6. CASE NoCompaction
  BY <1>6, TypesNoCompaction DEF NoCompaction, Goes
<1>7. CASE Restat
  BY <1>7, TypesRestat DEF Restat, Goes
<1> QED
  BY <1>1, <1>2, <1>3, <1>4, <1>5, <1>6, <1>7

LEMMA CrashedSolves ==
  ASSUME Awaits, Crash
  PROVE  /\ solve' \in [Solves -> Phases \ Waiting] /\ op'.step = "none"
         /\ \A s \in Solves : solve'[s] = "failed" \/ (/\ solve[s] \in {"none", "kept"}
                                                       /\ solve'[s] = solve[s])
BY DEF Crash, Awaits, Waiting, Phases, Idle

LEMMA AwaitsNext == Types /\ Awaits /\ [Next]_vars => Awaits'
<1> SUFFICES ASSUME Types, Awaits, [Next]_vars PROVE Awaits'
  OBVIOUS
<1>1. ASSUME NEW s \in Sessions, NEW r \in Requests \union {None}, WriteCheckpoint(s, r) \/ Claim(s, r)
      PROVE  Awaits'
  <2>1. op.step = "none" /\ solve' = solve
    BY <1>1 DEF WriteCheckpoint, Claim, MayStart, Idle
  <2>2. op'.call \in {"write", "claim"}
    BY <1>1, StartIs DEF WriteCheckpoint, Claim
  <2> QED
    BY <2>1, <2>2, AwaitsOther
<1>2. ASSUME NEW l \in Logs, Read(l)
      PROVE  Awaits'
  <2>1. op.step = "none" /\ solve' = solve /\ op'.call = "read"
    BY <1>2, StartIs DEF Read, MayStart, Idle
  <2> QED
    BY <2>1, AwaitsOther
<1>3. ASSUME NEW e \in Event, AppendEvent(e)
      PROVE  Awaits'
  <2>1. op.step = "none" /\ solve' = solve /\ op'.data = e /\ e.type \notin {"turn", "turn_updated"}
    BY <1>3, StartIs DEF AppendEvent, MayStart, Idle
  <2> QED
    BY <2>1, AwaitsOther
<1>4. ASSUME NEW s \in Solves, PendingTurn(s) \/ UpdateTurn(s) \/ LookUp(s) \/ AddTurn(s)
      PROVE  Awaits'
  BY <1>4, AwaitsTurn, AwaitsLookUp
<1>5. CASE Stat \/ Load \/ Write \/ Commit \/ Compact \/ NoCompaction \/ Restat
  BY <1>5, GoesOn, AwaitsOn DEF Goes
<1>6. CASE Decide \/ Refuse
  BY <1>6, AwaitsRefused DEF Awaits, Waiting
<1>7. CASE ReturnRead \/ Return
  BY <1>7, AwaitsEnds DEF ReturnRead, Return
<1>8. CASE WriteFails
  BY <1>8, AwaitsEnds DEF WriteFails
<1>9. CASE Crash
  BY <1>9, CrashedSolves, AwaitsNone
<1>10. ASSUME NEW l, NEW d, ExternalAppend(l, d)
       PROVE  Awaits'
  BY <1>10, AwaitsSame DEF ExternalAppend
<1>11. CASE UNCHANGED vars
  BY <1>11, AwaitsSame DEF vars
<1> QED
  BY <1>1, <1>2, <1>3, <1>4, <1>5, <1>6, <1>7, <1>8, <1>9, <1>10, <1>11 DEF Next

\* A line after the deletion of a conversation leaves it deleted, unless it is a turn's.
LEMMA DeletedPut ==
  ASSUME Types, NEW c, Fits("events", c), WholeLines(file["events"]),
         file'["events"] = Append(file["events"], c), NEW s
  PROVE  /\ (IsDeleted(s) /\ (c.cut # "text" /\ c.data.type \in {"turn", "turn_updated"} => c.data.solve # s))
              => IsDeleted(s)'
         /\ (c.cut # "text" /\ c.data.type = "conversation_deleted") => IsDeleted(s)'
<1> PICK f : f = file["events"]
  OBVIOUS
<1> PICK g : g = Append(f, c)
  OBVIOUS
<1> PICK n : n = Len(f)
  OBVIOUS
<1>1. PICK X : f \in Seq(X) /\ c \in X
  <2>1. f \in Seq([data : Event, cut : Cut]) /\ c \in [data : Event, cut : Cut]
    BY DEF Types, FilesOK, Fits, Ckpt
  <2> QED
    BY <2>1
<1>2. c.cut \in {"no", "newline", "text"}
  BY DEF Fits, Cut
<1>3. /\ Readable(f) = 1 .. n /\ n \in Nat
      /\ c.cut # "text" => Readable(g) = 1 .. (n + 1)
      /\ c.cut = "text" => Readable(g) = 1 .. n
      /\ g[n + 1] = c /\ \A i \in 1 .. n : g[i] = f[i]
  BY <1>1, <1>2, ReadableWhole, ReadableAppend
<1>4. file'["events"] = g
  OBVIOUS
<1>5. ASSUME c.cut # "text", c.data.type = "conversation_deleted"
      PROVE  IsDeleted(s)'
  <2>1. n + 1 \in Readable(g) /\ g[n + 1].data.type = "conversation_deleted"
    BY <1>3, <1>5
  <2>2. \A i \in Readable(g) : g[i].data.type \in {"turn", "turn_updated"} => i < n + 1
    BY <1>3, <1>5
  <2> QED
    BY <1>4, <2>1, <2>2 DEF IsDeleted
<1>6. ASSUME IsDeleted(s), c.cut # "text" /\ c.data.type \in {"turn", "turn_updated"} => c.data.solve # s
      PROVE  IsDeleted(s)'
  <2>1. PICK d \in Readable(f) :
               /\ f[d].data.type = "conversation_deleted"
               /\ \A i \in Readable(f) : (/\ f[i].data.type \in {"turn", "turn_updated"}
                                          /\ f[i].data.solve = s) => i < d
    BY <1>6 DEF IsDeleted
  <2>2. d \in Readable(g) /\ g[d].data.type = "conversation_deleted"
    BY <1>3, <2>1
  <2>3. ASSUME NEW i \in Readable(g), g[i].data.type \in {"turn", "turn_updated"}, g[i].data.solve = s
        PROVE  i < d
    <3>1. CASE i \in 1 .. n
      BY <1>3, <2>1, <2>3, <3>1
    <3>2. CASE i = n + 1
      BY <1>3, <1>6, <2>3, <3>2
    <3> QED
      BY <1>3, <2>3, <3>1, <3>2
  <2> QED
    BY <1>4, <2>2, <2>3 DEF IsDeleted
<1> QED
  BY <1>5, <1>6

\* Answering the rows of a solve.
AreRows(T) == T \subseteq Row
LEMMA AnsweredIs ==
  ASSUME NEW T, AreRows(T), NEW u \in Solves
  PROVE  /\ Answered(T, u) \subseteq Row
         /\ \A s \in Solves \ {u} : RowsOf(Answered(T, u), s) = RowsOf(T, s)
         /\ RowsOf(T, u) \subseteq {TurnRow(u, FALSE, FALSE)} =>
              RowsOf(Answered(T, u), u) \subseteq {TurnRow(u, FALSE, TRUE)}
<1> DEFINE A(t) == IF t.solve = u /\ ~t.extra THEN [t EXCEPT !.answered = TRUE] ELSE t
<1>1. ASSUME NEW t \in Row
      PROVE  /\ A(t) \in Row /\ A(t).solve = t.solve
             /\ t.solve # u => A(t) = t
             /\ t = TurnRow(u, FALSE, FALSE) => A(t) = TurnRow(u, FALSE, TRUE)
  <2>1. t.solve = u /\ ~t.extra => A(t) = [solve |-> u, extra |-> t.extra, answered |-> TRUE]
    BY DEF Row
  <2>2. t.solve \in Solves /\ t.extra \in BOOLEAN /\ t.answered \in BOOLEAN
    BY DEF Row
  <2>3. t = TurnRow(u, FALSE, FALSE) => t.solve = u /\ ~t.extra
    BY DEF TurnRow
  <2>4. CASE t.solve = u /\ ~t.extra
    <3> PICK r : r = [solve |-> u, extra |-> t.extra, answered |-> TRUE]
      OBVIOUS
    <3>1. A(t) = r
      BY <2>1, <2>4
    <3>2. r \in Row /\ r.solve = u
      BY <2>2 DEF Row
    <3>3. t = TurnRow(u, FALSE, FALSE) => r = TurnRow(u, FALSE, TRUE)
      BY DEF TurnRow
    <3> HIDE DEF A
    <3> QED
      BY <2>4, <3>1, <3>2, <3>3
  <2>5. CASE ~(t.solve = u /\ ~t.extra)
    <3>1. A(t) = t
      BY <2>5
    <3> HIDE DEF A
    <3> QED
      BY <2>3, <2>5, <3>1
  <2> QED
    BY <2>4, <2>5
<1>2. Answered(T, u) = {A(t) : t \in T}
  BY DEF Answered
<1> HIDE DEF A
<1> USE DEF AreRows
<1>3. Answered(T, u) \subseteq Row
  BY <1>1, <1>2
<1>4. ASSUME NEW s \in Solves \ {u}
      PROVE  RowsOf(Answered(T, u), s) = RowsOf(T, s)
  <2>1. \A t \in T : A(t).solve = s => A(t) = t
    BY <1>1
  <2>2. \A t \in T : t.solve = s => A(t) = t
    BY <1>1
  <2> QED
    BY <1>2, <2>1, <2>2 DEF RowsOf
<1>5. ASSUME RowsOf(T, u) \subseteq {TurnRow(u, FALSE, FALSE)}
      PROVE  RowsOf(Answered(T, u), u) \subseteq {TurnRow(u, FALSE, TRUE)}
  <2>1. \A t \in T : A(t).solve = u => t = TurnRow(u, FALSE, FALSE)
    BY <1>1, <1>5 DEF RowsOf
  <2>2. \A t \in T : A(t).solve = u => A(t) = TurnRow(u, FALSE, TRUE)
    BY <1>1, <2>1
  <2> QED
    BY <1>2, <2>2 DEF RowsOf
<1> QED
  BY <1>3, <1>4, <1>5

\* What a line appended to the event log does to the rows of a solve.
LEMMA TurnsPut ==
  ASSUME Types, Types', NEW c, Fits("events", c), Put("events", c), ~glued',
         Straight(file["events"]), ReplayOK
  PROVE  /\ ReplayOK'
         /\ c.cut = "text" \/ c.data.type \notin {"turn", "turn_updated", "conversation_deleted"} =>
              Replay'.turns = Replay.turns
         /\ c.cut # "text" /\ c.data.type = "conversation_deleted" =>
              \A s \in Solves : Turns(s)' = {}
         /\ c.cut # "text" /\ c.data.type = "turn" =>
              \A s \in Solves : Turns(s)' =
                IF c.data.solve = s THEN Turns(s) \union {TurnRow(s, c.data.answered, c.data.answered)}
                ELSE Turns(s)
         /\ c.cut # "text" /\ c.data.type = "turn_updated" =>
              \A s \in Solves :
                /\ c.data.solve # s => Turns(s)' = Turns(s)
                /\ (c.data.solve = s /\ Turns(s) \subseteq {TurnRow(s, FALSE, FALSE)}) =>
                     Turns(s)' \subseteq {TurnRow(s, FALSE, TRUE)}
<1> PICK e : e = c.data
  OBVIOUS
<1>1. /\ e \in Event
      /\ e.type = "turn" => e.solve \in Solves /\ e.answered \in BOOLEAN
      /\ e.type = "turn_updated" => e.solve \in Solves
  <2>1. e \in Event
    BY DEF Fits, Ckpt
  <2> QED
    BY <2>1 DEF Event
<1>2. Replay' = IF c.cut = "text" THEN Replay ELSE Apply(Replay, e)
  BY ReplayPut
<1>3. DOMAIN Replay = DOMAIN NoProject /\ Replay.turns \subseteq Row
  BY DEF ReplayOK
<1>4. /\ DOMAIN Apply(Replay, e) = DOMAIN NoProject
      /\ Apply(Replay, e).turns =
           IF e.type = "turn" THEN Replay.turns \union {TurnRow(e.solve, e.answered, e.answered)}
           ELSE IF e.type = "turn_updated" THEN Answered(Replay.turns, e.solve)
           ELSE IF e.type = "conversation_deleted" THEN {}
           ELSE Replay.turns
  BY <1>1, <1>3, ApplyIs
<1> PICK T : T = Replay.turns
  OBVIOUS
<1> PICK T2 : T2 = Replay'.turns
  OBVIOUS
<1>5. T2 = IF c.cut = "text" THEN T
           ELSE IF e.type = "turn" THEN T \union {TurnRow(e.solve, e.answered, e.answered)}
           ELSE IF e.type = "turn_updated" THEN Answered(T, e.solve)
           ELSE IF e.type = "conversation_deleted" THEN {}
           ELSE T
  BY <1>2, <1>4
<1>6. \A s \in Solves : Turns(s) = RowsOf(T, s) /\ Turns(s)' = RowsOf(T2, s)
  BY DEF Turns
<1>7. T \subseteq Row
  BY <1>3
<1>8. e.type = "turn" => \A x \in {e.answered} : TurnRow(e.solve, x, x) \in Row /\ TurnRow(e.solve, x, x).solve = e.solve
  BY <1>1 DEF Row, TurnRow
<1>9. T2 \subseteq Row
  BY <1>1, <1>5, <1>7, <1>8, AnsweredIs DEF AreRows
<1>10. ReplayOK'
  BY <1>2, <1>3, <1>4, <1>9 DEF ReplayOK, NoProject
<1>11. ASSUME c.cut # "text", e.type = "turn", NEW s \in Solves
       PROVE  Turns(s)' = IF e.solve = s THEN Turns(s) \union {TurnRow(s, e.answered, e.answered)}
                          ELSE Turns(s)
  BY <1>5, <1>6, <1>8, <1>11 DEF RowsOf
<1>12. ASSUME c.cut # "text", e.type = "turn_updated", NEW s \in Solves
       PROVE  /\ e.solve # s => Turns(s)' = Turns(s)
              /\ (e.solve = s /\ Turns(s) \subseteq {TurnRow(s, FALSE, FALSE)}) =>
                   Turns(s)' \subseteq {TurnRow(s, FALSE, TRUE)}
  <2> PICK u : u = e.solve
    OBVIOUS
  <2>1. T2 = Answered(T, u)
    BY <1>1, <1>5, <1>12
  <2>7. u \in Solves
    BY <1>1, <1>12
  <2>6. AreRows(T)
    BY <1>7 DEF AreRows
  <2>2. /\ \A v \in Solves \ {u} : RowsOf(T2, v) = RowsOf(T, v)
        /\ RowsOf(T, u) \subseteq {TurnRow(u, FALSE, FALSE)} =>
             RowsOf(T2, u) \subseteq {TurnRow(u, FALSE, TRUE)}
    <3>1. \A v \in Solves \ {u} : RowsOf(Answered(T, u), v) = RowsOf(T, v)
      <4>1. ASSUME NEW v \in Solves, v # u
            PROVE  RowsOf(Answered(T, u), v) = RowsOf(T, v)
        BY <2>6, <2>7, <4>1, AnsweredIs
      <4> QED
        BY <4>1
    <3>2. RowsOf(T, u) \subseteq {TurnRow(u, FALSE, FALSE)} =>
            RowsOf(Answered(T, u), u) \subseteq {TurnRow(u, FALSE, TRUE)}
      BY <2>6, <2>7, AnsweredIs
    <3> QED
      BY <2>1, <3>1, <3>2
  <2>3. Turns(s) = RowsOf(T, s) /\ Turns(s)' = RowsOf(T2, s)
    BY <1>6, <1>12
  <2>4. CASE u # s
    BY <1>12, <2>2, <2>3, <2>4
  <2>5. CASE u = s
    <3>1. Turns(u) = RowsOf(T, u) /\ Turns(u)' = RowsOf(T2, u)
      BY <1>6, <2>7
    <3> QED
      BY <2>2, <2>5, <3>1
  <2> QED
    BY <2>4, <2>5
<1>13. c.cut # "text" /\ e.type = "conversation_deleted" => \A s \in Solves : Turns(s)' = {}
  BY <1>5, <1>6 DEF RowsOf
<1>14. c.cut = "text" \/ e.type \notin {"turn", "turn_updated", "conversation_deleted"} => T2 = T
  BY <1>5
<1> QED
  BY <1>10, <1>11, <1>12, <1>13, <1>14

-----------------------------------------------------------------------------
(* The turns of a solve along its way *)

Closing == {"opening", "updating", "adding"}

LEMMA LogKept ==
  ASSUME file'["events"] = file["events"], NEW s
  PROVE  /\ Replay' = Replay /\ Turns(s)' = Turns(s) /\ (IsDeleted(s)' <=> IsDeleted(s))
         /\ Glues("events")' <=> Glues("events")
BY DEF Replay, Turns, IsDeleted, Glues, Readable

\* The log stays, and so does what a solve waits for.
LEMMA FitKept ==
  ASSUME NEW s, TurnsFit(s), file'["events"] = file["events"], solve'[s] = solve[s],
         (Early' <=> Early) \/ solve[s] \notin Closing
  PROVE  TurnsFit(s)'
<1>1. /\ Turns(s)' = Turns(s) /\ (IsDeleted(s)' <=> IsDeleted(s))
      /\ Glues("events")' <=> Glues("events")
  BY LogKept
<1> QED
  BY <1>1 DEF TurnsFit, Closing

\* The event of nobody, or of another solve, is appended.
LEMMA FitPut ==
  ASSUME Types, Types', NEW s \in Solves, TurnsFit(s), NEW c, Fits("events", c), Put("events", c),
         ~glued', Straight(file["events"]), ReplayOK, solve'[s] = solve[s],
         c.cut # "text" /\ c.data.type \in {"turn", "turn_updated"} => c.data.solve # s,
         \/ solve[s] \notin Closing
         \/ (Early' <=> Early) /\ c.data.type \notin {"turn", "turn_updated", "conversation_deleted"}
  PROVE  TurnsFit(s)'
<1>1. /\ ~Glues("events") /\ WholeLines(file["events"])
      /\ file'["events"] = Append(file["events"], c)
  BY ReplayPut DEF Put
<1>2. /\ IsDeleted(s) => IsDeleted(s)'
      /\ (c.cut # "text" /\ c.data.type = "conversation_deleted") => IsDeleted(s)'
  BY <1>1, DeletedPut
<1>3. \/ Turns(s)' = Turns(s)
      \/ Turns(s)' = {} /\ IsDeleted(s)' /\ solve[s] \notin Closing
  <2>1. CASE c.cut = "text" \/ c.data.type \notin {"turn", "turn_updated", "conversation_deleted"}
    <3>1. Replay'.turns = Replay.turns
      BY <2>1, TurnsPut
    <3> QED
      BY <3>1 DEF Turns
  <2>2. CASE c.cut # "text" /\ c.data.type = "conversation_deleted"
    <3>1. Turns(s)' = {}
      BY <2>2, TurnsPut
    <3>2. solve[s] \notin Closing
      BY <2>2
    <3> QED
      BY <1>2, <2>2, <3>1, <3>2
  <2>3. CASE c.cut # "text" /\ c.data.type = "turn"
    BY <2>3, TurnsPut
  <2>4. CASE c.cut # "text" /\ c.data.type = "turn_updated"
    BY <2>4, TurnsPut
  <2> QED
    BY <2>1, <2>2, <2>3, <2>4
<1>4. CASE Turns(s)' = Turns(s)
  BY <1>1, <1>2, <1>4 DEF TurnsFit, Closing
<1>5. CASE Turns(s)' = {} /\ IsDeleted(s)' /\ solve[s] \notin Closing
  BY <1>5 DEF TurnsFit, Closing
<1> QED
  BY <1>3, <1>4, <1>5

\* A solve's own event is appended whole.
LEMMA FitWrite ==
  ASSUME Types, Types', NEW s \in Solves, Awaits, TurnsFit(s), Write, op.log = "events", ~glued',
         Straight(file["events"]), ReplayOK,
         op.data.type \in {"turn", "turn_updated"}, op.data.solve = s
  PROVE  TurnsFit(s)'
<1> PICK c : c = Whole(op.data)
  OBVIOUS
<1>1. /\ op.step = "ready" /\ Fits("events", c) /\ Put("events", c)
      /\ c.cut = "no" /\ c.data = op.data /\ op'.step = "written" /\ solve' = solve
  BY WritingIs, TypesWrite DEF Write, Whole, Cut
<1>2. ~Glues("events") /\ Early /\ ~Early' /\ op.call = "append"
  <2>1. op.call = "append"
    BY WritingIs DEF Write, Ckpt
  <2> QED
    BY <1>1, <2>1 DEF Put, Early
<1>3. CASE op.data.type = "turn"
  <2>1. /\ Turns(s)' = Turns(s) \union {TurnRow(s, op.data.answered, op.data.answered)}
        /\ solve[s] = IF op.data.answered THEN "adding" ELSE "opening"
    <3>1. solve[s] = IF op.data.answered THEN "adding" ELSE "opening"
      BY <1>1, <1>2, <1>3 DEF Awaits
    <3>2. Turns(s)' = Turns(s) \union {TurnRow(s, c.data.answered, c.data.answered)}
      BY <1>1, <1>3, TurnsPut
    <3> QED
      BY <1>1, <3>1, <3>2
  <2>2. op.data.answered \in BOOLEAN
    BY <1>1, <1>3 DEF Fits, Event, Ckpt
  <2>3. CASE op.data.answered
    <3>1. solve'[s] = "adding" /\ Turns(s) \subseteq {TurnRow(s, FALSE, FALSE)}
      BY <1>1, <1>2, <2>1, <2>3 DEF TurnsFit
    <3>2. Turns(s)' = Turns(s) \union {TurnRow(s, TRUE, TRUE)}
      BY <2>1, <2>2, <2>3
    <3> QED
      BY <1>2, <3>1, <3>2 DEF TurnsFit
  <2>4. CASE ~op.data.answered
    <3>1. solve'[s] = "opening" /\ Turns(s) = {}
      BY <1>1, <1>2, <2>1, <2>4 DEF TurnsFit
    <3>2. Turns(s)' = Turns(s) \union {TurnRow(s, FALSE, FALSE)}
      BY <2>1, <2>2, <2>4
    <3> QED
      BY <1>2, <3>1, <3>2 DEF TurnsFit
  <2> QED
    BY <2>3, <2>4
<1>4. CASE op.data.type = "turn_updated"
  <2>1. solve[s] = "updating"
    BY <1>1, <1>2, <1>4 DEF Awaits
  <2>2. Turns(s) \subseteq {TurnRow(s, FALSE, FALSE)}
    BY <1>2, <2>1 DEF TurnsFit
  <2>3. Turns(s)' \subseteq {TurnRow(s, FALSE, TRUE)}
    BY <1>1, <1>4, <2>2, TurnsPut
  <2> QED
    BY <1>1, <1>2, <2>1, <2>3 DEF TurnsFit
<1> QED
  BY <1>3, <1>4

\* A solve that has failed promises nothing.
LEMMA FitFailed ==
  ASSUME NEW s, solve'[s] = "failed"
  PROVE  TurnsFit(s)'
BY DEF TurnsFit

\* The log stays and no operation is under way for a solve that waited.
LEMMA FitBegins ==
  ASSUME NEW s, TurnsFit(s), file'["events"] = file["events"], Early',
         \/ solve[s] = "none" /\ solve'[s] = "opening"
         \/ solve[s] = "open" /\ solve'[s] = "updating"
         \/ solve[s] = "updated" /\ solve'[s] = "looking"
         \/ solve[s] = "missing" /\ solve'[s] = "adding"
  PROVE  TurnsFit(s)'
<1>1. Turns(s)' = Turns(s) /\ (Glues("events")' <=> Glues("events"))
  BY LogKept
<1> QED
  BY <1>1 DEF TurnsFit

LEMMA FitEnds ==
  ASSUME NEW s, TurnsFit(s), file'["events"] = file["events"],
         \/ ~Early /\ solve[s] = "opening" /\ solve'[s] = "open"
         \/ ~Early /\ solve[s] = "updating" /\ solve'[s] = "updated"
         \/ ~Early /\ solve[s] = "adding" /\ solve'[s] = "kept"
         \/ Early /\ solve[s] = "opening" /\ solve'[s] = "none"
         \/ Early /\ solve[s] = "updating" /\ solve'[s] = "missing"
         \/ solve[s] = "looking" /\ solve'[s] = IF Turns(s) # {} THEN "kept" ELSE "missing"
  PROVE  TurnsFit(s)'
<1>1. Turns(s)' = Turns(s) /\ (Glues("events")' <=> Glues("events"))
  BY LogKept
<1>2. /\ TurnRow(s, FALSE, FALSE).answered = FALSE /\ TurnRow(s, FALSE, TRUE).answered = TRUE
      /\ TurnRow(s, TRUE, TRUE).answered = TRUE
  BY DEF TurnRow
<1>3. CASE ~Early /\ solve[s] = "adding" /\ solve'[s] = "kept"
  <2>1. /\ TurnRow(s, TRUE, TRUE) \in Turns(s)
        /\ \A u \in Turns(s) : u = TurnRow(s, TRUE, TRUE) \/ u = TurnRow(s, FALSE, FALSE)
    BY <1>3 DEF TurnsFit
  <2>2. \E t \in Turns(s) : t.answered /\ \A u \in Turns(s) : u.answered => u = t
    BY <1>2, <2>1
  <2> QED
    BY <1>1, <1>3, <2>2 DEF TurnsFit
<1>4. CASE solve[s] = "looking" /\ solve'[s] = IF Turns(s) # {} THEN "kept" ELSE "missing"
  <2>1. \A u \in Turns(s) : u = TurnRow(s, FALSE, TRUE)
    BY <1>4 DEF TurnsFit
  <2>2. Turns(s) # {} =>
          \E t \in Turns(s) : t.answered /\ \A u \in Turns(s) : u.answered => u = t
    BY <1>2, <2>1
  <2> QED
    BY <1>1, <1>4, <2>2 DEF TurnsFit
<1> QED
  BY <1>1, <1>3, <1>4 DEF TurnsFit

\* The rest of a cut line is left in the log: nothing is promised until it is whole again.
LEMMA FitGlued ==
  ASSUME NEW s, Glues("events")', solve'[s] \in {"none", "missing"}
  PROVE  TurnsFit(s)'
BY DEF TurnsFit

LEMMA ReplayOKKept ==
  ASSUME ReplayOK, file'["events"] = file["events"]
  PROVE  ReplayOK'
BY ReplayKept DEF ReplayOK

\* A step that leaves the log alone and moves no solve.
LEMMA KeptOn ==
  ASSUME Kept, file'["events"] = file["events"], solve' = solve, Seen',
         (Early' <=> Early) \/ \A s \in Solves : solve[s] \notin Closing
  PROVE  Kept'
<1>1. ASSUME NEW s \in Solves
      PROVE  TurnsFit(s)'
  BY FitKept DEF Kept
<1> QED
  BY <1>1, ReplayOKKept DEF Kept

LEMMA KeptInit == Init => Kept
<1> SUFFICES ASSUME Init PROVE Kept
  OBVIOUS
<1>1. Replay = NoProject
  BY EventsOfEmpty DEF Init, Replay, Logs
<1>2. ReplayOK /\ Seen
  BY <1>1 DEF ReplayOK, Seen, NoProject, Init, Idle
<1>3. ASSUME NEW s \in Solves
      PROVE  TurnsFit(s)
  <2>1. Turns(s) = {} /\ solve[s] = "none"
    BY <1>1 DEF Turns, RowsOf, NoProject, Init
  <2> QED
    BY <2>1 DEF TurnsFit
<1> QED
  BY <1>2, <1>3 DEF Kept

\* Nobody waits when no operation of a solve is under way.
LEMMA NotClosing ==
  ASSUME Awaits, op.step = "none" \/ op.call # "append"
  PROVE  \A s \in Solves : solve[s] \notin Closing
BY DEF Awaits, Closing

\* An operation begins.
LEMMA KeptBegins ==
  ASSUME Kept, Awaits, op = Idle, op'.step = "stat", file' = file, NEW s \in Solves,
         NEW p, solve' = [solve EXCEPT ![s] = p],
         \/ solve[s] = "none" /\ p = "opening"
         \/ solve[s] = "open" /\ p = "updating"
         \/ solve[s] = "updated" /\ p = "looking"
         \/ solve[s] = "missing" /\ p = "adding"
  PROVE  Kept'
<1>1. op.step = "none" /\ Early' /\ Seen' /\ file'["events"] = file["events"]
  BY DEF Idle, Early, Seen
<1>2. \A t \in Solves : solve'[t] = IF t = s THEN p ELSE solve[t]
  BY DEF Awaits
<1>3. TurnsFit(s)'
  BY <1>1, <1>2, FitBegins DEF Kept
<1>4. ASSUME NEW t \in Solves, t # s
      PROVE  TurnsFit(t)'
  <2>1. solve'[t] = solve[t] /\ solve[t] \notin Closing
    BY <1>1, <1>2, <1>4, NotClosing
  <2> QED
    BY <1>1, <2>1, FitKept DEF Kept
<1> QED
  BY <1>1, <1>3, <1>4, ReplayOKKept DEF Kept

LEMMA KeptTurn ==
  ASSUME Types, Kept, Awaits, NEW s \in Solves,
         PendingTurn(s) \/ UpdateTurn(s) \/ LookUp(s) \/ AddTurn(s)
  PROVE  Kept'
<1>1. CASE PendingTurn(s)
  BY <1>1, KeptBegins, StartIs DEF PendingTurn, Turn, MayStart
<1>2. CASE UpdateTurn(s)
  BY <1>2, KeptBegins, StartIs DEF UpdateTurn, Turn, MayStart
<1>3. CASE AddTurn(s)
  BY <1>3, KeptBegins, StartIs DEF AddTurn, Turn, MayStart
<1>4. CASE LookUp(s)
  BY <1>4, KeptBegins, StartIs DEF LookUp, MayStart
<1> QED
  BY <1>1, <1>2, <1>3, <1>4

\* An operation that is no solve's begins or ends.
LEMMA KeptOther ==
  ASSUME Kept, file' = file, solve' = solve, op'.step # "ready",
         \A s \in Solves : solve[s] \notin Closing
  PROVE  Kept'
BY KeptOn DEF Seen

LEMMA KeptRead ==
  ASSUME Types, Types', Ev, Ev', Kept, Stat \/ Load
  PROVE  Kept'
<1>1. Goes /\ file' = file
  BY GoesOn DEF Stat, Load
<1>2. Early /\ Early'
  <2>1. CASE Stat
    BY <2>1 DEF Stat, Types, OpOK, Early
  <2>2. CASE Load
    BY <2>2, TypesLoad DEF Load, Early
  <2> QED
    BY <2>1, <2>2
<1>3. Seen'
  <2> SUFFICES ASSUME op'.step = "ready", op'.log = "events" PROVE state'.turns = Replay'.turns
    BY DEF Seen
  <2>1. CASE Stat
    <3>1. op.step = "stat" /\ op.log = "events"
      BY <1>1, <2>1 DEF Stat, Goes
    <3>2. Trusted("events")
      BY <2>1, <3>1 DEF Stat, Trusted, Types, OpOK
    <3>3. state = Replay /\ state' = state
      BY <2>1, <3>1, <3>2 DEF Ev, EventsFollow, Stat, memory
    <3> QED
      BY <1>1, <3>3, ReplayKept
  <2>2. CASE Load
    <3>1. op.log = "events"
      BY <1>1 DEF Goes
    <3>2. state' = Replay
      BY <2>2, <3>1 DEF Load, Replay
    <3> QED
      BY <1>1, <3>2, ReplayKept
  <2> QED
    BY <2>1, <2>2
<1> QED
  BY <1>1, <1>2, <1>3, KeptOn DEF Goes

LEMMA KeptLate ==
  ASSUME Types, Kept, Commit \/ Compact \/ NoCompaction \/ Restat
  PROVE  Kept'
<1>1. /\ ~Early /\ ~Early' /\ op'.step # "ready" /\ solve' = solve
      /\ file'["events"] = file["events"]
  <2>1. CASE Commit
    BY <2>1, CommitIs DEF Commit, Early
  <2>2. CASE Compact
    BY <2>2, CompactIs DEF Early
  <2>3. CASE NoCompaction
    BY <2>3, TypesNoCompaction DEF NoCompaction, Early
  <2>4. CASE Restat
    BY <2>4, TypesRestat DEF Restat, Early
  <2> QED
    BY <2>1, <2>2, <2>3, <2>4
<1> QED
  BY <1>1, KeptOn DEF Seen

LEMMA KeptWrite ==
  ASSUME Types, Types', Ev, Awaits, Kept, Write, ~glued'
  PROVE  Kept'
<1> PICK c : c = Whole(op.data)
  OBVIOUS
<1>1. /\ op.log \in Logs /\ op.step = "ready" /\ (op.log = Ckpt <=> op.call # "append")
      /\ Fits(op.log, c) /\ Put(op.log, c) /\ solve' = solve /\ op'.step = "written"
      /\ c.cut = "no" /\ c.data = op.data
  BY WritingIs, TypesWrite DEF Write, Whole, Cut
<1>2. Seen'
  BY <1>1 DEF Seen
<1>3. CASE op.log = "events"
  <2>1. ReplayOK' /\ ReplayOK /\ Straight(file["events"])
    BY <1>1, <1>3, TurnsPut DEF Kept, Ev
  <2>2. ASSUME NEW s \in Solves
        PROVE  TurnsFit(s)'
    <3>1. CASE op.data.type \in {"turn", "turn_updated"} /\ op.data.solve = s
      BY <1>3, <2>1, <3>1, FitWrite DEF Kept
    <3>2. CASE ~(op.data.type \in {"turn", "turn_updated"} /\ op.data.solve = s)
      <4>1. solve[s] \notin Closing
        <5>1. solve[s] = "opening" => op.data = [type |-> "turn", solve |-> s, answered |-> FALSE]
          BY DEF Awaits
        <5>2. solve[s] = "adding" => op.data = [type |-> "turn", solve |-> s, answered |-> TRUE]
          BY DEF Awaits
        <5>3. solve[s] = "updating" => op.data = [type |-> "turn_updated", solve |-> s]
          BY DEF Awaits
        <5> QED
          BY <3>2, <5>1, <5>2, <5>3 DEF Closing
      <4>2. solve'[s] = solve[s] /\ TurnsFit(s)
        BY <1>1 DEF Kept
      <4>3. Fits("events", c) /\ Put("events", c)
        BY <1>1, <1>3
      <4>4. c.cut # "text" /\ c.data.type \in {"turn", "turn_updated"} => c.data.solve # s
        BY <1>1, <3>2
      <4> QED
        BY <2>1, <4>1, <4>2, <4>3, <4>4, FitPut
    <3> QED
      BY <3>1, <3>2
  <2> QED
    BY <1>2, <2>1, <2>2 DEF Kept
<1>4. CASE op.log = Ckpt
  <2>1. file'["events"] = file["events"]
    BY <1>1, <1>4, PutFile DEF Types, CountersOK, Logs, Ckpt
  <2> QED
    BY <1>1, <1>2, <1>4, <2>1, KeptOn, NotClosing
<1> QED
  BY <1>1, <1>3, <1>4 DEF Logs, Ckpt

\* Some of a line may be left in the log; the solve that waited for it gives up or tries
\* another way.
GivesUp(s) == \/ solve'[s] = "failed"
              \/ solve[s] \notin Closing /\ solve'[s] = solve[s]
              \/ solve[s] = "opening" /\ solve'[s] = "none"
              \/ solve[s] = "updating" /\ solve'[s] = "missing"

LEMMA KeptTorn ==
  ASSUME Types, Types', Ev, Awaits, Kept, Writing, ~glued',
         \E cut \in Cuts : Put(op.log, [data |-> op.data, cut |-> cut]), op'.step = "none",
         \A s \in Solves : GivesUp(s)
  PROVE  Kept'
<1>1. PICK cut \in Cuts : Put(op.log, [data |-> op.data, cut |-> cut])
  OBVIOUS
<1> PICK c : c = [data |-> op.data, cut |-> cut]
  OBVIOUS
<1>2. /\ op.log \in Logs /\ op.step = "ready" /\ (op.log = Ckpt <=> op.call # "append")
      /\ Fits(op.log, c) /\ Put(op.log, c) /\ c.cut # "no" /\ c.data = op.data
  BY <1>1, WritingIs, CutAssumption
<1>3. Seen'
  BY DEF Seen
<1>4. CASE op.log = "events"
  <2>1. Fits("events", c) /\ Put("events", c) /\ ReplayOK /\ Straight(file["events"])
    BY <1>2, <1>4 DEF Kept, Ev
  <2>2. ReplayOK' /\ Glues("events")'
    <3>1. ReplayOK'
      BY <2>1, TurnsPut
    <3>2. file'["events"] = Append(file["events"], c) /\ WholeLines(file["events"])
      BY <2>1, ReplayPut
    <3>3. PICK X : file["events"] \in Seq(X) /\ c \in X
      <4>1. file["events"] \in Seq([data : Event, cut : Cut]) /\ c \in [data : Event, cut : Cut]
        BY <2>1 DEF Types, FilesOK, Fits, Ckpt
      <4> QED
        BY <4>1
    <3>4. /\ Len(file'["events"]) = Len(file["events"]) + 1 /\ Len(file["events"]) \in Nat
          /\ file'["events"][Len(file["events"]) + 1] = c /\ file'["events"] # <<>>
      BY <3>2, <3>3
    <3> QED
      BY <1>2, <3>1, <3>4 DEF Glues
  <2>3. ASSUME NEW s \in Solves
        PROVE  TurnsFit(s)'
    <3>1. CASE solve'[s] = "failed"
      BY <3>1, FitFailed
    <3>2. CASE solve[s] \notin Closing /\ solve'[s] = solve[s]
      <4>1. CASE c.cut # "text" /\ c.data.type \in {"turn", "turn_updated"} /\ c.data.solve = s
        <5>1. solve[s] \in Closing
          BY <1>2, <1>4, <4>1 DEF Awaits, Closing, Ckpt
        <5> QED
          BY <3>2, <5>1
      <4>2. CASE c.cut # "text" /\ c.data.type \in {"turn", "turn_updated"} => c.data.solve # s
        BY <2>1, <3>2, <4>2, FitPut DEF Kept
      <4> QED
        BY <4>1, <4>2
    <3>3. CASE solve'[s] \in {"none", "missing"}
      BY <2>2, <3>3, FitGlued
    <3> QED
      BY <3>1, <3>2, <3>3 DEF GivesUp
  <2> QED
    BY <1>3, <2>2, <2>3 DEF Kept
<1>5. CASE op.log = Ckpt
  <2>1. file'["events"] = file["events"]
    BY <1>2, <1>5, PutFile DEF Types, CountersOK, Logs, Ckpt
  <2>2. ASSUME NEW s \in Solves
        PROVE  TurnsFit(s)'
    <3>1. solve[s] \notin Closing
      BY <1>2, <1>5, NotClosing
    <3>2. solve'[s] = "failed" \/ solve'[s] = solve[s]
      BY <3>1 DEF GivesUp, Closing
    <3> QED
      BY <2>1, <3>1, <3>2, FitFailed, FitKept DEF Kept
  <2> QED
    BY <1>3, <2>1, <2>2, ReplayOKKept DEF Kept
<1> QED
  BY <1>2, <1>4, <1>5 DEF Logs, Ckpt

LEMMA KeptWriteFails ==
  ASSUME Types, Types', Ev, Awaits, Kept, WriteFails, ~glued'
  PROVE  Kept'
<1>1. /\ op' = Idle /\ Writing /\ op.step = "ready" /\ op.call \in {"write", "grant", "append"}
      /\ Ends(FALSE)
  BY DEF WriteFails, Writing
<1>2. op'.step = "none" /\ Early /\ Seen'
  BY <1>1 DEF Idle, Early, Seen
<1>3. ASSUME NEW s \in Solves
      PROVE  GivesUp(s)
  <2>1. solve[s] # "looking"
    BY <1>1 DEF Awaits
  <2>2. /\ solve[s] \notin Waiting => solve'[s] = solve[s]
        /\ solve[s] = "opening" => solve'[s] = "none"
        /\ solve[s] = "updating" => solve'[s] = "missing"
        /\ solve[s] = "adding" => solve'[s] = "failed"
    BY <1>1, EndsIs
  <2> QED
    BY <2>1, <2>2 DEF GivesUp, Waiting, Closing
<1>4. CASE \E cut \in Cuts : Put(op.log, [data |-> op.data, cut |-> cut])
  BY <1>1, <1>2, <1>3, <1>4, KeptTorn
<1>5. CASE UNCHANGED <<file, glued, writes>>
  <2>1. ASSUME NEW s \in Solves
        PROVE  TurnsFit(s)'
    BY <1>2, <1>3, <1>5, FitFailed, FitKept, FitEnds DEF GivesUp, Kept
  <2> QED
    BY <1>2, <1>5, <2>1, ReplayOKKept DEF Kept
<1> QED
  BY <1>4, <1>5 DEF WriteFails

LEMMA KeptCrash ==
  ASSUME Types, Types', Ev, Awaits, Kept, Crash, ~glued'
  PROVE  Kept'
<1>1. /\ op'.step = "none"
      /\ \A s \in Solves : solve'[s] = "failed" \/ (/\ solve[s] \in {"none", "kept"}
                                                    /\ solve'[s] = solve[s])
  BY CrashedSolves
<1>2. \A s \in Solves : GivesUp(s)
  BY <1>1 DEF GivesUp, Closing
<1>3. CASE Writing /\ \E cut \in Cuts : Put(op.log, [data |-> op.data, cut |-> cut])
  BY <1>1, <1>2, <1>3, KeptTorn
<1>4. CASE UNCHANGED <<file, glued, writes>>
  <2>1. ASSUME NEW s \in Solves
        PROVE  TurnsFit(s)'
    BY <1>1, <1>4, FitFailed, FitKept DEF Kept, Closing
  <2> QED
    BY <1>1, <1>4, <2>1, ReplayOKKept DEF Kept, Seen
<1> QED
  BY <1>3, <1>4 DEF Crash

LEMMA KeptReturn ==
  ASSUME Types, Awaits, Kept, Return
  PROVE  Kept'
<1>1. op.step = "done" /\ op' = Idle /\ Ends(TRUE) /\ file' = file
  BY DEF Return
<1>2. ~Early /\ Seen' /\ op.call # "read"
  BY <1>1 DEF Early, Seen, Idle, Types, OpOK
<1>3. ASSUME NEW s \in Solves
      PROVE  TurnsFit(s)'
  <2>1. solve[s] # "looking"
    BY <1>2 DEF Awaits
  <2>2. /\ solve[s] \notin Waiting => solve'[s] = solve[s]
        /\ solve[s] = "opening" => solve'[s] = "open"
        /\ solve[s] = "updating" => solve'[s] = "updated"
        /\ solve[s] = "adding" => solve'[s] = "kept"
    BY <1>1, EndsIs
  <2>3. CASE solve[s] \in Closing
    BY <1>1, <1>2, <2>2, <2>3, FitEnds DEF Kept, Closing
  <2>4. CASE solve[s] \notin Closing
    <3>1. solve'[s] = solve[s]
      BY <2>1, <2>2, <2>4 DEF Waiting, Closing
    <3> QED
      BY <1>1, <2>4, <3>1, FitKept DEF Kept
  <2> QED
    BY <2>3, <2>4
<1> QED
  BY <1>1, <1>2, <1>3, ReplayOKKept DEF Kept

\* A solve looks for its answered turn in an index that is the replay of the log.
LEMMA KeptReturnRead ==
  ASSUME Types, Awaits, Kept, ReturnRead
  PROVE  Kept'
<1>1. op.step = "ready" /\ op.call = "read" /\ op' = Idle /\ Ends(TRUE) /\ file' = file
  BY DEF ReturnRead
<1>2. Seen'
  BY <1>1 DEF Seen, Idle
<1>3. ASSUME NEW s \in Solves
      PROVE  TurnsFit(s)'
  <2>1. solve[s] \notin Closing
    BY <1>1, NotClosing
  <2>2. CASE solve[s] = "looking"
    <3>1. op.log = "events"
      BY <2>2 DEF Awaits
    <3>2. state.turns = Replay.turns
      BY <1>1, <3>1 DEF Kept, Seen
    <3>3. solve'[s] = IF \E t \in state.turns : t.solve = s THEN "kept" ELSE "missing"
      BY <1>1, <2>2, EndsIs
    <3>4. (\E t \in state.turns : t.solve = s) <=> Turns(s) # {}
      BY <3>2 DEF Turns, RowsOf
    <3>5. solve'[s] = IF Turns(s) # {} THEN "kept" ELSE "missing"
      BY <3>3, <3>4
    <3> QED
      BY <1>1, <2>2, <3>5, FitEnds DEF Kept
  <2>3. CASE solve[s] # "looking"
    <3>1. solve'[s] = solve[s]
      BY <1>1, <2>1, <2>3, EndsIs DEF Waiting, Closing
    <3> QED
      BY <1>1, <2>1, <3>1, FitKept DEF Kept
  <2> QED
    BY <2>2, <2>3
<1> QED
  BY <1>1, <1>2, <1>3, ReplayOKKept DEF Kept

\* Another process appends a checkpoint, or an event that touches no turn.
LEMMA KeptExternal ==
  ASSUME Types, Types', Ev, Kept, NEW l \in Logs, NEW d \in Record \union Event,
         ExternalAppend(l, d), Fits(l, Whole(d)), l = "events" => d.type = "knowledge_added",
         ~glued'
  PROVE  Kept'
<1> PICK c : c = Whole(d)
  OBVIOUS
<1>1. /\ Put(l, c) /\ UNCHANGED <<op, solve, state>> /\ c.cut = "no" /\ c.data = d /\ Fits(l, c)
  BY DEF ExternalAppend, memory, Whole
<1>2. Early' <=> Early
  BY <1>1 DEF Early
<1>3. CASE l = "events"
  <2>1. /\ Fits("events", c) /\ Put("events", c) /\ ReplayOK /\ Straight(file["events"])
        /\ c.data.type = "knowledge_added"
    BY <1>1, <1>3 DEF Kept, Ev
  <2>2. ReplayOK' /\ Replay'.turns = Replay.turns
    BY <2>1, TurnsPut
  <2>3. ASSUME NEW s \in Solves
        PROVE  TurnsFit(s)'
    BY <1>1, <1>2, <2>1, FitPut DEF Kept
  <2>4. Seen'
    BY <1>1, <2>2 DEF Kept, Seen
  <2> QED
    BY <2>2, <2>3, <2>4 DEF Kept
<1>4. CASE l = Ckpt
  <2>1. file'["events"] = file["events"]
    BY <1>1, <1>4, PutFile DEF Types, CountersOK, Logs, Ckpt
  <2>2. Seen'
    BY <1>1, <2>1, ReplayKept DEF Kept, Seen
  <2> QED
    BY <1>1, <1>2, <2>1, <2>2, KeptOn
<1> QED
  BY <1>3, <1>4 DEF Logs, Ckpt

LEMMA TurnNext ==
  Types /\ Types' /\ EventInv /\ EventInv' /\ Awaits /\ TurnInv /\ [Next]_vars => TurnInv'
<1> SUFFICES ASSUME Types, Types', EventInv, EventInv', Awaits, TurnInv, [Next]_vars, ~glued'
             PROVE  Kept'
  BY DEF TurnInv
<1>1. Ev /\ Ev' /\ Kept
  BY GluedStays DEF EventInv, Ev, TurnInv
<1>2. ASSUME NEW s \in Sessions, NEW r \in Requests \union {None}, WriteCheckpoint(s, r) \/ Claim(s, r)
      PROVE  Kept'
  <2>1. op.step = "none" /\ solve' = solve /\ file' = file /\ op'.step = "stat"
    BY <1>2, StartIs DEF WriteCheckpoint, Claim, MayStart, Idle
  <2> QED
    BY <1>1, <2>1, NotClosing, KeptOther
<1>3. ASSUME NEW l \in Logs, Read(l)
      PROVE  Kept'
  <2>1. op.step = "none" /\ solve' = solve /\ file' = file /\ op'.step = "stat"
    BY <1>3, StartIs DEF Read, MayStart, Idle
  <2> QED
    BY <1>1, <2>1, NotClosing, KeptOther
<1>4. ASSUME NEW e \in Event, AppendEvent(e)
      PROVE  Kept'
  <2>1. op.step = "none" /\ solve' = solve /\ file' = file /\ op'.step = "stat"
    BY <1>4, StartIs DEF AppendEvent, MayStart, Idle
  <2> QED
    BY <1>1, <2>1, NotClosing, KeptOther
<1>5. ASSUME NEW s \in Solves, PendingTurn(s) \/ UpdateTurn(s) \/ LookUp(s) \/ AddTurn(s)
      PROVE  Kept'
  BY <1>1, <1>5, KeptTurn
<1>6. CASE Stat \/ Load
  BY <1>1, <1>6, KeptRead
<1>7. CASE Commit \/ Compact \/ NoCompaction \/ Restat
  BY <1>1, <1>7, KeptLate
<1>8. CASE Decide \/ Refuse
  <2>1. \A s \in Solves : solve[s] \notin Closing /\ solve' = solve
    BY <1>8, AwaitsRefused DEF Waiting, Closing
  <2>2. solve' = solve /\ file' = file
    BY <1>8 DEF Decide, Refuse
  <2>3. op'.step # "ready"
    <3>1. CASE op' = Idle
      BY <3>1 DEF Idle
    <3>2. CASE op' # Idle
      <4>1. CASE Decide
        BY <3>2, <4>1, Decided
      <4>2. CASE Refuse
        BY <3>2, <4>2 DEF Refuse
      <4> QED
        BY <1>8, <4>1, <4>2
    <3> QED
      BY <3>1, <3>2
  <2> QED
    BY <1>1, <2>1, <2>2, <2>3, KeptOther
<1>9. CASE ReturnRead \/ Return
  BY <1>1, <1>9, KeptReturn, KeptReturnRead
<1>10. CASE Write \/ WriteFails
  BY <1>1, <1>10, KeptWrite, KeptWriteFails
<1>11. CASE Crash
  BY <1>1, <1>11, KeptCrash
<1>12. ASSUME NEW s \in Foreign,
              ExternalAppend("checkpoints", [session |-> s, request |-> None,
                                             claimed |-> FALSE, goal |-> FALSE])
       PROVE  Kept'
  <2>1. PICK d : d = [session |-> s, request |-> None, claimed |-> FALSE, goal |-> FALSE]
    OBVIOUS
  <2>2. d \in Record /\ "checkpoints" \in Logs /\ "checkpoints" # "events"
    BY <2>1 DEF Record, Logs
  <2>3. ExternalAppend("checkpoints", d) /\ Fits("checkpoints", Whole(d))
    BY <1>12, <2>1, ForeignFits
  <2> QED
    BY <1>1, <2>2, <2>3, KeptExternal
<1>13. ASSUME NEW i \in Items,
              ExternalAppend("events", [type |-> "knowledge_added", item |-> i])
       PROVE  Kept'
  <2>1. PICK d : d = [type |-> "knowledge_added", item |-> i]
    OBVIOUS
  <2>2. d \in Event /\ "events" \in Logs /\ d.type = "knowledge_added"
    BY <2>1 DEF Event, Logs
  <2>3. ExternalAppend("events", d) /\ Fits("events", Whole(d))
    BY <1>13, <2>1, ForeignFits
  <2> QED
    BY <1>1, <2>2, <2>3, KeptExternal
<1>14. CASE UNCHANGED vars
  <2>1. UNCHANGED <<file, state, op, solve>>
    BY <1>14 DEF vars, memory
  <2>2. Seen' /\ (Early' <=> Early)
    BY <1>1, <2>1, ReplayKept DEF Kept, Seen, Early
  <2> QED
    BY <1>1, <2>1, <2>2, KeptOn
<1> QED
  BY <1>2, <1>3, <1>4, <1>5, <1>6, <1>7, <1>8, <1>9, <1>10, <1>11, <1>12, <1>13, <1>14 DEF Next

\* The rows of a solve in the replay of the log are those its own operations left: at most
\* one pending row, answered or followed by an answered one, unless its conversation was
\* deleted after them.
THEOREM TurnsAlways == Spec => [](Awaits /\ TurnInv)
<1>1. Init => Awaits /\ TurnInv
  BY AwaitsInit, KeptInit DEF TurnInv
<1>2. Spec => []Awaits
  BY AwaitsInit, AwaitsNext, TypesAlways, PTL DEF Spec
<1> QED
  BY <1>1, <1>2, TurnNext, TypesAlways, EventsAlways, PTL DEF Spec

\* A solve whose answer was archived has one answered turn on disk, or its conversation was
\* deleted after the answer was written: an update that fails or misses its row is followed
\* by a row of its own, and never by both.
THEOREM AnswersKept == Spec => []AnswersAreKept
<1>1. TurnInv => AnswersAreKept
  <2> HAVE TurnInv
  <2> SUFFICES ASSUME ~glued, NEW s \in Solves, solve[s] = "kept"
               PROVE  \/ Cardinality({t \in Replay.turns : t.solve = s /\ t.answered}) = 1
                      \/ IsDeleted(s)
    BY DEF AnswersAreKept, Replay, IsDeleted
  <2>1. TurnsFit(s)
    BY DEF TurnInv, Kept
  <2>2. CASE IsDeleted(s)
    BY <2>2
  <2>3. CASE \E t \in Turns(s) : t.answered /\ \A u \in Turns(s) : u.answered => u = t
    <3>1. PICK t \in Turns(s) : t.answered /\ \A u \in Turns(s) : u.answered => u = t
      BY <2>3
    <3>2. {u \in Replay.turns : u.solve = s /\ u.answered} = {t}
      BY <3>1 DEF Turns, RowsOf
    <3> QED
      BY <3>2, FS_Singleton
  <2> QED
    BY <2>1, <2>2, <2>3 DEF TurnsFit
<1> QED
  BY <1>1, TurnsAlways, PTL
=============================================================================
