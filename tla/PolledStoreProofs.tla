------------------------- MODULE PolledStoreProofs -------------------------
(***************************************************************************)
(* Proofs about PolledStore, for any number of callers, runs, steps, hooks *)
(* and waits, in both layouts: the log never says of a step or a run what  *)
(* its entity does not, the status index is true but for one run per call  *)
(* cut short, and so is each hook with its claim but for one or two per    *)
(* fault.                                                                  *)
(***************************************************************************)
EXTENDS PolledStore, SheetRowsProofs

(* Calls of the store with their arguments.                                *)
Command ==
  [op : {"run", "index", "unindex"}, x : Run, v : RunStatus \ {"none"}, at : Nat]
    \union [op : {"step"}, x : Step, v : StepStatus, at : Nat]
    \union [op : {"append"}, x : Run, v : Event, at : Nat]
    \union {cmd \in [op : {"put", "set", "del"}, x : {"hooks", "tokens"}, v : HookRow, at : Nat] :
              cmd.op # "put" => cmd.at # 0}
    \union {cmd \in [op : {"put", "set", "del"}, x : {"waits"}, v : WaitRow, at : Nat] :
              cmd.op # "put" => cmd.at # 0}
    \union [op : {"list", "unlist", "claim", "dispose", "clean", "unclaim"}, x : Hook,
            v : {""}, at : Nat]
    \union [op : {"hooks", "waits"}, x : Run, v : {""}, at : Nat]

(* What a command says of the status of x, and of its end.                 *)
Writes(cmd, x) == cmd.op \in {"run", "step"} /\ cmd.x = x
Closes(cmd, x) == cmd.op = "append" /\ cmd.v.on = x /\ cmd.v.type \in Closing
Index(cmd, r) == cmd.op = "index" /\ cmd.x = r

(* Commands that say nothing of either, nor of the status index.           *)
Calm(cmd) ==
  /\ cmd.op \notin {"run", "step", "index", "unindex"}
  /\ cmd.op = "append" => cmd.v.type \notin Closing

(* What a call does to x: it found x open, it writes the entity before the *)
(* event, and the event is the last it writes.                             *)
Order(x, cmds, d) ==
  \A i \in 1..Len(cmds) :
    /\ Writes(cmds[i], x) \/ Closes(cmds[i], x) => ClosedAt(d, x) = {}
    /\ Closes(cmds[i], x) =>
         /\ i = Len(cmds)
         /\ StatusIn(d, x) \in RunTerminal \/ \E j \in 1..Len(cmds) : j < i /\ Writes(cmds[j], x)
         /\ \A j \in 1..Len(cmds) : Writes(cmds[j], x) => cmds[j].v \in RunTerminal

(* What it does to the index: the run leaves its old one before its status *)
(* is written and enters the new one after it.                             *)
IndexOrder(r, cmds, d) ==
  \A i \in 1..Len(cmds) :
    /\ Index(cmds[i], r) =>
         \/ d.run[r] = cmds[i].v
         \/ \E j \in 1..Len(cmds) : j < i /\ Writes(cmds[j], r)
    /\ Writes(cmds[i], r) =>
         /\ \A j \in 1..Len(cmds) : Index(cmds[j], r) => i < j /\ cmds[i].v = cmds[j].v
         /\ \/ r \notin d.byStatus[d.run[r]]
            \/ \E j \in 1..Len(cmds) : j < i /\ cmds[j] = Cmd("unindex", r, d.run[r])
    /\ Writes(cmds[i], r) \/ (cmds[i].op = "unindex" /\ cmds[i].x = r) =>
         \E j \in 1..Len(cmds) : i < j /\ Index(cmds[j], r)

(* A call is for one thing: no command of it speaks of the status of       *)
(* another.                                                                *)
Own(x, cmds) ==
  \A i \in 1..Len(cmds) :
    /\ cmds[i].op \in {"run", "step", "index", "unindex"} => cmds[i].x = x
    /\ cmds[i].op = "append" /\ cmds[i].v.type \in Closing => cmds[i].v.on = x

CallInv ==
  /\ layout \in {"keys", "rows"}
  /\ db \in Data
  /\ call \in [Caller -> Calls \union {NoCall}]
  /\ stage \in [Caller -> {"read", "write"}]
  /\ todo \in [Caller -> Seq(Command)]
  /\ faults \in Nat
  /\ \A c \in Caller :
       /\ call[c] = NoCall => stage[c] = "read"
       /\ stage[c] = "read" => todo[c] = <<>>
       /\ Own(call[c].x, todo[c])
       /\ call[c].type = "run_completed" => db.run[call[c].x] # "none"
  /\ \A c, d \in Caller :
       call[c] # NoCall /\ call[d] # NoCall /\ RunOf(call[c].x) = RunOf(call[d].x) => c = d

(* A thing is closed at most once, and reads as closed then.               *)
ClosedOnce(x, d) ==
  /\ \A i, j \in ClosedAt(d, x) : i = j
  /\ ClosedAt(d, x) # {} => StatusIn(d, x) \in RunTerminal

ClosedInv ==
  \A x \in Step \union Run :
    /\ ClosedOnce(x, db)
    /\ \A c \in Caller : call[c].x = x => Order(x, todo[c], db)

(* Hidden runs that nobody is about to list.                               *)
Relists(cmds, r) == \E i \in 1..Len(cmds) : Index(cmds[i], r)
Unlisted == {r \in Hidden(db) : \A c \in Caller : ~Relists(todo[c], r)}

SoundFor(r, d) == \A st \in RunStatus : r \in d.byStatus[st] => st = d.run[r] /\ st # "none"

IndexInv ==
  layout = "keys" =>
    /\ \A r \in Run : SoundFor(r, db)
    /\ \A c \in Caller : \A r \in Run : call[c].x = r => IndexOrder(r, todo[c], db)
    /\ IsFiniteSet(Unlisted) /\ Cardinality(Unlisted) <= faults

IInv == CallInv /\ ClosedInv /\ IndexInv


-----------------------------------------------------------------------------
(* Data.                                                                   *)

LEMMA Deleting ==
  ASSUME NEW S, NEW rows \in Seq(S), NEW n \in Nat \ {0}, NEW blank \in S
  PROVE  deleteRow(rows, n, blank) \in Seq(S)
<1>1. CASE n > Len(rows)
  BY <1>1 DEF deleteRow
<1>2. CASE ~(n > Len(rows))
  <2>1. n \in DOMAIN rows
    BY <1>2
  <2> QED BY <2>1, Deleted
<1> QED BY <1>1, <1>2

LEMMA WithoutTyped ==
  ASSUME NEW S, NEW d, NEW tab, d[tab] \in Seq(S), NEW x
  PROVE  Without(d, tab, x) \in Seq(S)
<1> DEFINE same == {n \in DOMAIN d[tab] : Key(tab, d[tab][n].x) = Key(tab, x)}
<1>1. CASE same = {}
  BY <1>1 DEF Without
<1>2. CASE same # {}
  <2>1. (CHOOSE n \in same : TRUE) \in DOMAIN d[tab]
    BY <1>2
  <2>2. Without(d, tab, x) = RemoveAt(d[tab], CHOOSE n \in same : TRUE)
    BY <1>2 DEF Without
  <2> HIDE DEF same
  <2> QED BY <2>1, <2>2, Removed
<1> QED BY <1>1, <1>2

(* A write to a table.                                                     *)
LEMMA TableTyped ==
  ASSUME layout \in {"keys", "rows"}, NEW S, Blank \in S,
         NEW d, NEW cmd, d[cmd.x] \in Seq(S),
         cmd.op \in {"put", "set", "del"}, cmd.v \in S,
         cmd.at \in Nat, cmd.op # "put" => cmd.at # 0
  PROVE  \E new \in Seq(S) : Apply(d, cmd) = [d EXCEPT ![cmd.x] = new]
<1>1. CASE layout = "rows"
  <2>1. CASE cmd.op = "put"
    <3>1. Apply(d, cmd) = [d EXCEPT ![cmd.x] = Append(@, cmd.v)]
      BY <1>1, <2>1 DEF Apply
    <3>2. Append(d[cmd.x], cmd.v) \in Seq(S)
      OBVIOUS
    <3> QED BY <3>1, <3>2
  <2>2. CASE cmd.op = "set"
    <3>1. Apply(d, cmd) = [d EXCEPT ![cmd.x] = updateRow(@, cmd.at, cmd.v, Blank)]
      BY <1>1, <2>2 DEF Apply
    <3>2. updateRow(d[cmd.x], cmd.at, cmd.v, Blank) \in Seq(S)
      BY <2>2, Updated
    <3> QED BY <3>1, <3>2
  <2>3. CASE cmd.op = "del"
    <3>1. Apply(d, cmd) = [d EXCEPT ![cmd.x] = deleteRow(@, cmd.at, Blank)]
      BY <1>1, <2>3 DEF Apply
    <3>2. deleteRow(d[cmd.x], cmd.at, Blank) \in Seq(S)
      BY <2>3, Deleting
    <3> QED BY <3>1, <3>2
  <2> QED BY <2>1, <2>2, <2>3
<1>2. CASE layout = "keys"
  <2>1. Without(d, cmd.x, cmd.v.x) \in Seq(S)
    BY WithoutTyped
  <2>2. CASE cmd.op \in {"put", "set"}
    <3>1. Apply(d, cmd) = [d EXCEPT ![cmd.x] = Append(Without(d, cmd.x, cmd.v.x), cmd.v)]
      BY <1>2, <2>2 DEF Apply
    <3>2. Append(Without(d, cmd.x, cmd.v.x), cmd.v) \in Seq(S)
      BY <2>1
    <3> QED BY <3>1, <3>2
  <2>3. CASE cmd.op = "del"
    <3>1. Apply(d, cmd) = [d EXCEPT ![cmd.x] = Without(d, cmd.x, cmd.v.x)]
      BY <1>2, <2>3 DEF Apply
    <3> QED BY <2>1, <3>1
  <2> QED BY <2>2, <2>3
<1> QED BY <1>1, <1>2

LEMMA BlankTyped == Blank \in HookRow /\ Blank \in WaitRow
BY DEF Blank, Entry, HookRow, WaitRow

(* What a write does to the data, but for the tables.                      *)
LEMMA ApplyDoes ==
  ASSUME layout \in {"keys", "rows"}, NEW d \in Data, NEW cmd \in Command,
         cmd.op \notin Reading
  PROVE  LET D == Apply(d, cmd) IN
         /\ D \in Data
         /\ D.run = IF cmd.op = "run" THEN [d.run EXCEPT ![cmd.x] = cmd.v] ELSE d.run
         /\ D.step = IF cmd.op = "step" THEN [d.step EXCEPT ![cmd.x] = cmd.v] ELSE d.step
         /\ D.log = IF cmd.op = "append" THEN [d.log EXCEPT ![cmd.x] = Append(@, cmd.v)]
                    ELSE d.log
         /\ D.byStatus = IF cmd.op = "index"
                         THEN [d.byStatus EXCEPT ![cmd.v] = @ \union {cmd.x}]
                         ELSE IF cmd.op = "unindex"
                         THEN [d.byStatus EXCEPT ![cmd.v] = @ \ {cmd.x}]
                         ELSE d.byStatus
<1>1. CASE cmd \in [op : {"run", "index", "unindex"}, x : Run, v : RunStatus \ {"none"}, at : Nat]
  <2>1. /\ [d.run EXCEPT ![cmd.x] = cmd.v] \in [Run -> RunStatus]
        /\ [d.byStatus EXCEPT ![cmd.v] = @ \union {cmd.x}] \in [RunStatus -> SUBSET Run]
        /\ [d.byStatus EXCEPT ![cmd.v] = @ \ {cmd.x}] \in [RunStatus -> SUBSET Run]
    BY <1>1 DEF Data
  <2> QED BY <1>1, <2>1 DEF Apply, Data
<1>2. CASE cmd \in [op : {"step"}, x : Step, v : StepStatus, at : Nat]
  <2>1. [d.step EXCEPT ![cmd.x] = cmd.v] \in [Step -> StepStatus]
    BY <1>2, SMTT(40) DEF Data
  <2> QED BY <1>2, <2>1 DEF Apply, Data
<1>3. CASE cmd \in [op : {"append"}, x : Run, v : Event, at : Nat]
  <2>1. d.log \in [Run -> Seq(Event)] /\ cmd.x \in Run /\ cmd.v \in Event
    BY <1>3 DEF Data
  <2>2. [d.log EXCEPT ![cmd.x] = Append(@, cmd.v)] \in [Run -> Seq(Event)]
    BY <2>1
  <2> QED BY <1>3, <2>2 DEF Apply, Data
<1>4. CASE /\ \/ cmd \in [op : {"put", "set", "del"}, x : {"hooks", "tokens"}, v : HookRow, at : Nat]
              \/ cmd \in [op : {"put", "set", "del"}, x : {"waits"}, v : WaitRow, at : Nat]
           /\ cmd.op # "put" => cmd.at # 0
  <2>2. cmd.op # "put" => cmd.at # 0
    BY <1>4
  <2>3. CASE cmd.x = "hooks"
    <3>1. cmd.v \in HookRow /\ d[cmd.x] \in Seq(HookRow) /\ cmd.op \in {"put", "set", "del"} /\ cmd.at \in Nat
      BY <1>4, <2>3 DEF Data
    <3>2. \E new \in Seq(HookRow) : Apply(d, cmd) = [d EXCEPT ![cmd.x] = new]
      BY <2>2, <2>3, <3>1, TableTyped, BlankTyped
    <3> QED BY <1>4, <2>3, <3>2 DEF Data
  <2>4. CASE cmd.x = "tokens"
    <3>1. cmd.v \in HookRow /\ d[cmd.x] \in Seq(HookRow) /\ cmd.op \in {"put", "set", "del"} /\ cmd.at \in Nat
      BY <1>4, <2>4 DEF Data
    <3>2. \E new \in Seq(HookRow) : Apply(d, cmd) = [d EXCEPT ![cmd.x] = new]
      BY <2>2, <2>4, <3>1, TableTyped, BlankTyped
    <3> QED BY <1>4, <2>4, <3>2 DEF Data
  <2>5. CASE cmd.x = "waits"
    <3>1. cmd.v \in WaitRow /\ d[cmd.x] \in Seq(WaitRow) /\ cmd.op \in {"put", "set", "del"} /\ cmd.at \in Nat
      BY <1>4, <2>5 DEF Data
    <3>2. \E new \in Seq(WaitRow) : Apply(d, cmd) = [d EXCEPT ![cmd.x] = new]
      BY <2>2, <2>5, <3>1, TableTyped, BlankTyped
    <3> QED BY <1>4, <2>5, <3>2 DEF Data
  <2> QED BY <1>4, <2>3, <2>4, <2>5
<1>5. CASE cmd \in [op : {"list", "unlist", "claim", "dispose", "clean", "unclaim"}, x : Hook,
                    v : {""}, at : Nat] /\ cmd.op \in {"list", "unlist"}
  <2>1. d.byRun \union {cmd.x} \in SUBSET Hook /\ d.byRun \ {cmd.x} \in SUBSET Hook
    BY <1>5 DEF Data
  <2> QED BY <1>5, <2>1 DEF Apply, Data
<1>6. CASE cmd.op = "unclaim"
  BY <1>6 DEF Reading
<1> QED BY <1>1, <1>2, <1>3, <1>4, <1>5, <1>6, ZenonT(40) DEF Command, Reading

----------------------------------------------------------------------------
(* What is closed.                                                         *)

LEMMA RunOfTyped ==
  \A x \in Run \union Step \union Hook \union Wait : RunOf(x) \in Run
BY PolledStoreAssumption DEF RunOf

(* An entry of the log closes what it speaks of, or nothing.               *)
LEMMA Recorded ==
  ASSUME NEW d \in Data, NEW D, NEW r \in Run, NEW e \in Event, NEW x \in Step \union Run,
         DOMAIN D.log = Run, D.log[r] = Append(d.log[r], e),
         \A q \in Run : q # r => D.log[q] = d.log[q]
  PROVE  ClosedAt(D, x) = IF RunOf(x) = r /\ e.on = x /\ e.type \in Closing
                          THEN ClosedAt(d, x) \union {Len(d.log[r]) + 1}
                          ELSE ClosedAt(d, x)
<1>1. RunOf(x) \in Run
  BY RunOfTyped
<1>2. d.log \in [Run -> Seq(Event)]
  BY DEF Data
<1>3. CASE RunOf(x) # r
  <2>1. D.log[RunOf(x)] = d.log[RunOf(x)]
    BY <1>1, <1>2, <1>3
  <2> QED BY <1>3, <2>1 DEF ClosedAt
<1>4. CASE RunOf(x) = r
  <2>1. D.log[RunOf(x)] = Append(d.log[r], e)
    BY <1>2, <1>4
  <2> DEFINE old == d.log[r]
             new == Append(old, e)
  <2>2. old \in Seq(Event)
    BY <1>2
  <2>3. /\ Len(new) = Len(old) + 1
        /\ \A n \in 1..Len(old) : new[n] = old[n]
        /\ new[Len(old) + 1] = e
    BY <2>2
  <2>4. ClosedAt(D, x) = {n \in 1..Len(new) : new[n].on = x /\ new[n].type \in Closing}
    BY <2>1 DEF ClosedAt
  <2>5. ClosedAt(d, x) = {n \in 1..Len(old) : old[n].on = x /\ old[n].type \in Closing}
    BY <1>4 DEF ClosedAt
  <2>6. Len(old) \in Nat
    BY <2>2
  <2> HIDE DEF old, new
  <2>7. 1..Len(new) = 1..Len(old) \union {Len(old) + 1} /\ Len(old) + 1 \notin 1..Len(old)
    BY <2>3, <2>6
  <2>8. CASE e.on = x /\ e.type \in Closing
    <3>1. ClosedAt(D, x) = ClosedAt(d, x) \union {Len(old) + 1}
      BY <2>3, <2>4, <2>5, <2>7, <2>8
    <3> QED BY <1>4, <2>8, <3>1 DEF old
  <2>9. CASE ~(e.on = x /\ e.type \in Closing)
    <3>1. ClosedAt(D, x) = ClosedAt(d, x)
      BY <2>3, <2>4, <2>5, <2>7, <2>9
    <3> QED BY <1>4, <2>9, <3>1
  <2> QED BY <2>8, <2>9
<1> QED BY <1>3, <1>4

LEMMA ClosedFinite ==
  ASSUME NEW d \in Data, NEW x \in Step \union Run
  PROVE  IsFiniteSet(ClosedAt(d, x)) /\ ClosedAt(d, x) \subseteq Nat
<1>1. d.log[RunOf(x)] \in Seq(Event)
  BY RunOfTyped DEF Data
<1>2. IsFiniteSet(1..Len(d.log[RunOf(x)]))
  BY <1>1, FS_Interval
<1> QED BY <1>1, <1>2, FS_Subset DEF ClosedAt

(* At most one position is what Applied counts.                            *)
LEMMA AppliedIff ==
  ASSUME NEW d \in Data
  PROVE  Applied(d) <=> \A x \in Step \union Run :
                          /\ \A i, j \in ClosedAt(d, x) : i = j
                          /\ ClosedAt(d, x) # {} => StatusIn(d, x) \in RunTerminal
<1>1. SUFFICES ASSUME NEW x \in Step \union Run
               PROVE  Cardinality(ClosedAt(d, x)) <= 1 <=> \A i, j \in ClosedAt(d, x) : i = j
  BY <1>1 DEF Applied
<1> DEFINE S == ClosedAt(d, x)
<1>2. IsFiniteSet(S)
  BY ClosedFinite
<1> HIDE DEF S
<1>3. Cardinality(S) \in Nat
  BY <1>2, FS_CardinalityType
<1>4. CASE S = {}
  BY <1>4, FS_EmptySet DEF S
<1>5. CASE S # {}
  <2>1. PICK n \in S : TRUE
    BY <1>5
  <2>2. ASSUME \A i, j \in S : i = j
        PROVE  Cardinality(S) <= 1
    <3>1. S = {n}
      BY <2>1, <2>2
    <3> QED BY <3>1, FS_Singleton, SMTT(40)
  <2>3. ASSUME Cardinality(S) <= 1, NEW i \in S, NEW j \in S
        PROVE  i = j
    <3>1. Cardinality(S) # 0
      BY <1>2, <1>5, FS_EmptySet
    <3>2. Cardinality(S) = 1
      BY <1>3, <2>3, <3>1
    <3>3. \E y : S = {y}
      BY <1>2, <3>2, FS_Singleton
    <3> QED BY <3>3, <2>3
  <2> QED BY <2>2, <2>3 DEF S
<1> QED BY <1>4, <1>5

----------------------------------------------------------------------------
(* One write of a call.                                                    *)

LEMMA TailAt ==
  ASSUME NEW S, NEW s \in Seq(S), s # <<>>
  PROVE  /\ Tail(s) \in Seq(S) /\ Len(Tail(s)) = Len(s) - 1 /\ Len(s) \in Nat \ {0}
         /\ \A i \in 1..Len(Tail(s)) : Tail(s)[i] = s[i + 1]
         /\ Head(s) = s[1] /\ Head(s) \in S
OBVIOUS

(* What a write does to the status of x and to what is closed of it.       *)
LEMMA StatusAfter ==
  ASSUME layout \in {"keys", "rows"}, NEW d \in Data, NEW cmd \in Command,
         cmd.op \notin Reading, NEW x \in Step \union Run
  PROVE  LET D == Apply(d, cmd) IN
         /\ D \in Data
         /\ StatusIn(D, x) = IF Writes(cmd, x) THEN cmd.v ELSE StatusIn(d, x)
         /\ ~Closes(cmd, x) => ClosedAt(D, x) = ClosedAt(d, x)
         /\ Closes(cmd, x) => \/ ClosedAt(D, x) = ClosedAt(d, x)
                              \/ \E n \in Nat : ClosedAt(D, x) = ClosedAt(d, x) \union {n}
<1> DEFINE D == Apply(d, cmd)
<1>1. D \in Data
  BY ApplyDoes
<1>2. StatusIn(D, x) = IF Writes(cmd, x) THEN cmd.v ELSE StatusIn(d, x)
  <2>1. D.run = IF cmd.op = "run" THEN [d.run EXCEPT ![cmd.x] = cmd.v] ELSE d.run
    BY ApplyDoes
  <2>2. D.step = IF cmd.op = "step" THEN [d.step EXCEPT ![cmd.x] = cmd.v] ELSE d.step
    BY ApplyDoes
  <2>3. DOMAIN d.run = Run /\ DOMAIN d.step = Step
    BY DEF Data
  <2>4. /\ cmd.op = "run" => cmd.x \in Run
        /\ cmd.op = "step" => cmd.x \in Step
    BY DEF Command
  <2>5. Run \intersect Step = {}
    BY PolledStoreAssumption
  <2> HIDE DEF D
  <2>6. CASE x \in Run
    BY <2>1, <2>3, <2>4, <2>5, <2>6 DEF StatusIn, Writes
  <2>7. CASE x \in Step
    BY <2>2, <2>3, <2>4, <2>5, <2>7 DEF StatusIn, Writes
  <2> QED BY <2>6, <2>7
<1>3. CASE cmd.op # "append"
  <2>1. D.log = d.log
    BY <1>3, ApplyDoes
  <2>2. ClosedAt(D, x) = ClosedAt(d, x)
    BY <2>1 DEF ClosedAt
  <2> QED BY <1>1, <1>2, <1>3, <2>2 DEF Closes
<1>4. CASE cmd.op = "append"
  <2>1. D.log = [d.log EXCEPT ![cmd.x] = Append(@, cmd.v)]
    BY <1>4, ApplyDoes
  <2>2. cmd.x \in Run /\ cmd.v \in Event
    BY <1>4 DEF Command
  <2> HIDE DEF D
  <2>3. ClosedAt(D, x) = IF RunOf(x) = cmd.x /\ cmd.v.on = x /\ cmd.v.type \in Closing
                         THEN ClosedAt(d, x) \union {Len(d.log[cmd.x]) + 1}
                         ELSE ClosedAt(d, x)
    <3>1. DOMAIN d.log = Run
      BY DEF Data
    <3>2. /\ DOMAIN D.log = Run /\ D.log[cmd.x] = Append(d.log[cmd.x], cmd.v)
          /\ \A q \in Run : q # cmd.x => D.log[q] = d.log[q]
      BY <2>1, <2>2, <3>1
    <3> QED BY <2>2, <3>2, Recorded, SMTT(40)
  <2>4. Len(d.log[cmd.x]) + 1 \in Nat
    BY <2>2 DEF Data
  <2> QED BY <1>1, <1>2, <1>4, <2>3, <2>4 DEF Closes, D
<1> QED BY <1>3, <1>4

LEMMA OwnTail ==
  ASSUME NEW x, NEW cmds \in Seq(Command), cmds # <<>>, Own(x, cmds)
  PROVE  /\ Own(x, Tail(cmds))
         /\ \A y : Writes(Head(cmds), y) \/ Closes(Head(cmds), y) \/ Index(Head(cmds), y) => y = x
BY TailAt DEF Own, Writes, Closes, Index

LEMMA Written ==
  ASSUME layout \in {"keys", "rows"}, NEW d \in Data,
         NEW cmds \in Seq(Command), cmds # <<>>, Head(cmds).op \notin Reading,
         NEW x \in Step \union Run, ClosedOnce(x, d), Order(x, cmds, d)
  PROVE  /\ ClosedOnce(x, Apply(d, Head(cmds)))
         /\ Order(x, Tail(cmds), Apply(d, Head(cmds)))
<1> DEFINE cmd == Head(cmds)
           D == Apply(d, cmd)
           t == Tail(cmds)
<1>1. /\ t \in Seq(Command) /\ Len(t) = Len(cmds) - 1 /\ Len(cmds) \in Nat \ {0}
      /\ \A i \in 1..Len(t) : t[i] = cmds[i + 1]
      /\ cmd = cmds[1] /\ cmd \in Command
  BY TailAt
<1>2. /\ StatusIn(D, x) = IF Writes(cmd, x) THEN cmd.v ELSE StatusIn(d, x)
      /\ ~Closes(cmd, x) => ClosedAt(D, x) = ClosedAt(d, x)
      /\ Closes(cmd, x) => \/ ClosedAt(D, x) = ClosedAt(d, x)
                           \/ \E n \in Nat : ClosedAt(D, x) = ClosedAt(d, x) \union {n}
  BY <1>1, StatusAfter
<1> HIDE DEF cmd, D, t
<1>3. CASE Closes(cmd, x)
  <2>1. Len(cmds) = 1 /\ ClosedAt(d, x) = {} /\ StatusIn(d, x) \in RunTerminal
    BY <1>1, <1>3 DEF Order
  <2>2. ~Writes(cmd, x)
    BY <1>3 DEF Closes, Writes
  <2>3. ClosedOnce(x, D)
    BY <1>2, <1>3, <2>1, <2>2 DEF ClosedOnce
  <2>4. Order(x, t, D)
    BY <1>1, <2>1 DEF Order
  <2> QED BY <2>3, <2>4 DEF cmd, D, t
<1>4. CASE Writes(cmd, x) /\ ~Closes(cmd, x)
  <2>1. ClosedAt(D, x) = {} /\ StatusIn(D, x) = cmd.v
    BY <1>1, <1>2, <1>4 DEF Order
  <2>2. ClosedOnce(x, D)
    BY <2>1 DEF ClosedOnce
  <2>3. ASSUME NEW i \in 1..Len(t), Closes(t[i], x)
        PROVE  /\ i = Len(t)
               /\ StatusIn(D, x) \in RunTerminal
               /\ \A j \in 1..Len(t) : Writes(t[j], x) => t[j].v \in RunTerminal
    <3>1. i + 1 \in 1..Len(cmds) /\ Closes(cmds[i + 1], x)
      BY <1>1, <2>3
    <3>2. /\ i + 1 = Len(cmds)
          /\ \A j \in 1..Len(cmds) : Writes(cmds[j], x) => cmds[j].v \in RunTerminal
      BY <3>1 DEF Order
    <3> QED BY <1>1, <1>4, <2>1, <3>2
  <2>4. Order(x, t, D)
    BY <2>1, <2>3 DEF Order
  <2> QED BY <2>2, <2>4 DEF cmd, D, t
<1>5. CASE ~Writes(cmd, x) /\ ~Closes(cmd, x)
  <2>1. ClosedAt(D, x) = ClosedAt(d, x) /\ StatusIn(D, x) = StatusIn(d, x)
    BY <1>2, <1>5
  <2>2. ClosedOnce(x, D)
    BY <2>1 DEF ClosedOnce
  <2>3. ASSUME NEW i \in 1..Len(t)
        PROVE  /\ Writes(t[i], x) \/ Closes(t[i], x) => ClosedAt(D, x) = {}
               /\ Closes(t[i], x) =>
                    /\ i = Len(t)
                    /\ \/ StatusIn(D, x) \in RunTerminal
                       \/ \E j \in 1..Len(t) : j < i /\ Writes(t[j], x)
                    /\ \A j \in 1..Len(t) : Writes(t[j], x) => t[j].v \in RunTerminal
    <3>1. i + 1 \in 1..Len(cmds) /\ t[i] = cmds[i + 1]
      BY <1>1
    <3>2. Writes(t[i], x) \/ Closes(t[i], x) => ClosedAt(D, x) = {}
      BY <2>1, <3>1 DEF Order
    <3>3. ASSUME Closes(t[i], x)
          PROVE  /\ i = Len(t)
                 /\ \/ StatusIn(D, x) \in RunTerminal
                    \/ \E j \in 1..Len(t) : j < i /\ Writes(t[j], x)
                 /\ \A j \in 1..Len(t) : Writes(t[j], x) => t[j].v \in RunTerminal
      <4>1. /\ i + 1 = Len(cmds)
            /\ \/ StatusIn(d, x) \in RunTerminal
               \/ \E j \in 1..Len(cmds) : j < i + 1 /\ Writes(cmds[j], x)
            /\ \A j \in 1..Len(cmds) : Writes(cmds[j], x) => cmds[j].v \in RunTerminal
        BY <3>1, <3>3 DEF Order
      <4>2. ASSUME NEW j \in 1..Len(cmds), j < i + 1, Writes(cmds[j], x)
            PROVE  j - 1 \in 1..Len(t) /\ j - 1 < i /\ Writes(t[j - 1], x)
        BY <1>1, <1>5, <4>2
      <4> QED BY <1>1, <2>1, <4>1, <4>2, SMTT(40)
    <3> QED BY <3>2, <3>3
  <2>4. Order(x, t, D)
    BY <2>3 DEF Order
  <2> QED BY <2>2, <2>4 DEF cmd, D, t
<1> QED BY <1>3, <1>4, <1>5

(* A write that is not of x.                                               *)
LEMMA OthersWrite ==
  ASSUME layout \in {"keys", "rows"}, NEW d \in Data,
         NEW cmd \in Command, cmd.op \notin Reading,
         NEW x \in Step \union Run, ~Writes(cmd, x), ~Closes(cmd, x), NEW cmds
  PROVE  /\ ClosedOnce(x, d) => ClosedOnce(x, Apply(d, cmd))
         /\ Order(x, cmds, d) => Order(x, cmds, Apply(d, cmd))
<1>1. /\ StatusIn(Apply(d, cmd), x) = StatusIn(d, x)
      /\ ClosedAt(Apply(d, cmd), x) = ClosedAt(d, x)
  BY StatusAfter
<1> QED BY <1>1 DEF ClosedOnce, Order

----------------------------------------------------------------------------
(* The status index.                                                       *)

LEMMA IndexedAfter ==
  ASSUME layout \in {"keys", "rows"}, NEW d \in Data, NEW cmd \in Command,
         cmd.op \notin Reading, NEW r \in Run
  PROVE  LET D == Apply(d, cmd) IN
         /\ D.run[r] = IF cmd.op = "run" /\ cmd.x = r THEN cmd.v ELSE d.run[r]
         /\ D.run[r] \in RunStatus /\ d.run[r] \in RunStatus
         /\ \A st \in RunStatus :
              r \in D.byStatus[st] <=>
                \/ cmd.op = "index" /\ cmd.x = r /\ cmd.v = st
                \/ /\ ~(cmd.op = "unindex" /\ cmd.x = r /\ cmd.v = st)
                   /\ r \in d.byStatus[st]
<1> DEFINE D == Apply(d, cmd)
<1>1. D \in Data
  BY ApplyDoes
<1>2. D.run = IF cmd.op = "run" THEN [d.run EXCEPT ![cmd.x] = cmd.v] ELSE d.run
  BY ApplyDoes
<1>3. D.byStatus = IF cmd.op = "index"
                   THEN [d.byStatus EXCEPT ![cmd.v] = @ \union {cmd.x}]
                   ELSE IF cmd.op = "unindex"
                   THEN [d.byStatus EXCEPT ![cmd.v] = @ \ {cmd.x}]
                   ELSE d.byStatus
  BY ApplyDoes
<1> HIDE DEF D
<1>4. D.run[r] \in RunStatus /\ d.run[r] \in RunStatus
  BY <1>1 DEF Data
<1>5. D.run[r] = IF cmd.op = "run" /\ cmd.x = r THEN cmd.v ELSE d.run[r]
  BY <1>2 DEF Data, Command
<1>6. ASSUME NEW st \in RunStatus
      PROVE  r \in D.byStatus[st] <=>
                \/ cmd.op = "index" /\ cmd.x = r /\ cmd.v = st
                \/ /\ ~(cmd.op = "unindex" /\ cmd.x = r /\ cmd.v = st)
                   /\ r \in d.byStatus[st]
  <2>1. DOMAIN d.byStatus = RunStatus
    BY DEF Data
  <2>2. CASE cmd.op = "index"
    BY <1>3, <2>1, <2>2
  <2>3. CASE cmd.op = "unindex"
    BY <1>3, <2>1, <2>3
  <2>4. CASE cmd.op \notin {"index", "unindex"}
    BY <1>3, <2>4
  <2> QED BY <2>2, <2>3, <2>4
<1> QED BY <1>4, <1>5, <1>6 DEF D

(* A write that is not of r.                                               *)
LEMMA OthersIndex ==
  ASSUME layout \in {"keys", "rows"}, NEW d \in Data, NEW cmd \in Command,
         cmd.op \notin Reading, NEW r \in Run,
         cmd.op \in {"run", "index", "unindex"} => cmd.x # r, NEW cmds
  PROVE  /\ SoundFor(r, d) => SoundFor(r, Apply(d, cmd))
         /\ IndexOrder(r, cmds, d) => IndexOrder(r, cmds, Apply(d, cmd))
         /\ r \in Hidden(Apply(d, cmd)) => r \in Hidden(d)
<1> DEFINE D == Apply(d, cmd)
<1>1. /\ D.run[r] = d.run[r] /\ d.run[r] \in RunStatus
      /\ \A st \in RunStatus : r \in D.byStatus[st] <=> r \in d.byStatus[st]
  BY IndexedAfter
<1> HIDE DEF D
<1>2. SoundFor(r, d) => SoundFor(r, D)
  BY <1>1 DEF SoundFor
<1>3. r \in Hidden(D) => r \in Hidden(d)
  BY <1>1 DEF Hidden
<1>4. IndexOrder(r, cmds, d) => IndexOrder(r, cmds, D)
  BY <1>1 DEF IndexOrder
<1> QED BY <1>2, <1>3, <1>4 DEF D

LEMMA Relisted ==
  ASSUME NEW S, NEW cmds \in Seq(S), cmds # <<>>, NEW r
  PROVE  Relists(cmds, r) <=> Index(Head(cmds), r) \/ Relists(Tail(cmds), r)
<1>1. /\ Len(Tail(cmds)) = Len(cmds) - 1 /\ Len(cmds) \in Nat \ {0}
      /\ \A i \in 1..Len(Tail(cmds)) : Tail(cmds)[i] = cmds[i + 1]
      /\ Head(cmds) = cmds[1]
  BY TailAt
<1>2. ASSUME NEW i \in 1..Len(cmds), Index(cmds[i], r), ~Index(Head(cmds), r)
      PROVE  Relists(Tail(cmds), r)
  <2>1. i - 1 \in 1..Len(Tail(cmds)) /\ Tail(cmds)[i - 1] = cmds[i]
    BY <1>1, <1>2
  <2> QED BY <1>2, <2>1 DEF Relists
<1>3. ASSUME NEW i \in 1..Len(Tail(cmds)), Index(Tail(cmds)[i], r)
      PROVE  Relists(cmds, r)
  <2>1. i + 1 \in 1..Len(cmds)
    BY <1>1
  <2> QED BY <1>1, <1>3, <2>1 DEF Relists
<1>4. 1 \in 1..Len(cmds)
  BY <1>1
<1> QED BY <1>1, <1>2, <1>3, <1>4 DEF Relists

(* IndexOrder of what is left, when the first command neither writes the   *)
(* status nor takes the run into the index or out of it.                   *)
LEMMA IndexTail ==
  ASSUME NEW cmds \in Seq(Command), cmds # <<>>, NEW r \in Run, NEW d, IndexOrder(r, cmds, d),
         NEW D, D.run[r] = d.run[r],
         r \in D.byStatus[D.run[r]] =>
           r \in d.byStatus[d.run[r]] /\ Head(cmds) # Cmd("unindex", r, d.run[r]),
         ~Writes(Head(cmds), r)
  PROVE  IndexOrder(r, Tail(cmds), D)
<1> DEFINE t == Tail(cmds)
<1>1. /\ t \in Seq(Command) /\ Len(t) = Len(cmds) - 1 /\ Len(cmds) \in Nat \ {0}
      /\ \A i \in 1..Len(t) : t[i] = cmds[i + 1]
      /\ Head(cmds) = cmds[1]
  BY TailAt
<1> HIDE DEF t
<1>2. SUFFICES ASSUME NEW i \in 1..Len(t)
      PROVE
    /\ Index(t[i], r) =>
         \/ D.run[r] = t[i].v
         \/ \E j \in 1..Len(t) : j < i /\ Writes(t[j], r)
    /\ Writes(t[i], r) =>
         /\ \A j \in 1..Len(t) : Index(t[j], r) => i < j /\ t[i].v = t[j].v
         /\ \/ r \notin D.byStatus[D.run[r]]
            \/ \E j \in 1..Len(t) : j < i /\ t[j] = Cmd("unindex", r, D.run[r])
    /\ Writes(t[i], r) \/ (t[i].op = "unindex" /\ t[i].x = r) =>
         \E j \in 1..Len(t) : i < j /\ Index(t[j], r)
  BY DEF IndexOrder, t
<1>3. i + 1 \in 1..Len(cmds) /\ t[i] = cmds[i + 1] /\ i \in Nat \ {0}
  BY <1>1
<1>4. \A j \in 1..Len(cmds) : j # 1 => j - 1 \in 1..Len(t) /\ t[j - 1] = cmds[j]
  BY <1>1
<1>5. \A j \in 1..Len(t) : j + 1 \in 1..Len(cmds) /\ t[j] = cmds[j + 1]
  BY <1>1
<1>6. ASSUME Index(t[i], r)
      PROVE  \/ D.run[r] = t[i].v
             \/ \E j \in 1..Len(t) : j < i /\ Writes(t[j], r)
  <2>1. CASE d.run[r] = cmds[i + 1].v
    BY <1>3, <2>1
  <2>2. ASSUME NEW j \in 1..Len(cmds), j < i + 1, Writes(cmds[j], r)
        PROVE  j - 1 \in 1..Len(t) /\ j - 1 < i /\ Writes(t[j - 1], r)
    BY <1>1, <1>4, <2>2
  <2> QED BY <1>3, <1>6, <2>1, <2>2 DEF IndexOrder
<1>7. ASSUME Writes(t[i], r)
      PROVE  /\ \A j \in 1..Len(t) : Index(t[j], r) => i < j /\ t[i].v = t[j].v
             /\ \/ r \notin D.byStatus[D.run[r]]
                \/ \E j \in 1..Len(t) : j < i /\ t[j] = Cmd("unindex", r, D.run[r])
  <2>1. /\ \A j \in 1..Len(cmds) : Index(cmds[j], r) => i + 1 < j /\ cmds[i + 1].v = cmds[j].v
        /\ \/ r \notin d.byStatus[d.run[r]]
           \/ \E j \in 1..Len(cmds) : j < i + 1 /\ cmds[j] = Cmd("unindex", r, d.run[r])
    BY <1>3, <1>7 DEF IndexOrder
  <2>2. ASSUME NEW j \in 1..Len(t), Index(t[j], r)
        PROVE  i < j /\ t[i].v = t[j].v
    <3>1. j + 1 \in 1..Len(cmds) /\ Index(cmds[j + 1], r)
      BY <1>5, <2>2
    <3>2. i + 1 < j + 1 /\ cmds[i + 1].v = cmds[j + 1].v
      BY <2>1, <3>1
    <3> QED BY <1>3, <1>5, <3>2
  <2>3. ASSUME r \in D.byStatus[D.run[r]]
        PROVE  \E j \in 1..Len(t) : j < i /\ t[j] = Cmd("unindex", r, D.run[r])
    <3>1. PICK j \in 1..Len(cmds) : j < i + 1 /\ cmds[j] = Cmd("unindex", r, d.run[r])
      BY <2>1, <2>3
    <3>2. j # 1
      BY <1>1, <2>3, <3>1
    <3>3. j - 1 \in 1..Len(t) /\ j - 1 < i /\ t[j - 1] = cmds[j]
      BY <1>3, <1>4, <3>1, <3>2
    <3> QED BY <3>1, <3>3
  <2> QED BY <2>2, <2>3
<1>8. ASSUME Writes(t[i], r) \/ (t[i].op = "unindex" /\ t[i].x = r)
      PROVE  \E j \in 1..Len(t) : i < j /\ Index(t[j], r)
  <2>1. PICK j \in 1..Len(cmds) : i + 1 < j /\ Index(cmds[j], r)
    BY <1>3, <1>8 DEF IndexOrder
  <2>2. j - 1 \in 1..Len(t) /\ i < j - 1 /\ t[j - 1] = cmds[j]
    BY <1>3, <1>4, <2>1
  <2> QED BY <2>1, <2>2
<1> QED BY <1>6, <1>7, <1>8

LEMMA Indexed ==
  ASSUME layout \in {"keys", "rows"}, NEW d \in Data,
         NEW cmds \in Seq(Command), cmds # <<>>, Head(cmds).op \notin Reading,
         NEW r \in Run, SoundFor(r, d), IndexOrder(r, cmds, d)
  PROVE  LET D == Apply(d, Head(cmds)) IN
         /\ SoundFor(r, D)
         /\ IndexOrder(r, Tail(cmds), D)
         /\ r \in Hidden(D) /\ ~Relists(Tail(cmds), r) =>
              r \in Hidden(d) /\ ~Relists(cmds, r)
<1> DEFINE cmd == Head(cmds)
           D == Apply(d, cmd)
           t == Tail(cmds)
<1>1. /\ t \in Seq(Command) /\ Len(t) = Len(cmds) - 1 /\ Len(cmds) \in Nat \ {0}
      /\ \A i \in 1..Len(t) : t[i] = cmds[i + 1]
      /\ cmd = cmds[1] /\ cmd \in Command
  BY TailAt
<1>2. /\ D.run[r] = IF cmd.op = "run" /\ cmd.x = r THEN cmd.v ELSE d.run[r]
      /\ D.run[r] \in RunStatus /\ d.run[r] \in RunStatus
      /\ \A st \in RunStatus :
           r \in D.byStatus[st] <=>
             \/ cmd.op = "index" /\ cmd.x = r /\ cmd.v = st
             \/ /\ ~(cmd.op = "unindex" /\ cmd.x = r /\ cmd.v = st)
                /\ r \in d.byStatus[st]
  BY <1>1, IndexedAfter
<1>3. Relists(cmds, r) <=> Index(cmd, r) \/ Relists(t, r)
  BY Relisted
<1>4. 1 \in 1..Len(cmds)
  BY <1>1
<1> HIDE DEF cmd, D, t
<1>5. Writes(cmd, r) <=> cmd.op = "run" /\ cmd.x = r
  <2>1. cmd.op = "step" => cmd.x \in Step
    BY <1>1 DEF Command
  <2>2. r \notin Step
    BY PolledStoreAssumption
  <2> QED BY <2>1, <2>2 DEF Writes
<1>6. \A j \in 1..Len(cmds) : j < 1 => FALSE
  OBVIOUS
<1>7. CASE Writes(cmd, r)
  <2>1. /\ r \notin d.byStatus[d.run[r]]
        /\ \A j \in 1..Len(cmds) : Index(cmds[j], r) => cmd.v = cmds[j].v
        /\ \E j \in 1..Len(cmds) : Index(cmds[j], r)
    BY <1>1, <1>4, <1>6, <1>7 DEF IndexOrder
  <2>2. \A st \in RunStatus : r \notin D.byStatus[st]
    BY <1>2, <1>5, <1>7, <2>1 DEF SoundFor
  <2>3. SoundFor(r, D)
    BY <2>2 DEF SoundFor
  <2>4. ~Index(cmd, r)
    BY <1>7 DEF Index, Writes
  <2>5. Relists(t, r)
    BY <1>3, <2>1, <2>4 DEF Relists
  <2>6. D.run[r] = cmd.v
    BY <1>2, <1>5, <1>7
  <2>7. IndexOrder(r, t, D)
    <3>1. SUFFICES ASSUME NEW i \in 1..Len(t)
          PROVE
        /\ Index(t[i], r) => D.run[r] = t[i].v
        /\ Writes(t[i], r) =>
             \A j \in 1..Len(t) : Index(t[j], r) => i < j /\ t[i].v = t[j].v
        /\ Writes(t[i], r) \/ (t[i].op = "unindex" /\ t[i].x = r) =>
             \E j \in 1..Len(t) : i < j /\ Index(t[j], r)
      BY <1>2, <2>2, <3>1 DEF IndexOrder
    <3>2. i + 1 \in 1..Len(cmds) /\ t[i] = cmds[i + 1] /\ i \in Nat \ {0}
      BY <1>1
    <3>3. Index(t[i], r) => D.run[r] = t[i].v
      BY <2>1, <2>6, <3>2
    <3>4. ASSUME Writes(t[i], r), NEW j \in 1..Len(t), Index(t[j], r)
          PROVE  i < j /\ t[i].v = t[j].v
      <4>1. j + 1 \in 1..Len(cmds) /\ t[j] = cmds[j + 1]
        BY <1>1
      <4>2. i + 1 < j + 1 /\ cmds[i + 1].v = cmds[j + 1].v
        BY <3>2, <3>4, <4>1 DEF IndexOrder
      <4> QED BY <3>2, <4>1, <4>2
    <3>5. ASSUME Writes(t[i], r) \/ (t[i].op = "unindex" /\ t[i].x = r)
          PROVE  \E j \in 1..Len(t) : i < j /\ Index(t[j], r)
      <4>1. PICK j \in 1..Len(cmds) : i + 1 < j /\ Index(cmds[j], r)
        BY <3>2, <3>5 DEF IndexOrder
      <4>2. j - 1 \in 1..Len(t) /\ i < j - 1 /\ t[j - 1] = cmds[j]
        BY <1>1, <3>2, <4>1
      <4> QED BY <4>1, <4>2
    <3> QED BY <3>3, <3>4, <3>5
  <2> QED BY <2>3, <2>5, <2>7 DEF cmd, D, t
<1>8. CASE Index(cmd, r)
  <2>1. d.run[r] = cmd.v
    BY <1>1, <1>4, <1>6, <1>8 DEF IndexOrder
  <2>2. D.run[r] = cmd.v /\ cmd.op = "index" /\ cmd.x = r
    BY <1>2, <1>8, <2>1 DEF Index
  <2>0. cmd.v # "none"
    BY <1>1, <2>2 DEF Command
  <2>3. SoundFor(r, D)
    BY <1>2, <2>0, <2>1, <2>2 DEF SoundFor
  <2>4. r \notin Hidden(D)
    BY <1>2, <2>2 DEF Hidden
  <2>5. \A j \in 1..Len(cmds) : ~Writes(cmds[j], r)
    <3>1. ASSUME NEW j \in 1..Len(cmds), Writes(cmds[j], r)
          PROVE  FALSE
      <4>1. j < 1
        BY <1>1, <1>4, <1>8, <3>1 DEF IndexOrder
      <4> QED BY <4>1
    <3> QED BY <3>1
  <2>6. IndexOrder(r, t, D)
    <3>1. SUFFICES ASSUME NEW i \in 1..Len(t)
          PROVE
        /\ Index(t[i], r) => D.run[r] = t[i].v
        /\ ~Writes(t[i], r)
        /\ t[i].op = "unindex" /\ t[i].x = r =>
             \E j \in 1..Len(t) : i < j /\ Index(t[j], r)
      BY <3>1 DEF IndexOrder
    <3>2. i + 1 \in 1..Len(cmds) /\ t[i] = cmds[i + 1] /\ i \in Nat \ {0}
      BY <1>1
    <3>3. Index(t[i], r) => D.run[r] = t[i].v
      BY <2>1, <2>2, <2>5, <3>2 DEF IndexOrder
    <3>4. ASSUME t[i].op = "unindex" /\ t[i].x = r
          PROVE  \E j \in 1..Len(t) : i < j /\ Index(t[j], r)
      <4>1. PICK j \in 1..Len(cmds) : i + 1 < j /\ Index(cmds[j], r)
        BY <3>2, <3>4 DEF IndexOrder
      <4>2. j - 1 \in 1..Len(t) /\ i < j - 1 /\ t[j - 1] = cmds[j]
        BY <1>1, <3>2, <4>1
      <4> QED BY <4>1, <4>2
    <3> QED BY <2>5, <3>2, <3>3, <3>4
  <2> QED BY <2>3, <2>4, <2>6 DEF cmd, D, t
<1>9. CASE ~Writes(cmd, r) /\ ~Index(cmd, r)
  <2>1. D.run[r] = d.run[r]
    BY <1>2, <1>5, <1>9
  <2>2. \A st \in RunStatus : r \in D.byStatus[st] =>
          r \in d.byStatus[st] /\ ~(cmd.op = "unindex" /\ cmd.x = r /\ cmd.v = st)
    BY <1>2, <1>9 DEF Index
  <2>3. SoundFor(r, D)
    BY <2>1, <2>2 DEF SoundFor
  <2>4. r \in D.byStatus[D.run[r]] =>
          r \in d.byStatus[d.run[r]] /\ cmd # Cmd("unindex", r, d.run[r])
    <3>1. Cmd("unindex", r, d.run[r]).op = "unindex" /\ Cmd("unindex", r, d.run[r]).x = r
          /\ Cmd("unindex", r, d.run[r]).v = d.run[r]
      BY DEF Cmd
    <3> QED BY <1>2, <2>1, <2>2, <3>1
  <2>5. IndexOrder(r, t, D)
    BY <1>9, <2>1, <2>4, IndexTail DEF cmd, t
  <2>6. CASE cmd.op = "unindex" /\ cmd.x = r
    <3>1. \E j \in 1..Len(cmds) : Index(cmds[j], r)
      BY <1>1, <1>4, <2>6 DEF IndexOrder
    <3>2. Relists(t, r)
      BY <1>3, <1>9, <3>1 DEF Relists
    <3> QED BY <2>3, <2>5, <3>2 DEF cmd, D, t
  <2>7. CASE ~(cmd.op = "unindex" /\ cmd.x = r)
    <3>1. r \in Hidden(D) => r \in Hidden(d)
      BY <1>2, <2>1, <2>7 DEF Hidden
    <3> QED BY <1>3, <1>9, <2>3, <2>5, <3>1 DEF cmd, D, t
  <2> QED BY <2>6, <2>7
<1> QED BY <1>7, <1>8, <1>9

----------------------------------------------------------------------------
(* What a read comes to: commands that say nothing of a status.            *)

CalmList(s) == s \in Seq(Command) /\ \A i \in 1..Len(s) : Calm(s[i])

LEMMA CalmOne ==
  ASSUME NEW a \in Command, Calm(a)
  PROVE  CalmList(<<a>>)
BY DEF CalmList

LEMMA CalmTwo ==
  ASSUME NEW a \in Command, Calm(a), NEW b \in Command, Calm(b)
  PROVE  CalmList(<<a, b>>)
BY DEF CalmList

LEMMA CalmJoin ==
  ASSUME NEW s, CalmList(s), NEW t, CalmList(t)
  PROVE  CalmList(s \o t)
<1>1. /\ s \o t \in Seq(Command) /\ Len(s \o t) = Len(s) + Len(t)
      /\ Len(s) \in Nat /\ Len(t) \in Nat
      /\ \A i \in 1..Len(s) + Len(t) : (s \o t)[i] = IF i <= Len(s) THEN s[i] ELSE t[i - Len(s)]
  BY DEF CalmList
<1>2. ASSUME NEW i \in 1..Len(s) + Len(t)
      PROVE  Calm((s \o t)[i])
  <2>1. CASE i <= Len(s)
    BY <1>1, <2>1 DEF CalmList
  <2>2. CASE ~(i <= Len(s))
    <3>1. i - Len(s) \in 1..Len(t)
      BY <1>1, <2>2
    <3> QED BY <1>1, <2>2, <3>1 DEF CalmList
  <2> QED BY <2>1, <2>2
<1> QED BY <1>1, <1>2 DEF CalmList

LEMMA CalmEmpty == CalmList(<<>>)
BY DEF CalmList

LEMMA CalmHere ==
  ASSUME NEW n \in Nat, NEW f, DOMAIN f = 1..n,
         \A i \in 1..n : f[i] \in Command /\ Calm(f[i]), f = [i \in 1..n |-> f[i]]
  PROVE  CalmList(f)
<1>1. f \in [1..n -> Command]
  OBVIOUS
<1>2. f \in Seq(Command) /\ Len(f) = n
  BY <1>1
<1> QED BY <1>2 DEF CalmList

LEMMA CmdTyped ==
  /\ \A r \in Run : \A e \in Event :
       /\ Cmd("append", r, e) \in Command
       /\ e.type \notin Closing => Calm(Cmd("append", r, e))
  /\ \A op \in {"list", "unlist", "claim", "dispose", "clean", "unclaim"} : \A h \in Hook :
       Cmd(op, h, "") \in Command /\ Calm(Cmd(op, h, ""))
  /\ \A op \in {"hooks", "waits"} : \A r \in Run :
       Cmd(op, r, "") \in Command /\ Calm(Cmd(op, r, ""))
<1>1. ASSUME NEW r \in Run, NEW e \in Event
      PROVE  /\ Cmd("append", r, e) \in Command
             /\ e.type \notin Closing => Calm(Cmd("append", r, e))
  BY DEF Cmd, Command, Calm
<1>2. ASSUME NEW op \in {"list", "unlist", "claim", "dispose", "clean", "unclaim"}, NEW h \in Hook
      PROVE  Cmd(op, h, "") \in Command /\ Calm(Cmd(op, h, ""))
  BY DEF Cmd, Command, Calm
<1>3. ASSUME NEW op \in {"hooks", "waits"}, NEW r \in Run
      PROVE  Cmd(op, r, "") \in Command /\ Calm(Cmd(op, r, ""))
  BY DEF Cmd, Command, Calm
<1> QED BY <1>1, <1>2, <1>3

LEMMA RecordTyped ==
  ASSUME NEW x \in Run \union Step \union Hook \union Wait, NEW type \in EventType
  PROVE  /\ Record(type, x) = <<Cmd("append", RunOf(x), [type |-> type, on |-> x])>>
         /\ Cmd("append", RunOf(x), [type |-> type, on |-> x]) \in Command
         /\ Record(type, x) \in Seq(Command)
         /\ type \notin Closing => CalmList(Record(type, x))
<1> DEFINE e == [type |-> type, on |-> x]
<1>1. RunOf(x) \in Run
  BY RunOfTyped
<1>2. e \in Event /\ e.type = type
  BY DEF Event
<1> HIDE DEF e
<1>3. /\ Cmd("append", RunOf(x), e) \in Command
      /\ type \notin Closing => Calm(Cmd("append", RunOf(x), e))
  BY <1>1, <1>2, CmdTyped
<1>4. type \notin Closing => CalmList(<<Cmd("append", RunOf(x), e)>>)
  BY <1>3, CalmOne
<1> QED BY <1>3, <1>4 DEF Record, e

(* Rows of a table, as read.                                               *)
Read(S, id) == [at : Nat \ {0}, row : {v \in S : v.x \in id}]

LEMMA FoundAll ==
  ASSUME NEW S, NEW rows \in Seq(S), NEW id, NEW x \in id, NEW j \in Find(rows, x)
  PROVE  j \in Read(S, id)
<1>2. j \in Range(getAllRows(rows)) /\ j.row.x = x
  BY DEF Find
<1>3. PICK n \in DOMAIN rows : j = [at |-> n, row |-> rows[n]]
  BY <1>2 DEF Range, getAllRows
<1>4. n \in Nat \ {0} /\ rows[n] \in S
  BY <1>3
<1> QED BY <1>2, <1>3, <1>4 DEF Read

LEMMA Found ==
  ASSUME NEW S, NEW rows \in Seq(S), NEW id, NEW x \in id, Has(rows, x)
  PROVE  /\ (CHOOSE j \in Find(rows, x) : TRUE) \in Read(S, id)
         /\ (CHOOSE j \in Find(rows, x) : TRUE).row.x = x
<1> DEFINE j == CHOOSE k \in Find(rows, x) : TRUE
<1>1. j \in Find(rows, x)
  BY DEF Has
<1> HIDE DEF j
<1>2. j.row.x = x
  BY <1>1 DEF Find
<1> QED BY <1>1, <1>2, FoundAll DEF j

LEMMA DelTyped ==
  /\ \A j \in Read(HookRow, Hook) : \A tab \in {"hooks", "tokens"} :
       Del(tab, j) \in Command /\ Calm(Del(tab, j))
  /\ \A j \in Read(WaitRow, Wait) : Del("waits", j) \in Command /\ Calm(Del("waits", j))
<1>1. ASSUME NEW j \in Read(HookRow, Hook), NEW tab \in {"hooks", "tokens"}
      PROVE  Del(tab, j) \in Command /\ Calm(Del(tab, j))
  <2>1. j.row \in HookRow /\ j.at \in Nat /\ j.at # 0
    BY DEF Read
  <2>2. Del(tab, j) \in [op : {"put", "set", "del"}, x : {"hooks", "tokens"}, v : HookRow, at : Nat]
        /\ Del(tab, j).at # 0 /\ Del(tab, j).op = "del"
    BY <2>1 DEF Del
  <2> QED BY <2>2 DEF Command, Calm
<1>2. ASSUME NEW j \in Read(WaitRow, Wait)
      PROVE  Del("waits", j) \in Command /\ Calm(Del("waits", j))
  <2>1. j.row \in WaitRow /\ j.at \in Nat /\ j.at # 0
    BY DEF Read
  <2>2. Del("waits", j) \in [op : {"put", "set", "del"}, x : {"waits"}, v : WaitRow, at : Nat]
        /\ Del("waits", j).at # 0 /\ Del("waits", j).op = "del"
    BY <2>1 DEF Del
  <2> QED BY <2>2 DEF Command, Calm
<1> QED BY <1>1, <1>2

LEMMA HookGoneTyped ==
  ASSUME NEW j \in Read(HookRow, Hook)
  PROVE  /\ HookGone(j) = <<HookGone(j)[1], HookGone(j)[2]>>
         /\ \A k \in {1, 2} : HookGone(j)[k] \in Command /\ Calm(HookGone(j)[k])
<1>1. /\ Del("hooks", j) \in Command /\ Calm(Del("hooks", j))
      /\ Del("tokens", j) \in Command /\ Calm(Del("tokens", j))
  BY DelTyped
<1>2. j.row.x \in Hook
  BY DEF Read
<1>3. Cmd("unclaim", j.row.x, "") \in Command /\ Calm(Cmd("unclaim", j.row.x, ""))
  BY <1>2, CmdTyped
<1> DEFINE a == Del("hooks", j)
           b == IF layout = "rows" THEN Cmd("unclaim", j.row.x, "") ELSE Del("tokens", j)
<1>4. HookGone(j) = <<a, b>>
  BY DEF HookGone
<1>5. a \in Command /\ Calm(a) /\ b \in Command /\ Calm(b)
  BY <1>1, <1>3
<1> HIDE DEF a, b
<1> QED BY <1>4, <1>5

(* The positions of a set, counted from the last one.                      *)
LEMMA Ranked ==
  ASSUME NEW N \in Nat, NEW mine \in SUBSET (1..N)
  PROVE  /\ Cardinality(mine) \in Nat
         /\ \A k \in 1..Cardinality(mine) :
              \E n \in mine : Cardinality({m \in mine : m >= n}) = k
         /\ \A n \in mine : Cardinality({m \in mine : m >= n}) \in 1..Cardinality(mine)
         /\ \A a, b \in mine :
              Cardinality({m \in mine : m >= a}) = Cardinality({m \in mine : m >= b}) => a = b
<1> DEFINE Up(n) == {m \in mine : m >= n}
           c == Cardinality(mine)
           f == [n \in mine |-> Cardinality(Up(n))]
<1>1. IsFiniteSet(mine)
  <2>1. IsFiniteSet(1..N)
    BY FS_Interval
  <2> QED BY <2>1, FS_Subset
<1>2. c \in Nat
  BY <1>1, FS_CardinalityType
<1>3. ASSUME NEW n \in mine
      PROVE  /\ IsFiniteSet(Up(n)) /\ Cardinality(Up(n)) \in 1..c /\ n \in Up(n)
  <2>1. n \in Up(n) /\ Up(n) \in SUBSET mine
    OBVIOUS
  <2> DEFINE U == Up(n)
  <2> HIDE DEF U
  <2>2. U \in SUBSET mine /\ n \in U
    BY <2>1 DEF U
  <2>3. IsFiniteSet(U) /\ Cardinality(U) <= c
    BY <1>1, <2>2, FS_Subset
  <2>4. Cardinality(U) \in Nat
    BY <2>3, FS_CardinalityType
  <2>5. Cardinality(U) # 0
    BY <2>2, <2>3, FS_EmptySet
  <2>6. Cardinality(U) \in 1..c
    BY <1>2, <2>3, <2>4, <2>5
  <2> QED BY <2>2, <2>3, <2>6 DEF U
<1>4. ASSUME NEW a \in mine, NEW b \in mine, a < b, Cardinality(Up(a)) = Cardinality(Up(b))
      PROVE  FALSE
  <2>0. a \in Nat /\ b \in Nat /\ \A m \in mine : m \in Nat
    OBVIOUS
  <2>1. Up(b) \in SUBSET Up(a) /\ a \in Up(a) /\ a \notin Up(b)
    <3>1. \A m \in mine : m >= b => m >= a
      BY <1>4, <2>0
    <3>2. a >= a /\ ~(a >= b)
      BY <1>4, <2>0
    <3> QED BY <3>1, <3>2
  <2>2. Up(a) = Up(b)
    <3> DEFINE A == Up(a)
               B == Up(b)
    <3>1. IsFiniteSet(A) /\ B \in SUBSET A /\ Cardinality(A) = Cardinality(B)
      BY <1>3, <1>4, <2>1
    <3> HIDE DEF A, B
    <3>2. A = B
      BY <3>1, FS_Subset
    <3> QED BY <3>2 DEF A, B
  <2> QED BY <2>1, <2>2
<1>5. f \in Injection(mine, 1..c)
  <2>1. f \in [mine -> 1..c]
    BY <1>3
  <2>2. ASSUME NEW a \in mine, NEW b \in mine, f[a] = f[b]
        PROVE  a = b
    <3>1. Cardinality(Up(a)) = Cardinality(Up(b)) /\ Cardinality(Up(b)) = Cardinality(Up(a))
      BY <2>2
    <3>2. ~(a < b) /\ ~(b < a)
      BY <1>4, <3>1
    <3> QED BY <3>2
  <2>3. IsInjective(f)
    BY <2>2 DEF IsInjective
  <2> QED BY <2>1, <2>3 DEF Injection
<1>6. IsFiniteSet(1..c) /\ Cardinality(1..c) = c
  BY <1>2, FS_Interval
<1> HIDE DEF f
<1>7. f \in Surjection(mine, 1..c)
  BY <1>5, <1>6, FS_Injection
<1>8. ASSUME NEW k \in 1..c
      PROVE  \E n \in mine : f[n] = k
  BY <1>7 DEF Surjection
<1>9. \A n \in mine : f[n] = Cardinality({m \in mine : m >= n})
  BY DEF f
<1>10. \A n \in mine : Cardinality(Up(n)) \in 1..c
  BY <1>3
<1>11. ASSUME NEW a \in mine, NEW b \in mine, Cardinality(Up(a)) = Cardinality(Up(b))
       PROVE  a = b
  <2>1. ~(a < b) /\ ~(b < a)
    BY <1>4, <1>11
  <2> QED BY <2>1
<1> QED BY <1>2, <1>8, <1>9, <1>10, <1>11

LEMMA MineTyped ==
  ASSUME NEW S, NEW d, NEW tab, d[tab] \in Seq(S), NEW id, \A v \in S : v.x \in id \union {None},
         None \notin id, NEW r
  PROVE  /\ Mine(d, tab, r) \in Seq(Read(S, id))
<1> DEFINE mine == {n \in DOMAIN d[tab] : d[tab][n].x # None /\ RunOf(d[tab][n].x) = r}
           Nth(k) == CHOOSE n \in mine : Cardinality({m \in mine : m >= n}) = k
           c == Cardinality(mine)
<1>1. Len(d[tab]) \in Nat /\ DOMAIN d[tab] = 1..Len(d[tab]) /\ mine \in SUBSET (1..Len(d[tab]))
  OBVIOUS
<1>2. c \in Nat /\ \A k \in 1..c : \E n \in mine : Cardinality({m \in mine : m >= n}) = k
  <2> HIDE DEF mine
  <2> QED BY <1>1, Ranked
<1>3. ASSUME NEW k \in 1..c
      PROVE  getAllRows(d[tab])[Nth(k)] \in Read(S, id)
  <2>1. Nth(k) \in mine
    <3> HIDE DEF mine
    <3> QED BY <1>2
  <2> DEFINE n == Nth(k)
  <2> HIDE DEF n
  <2>2. n \in DOMAIN d[tab] /\ d[tab][n].x # None
    BY <2>1 DEF n
  <2>3. n \in Nat \ {0} /\ d[tab][n] \in S /\ d[tab][n].x \in id
    BY <2>2
  <2>4. getAllRows(d[tab])[n] = [at |-> n, row |-> d[tab][n]]
    BY <2>2 DEF getAllRows
  <2>5. getAllRows(d[tab])[n] \in Read(S, id)
    BY <2>3, <2>4 DEF Read
  <2> HIDE DEF mine, Nth
  <2> QED BY <2>5 DEF n
<1>4. Mine(d, tab, r) = [k \in 1..c |-> getAllRows(d[tab])[Nth(k)]]
  BY DEF Mine
<1> HIDE DEF mine, Nth, c
<1>5. Mine(d, tab, r) \in [1..c -> Read(S, id)]
  BY <1>3, <1>4
<1> QED BY <1>2, <1>5

LEMMA Listed ==
  ASSUME NEW S, IsFiniteSet(S)
  PROVE  SetToSeq(S) \in Seq(S)
<1>1. Cardinality(S) \in Nat /\ ExistsBijection(1..Cardinality(S), S)
  BY FS_CardinalityType
<1>2. \E f \in [1..Cardinality(S) -> S] : IsInjective(f)
  BY <1>1 DEF ExistsBijection, Bijection, Injection
<1>3. SetToSeq(S) \in [1..Cardinality(S) -> S]
  BY <1>2 DEF SetToSeq
<1> QED BY <1>1, <1>3

LEMMA PutTyped ==
  /\ \A h \in Hook : /\ Put("tokens", h, "claim") \in Command /\ Calm(Put("tokens", h, "claim"))
                     /\ Put("hooks", h, "live") \in Command /\ Calm(Put("hooks", h, "live"))
  /\ \A w \in Wait : Put("waits", w, "waiting") \in Command /\ Calm(Put("waits", w, "waiting"))
<1>1. ASSUME NEW h \in Hook, NEW tab \in {"hooks", "tokens"}, NEW st \in {"live", "claim"}
      PROVE  Put(tab, h, st) \in Command /\ Calm(Put(tab, h, st))
  <2>1. Entry(h, st) \in HookRow
    BY DEF Entry, HookRow
  <2>2. Put(tab, h, st) = [op |-> "put", x |-> tab, v |-> Entry(h, st), at |-> 0]
    BY DEF Put, Cmd
  <2>3. /\ Put(tab, h, st) \in [op : {"put", "set", "del"}, x : {"hooks", "tokens"}, v : HookRow,
                               at : Nat]
        /\ Put(tab, h, st).op = "put"
    BY <2>1, <2>2
  <2> QED BY <2>3 DEF Command, Calm
<1>2. ASSUME NEW w \in Wait
      PROVE  Put("waits", w, "waiting") \in Command /\ Calm(Put("waits", w, "waiting"))
  <2>1. Entry(w, "waiting") \in WaitRow
    BY DEF Entry, WaitRow
  <2>2. Put("waits", w, "waiting") = [op |-> "put", x |-> "waits", v |-> Entry(w, "waiting"), at |-> 0]
    BY DEF Put, Cmd
  <2>3. /\ Put("waits", w, "waiting") \in [op : {"put", "set", "del"}, x : {"waits"}, v : WaitRow,
                                        at : Nat]
        /\ Put("waits", w, "waiting").op = "put"
    BY <2>1, <2>2
  <2> QED BY <2>3 DEF Command, Calm
<1> QED BY <1>1, <1>2

LEMMA SetTyped ==
  ASSUME NEW j \in Read(WaitRow, Wait)
  PROVE  Set("waits", j, "completed") \in Command /\ Calm(Set("waits", j, "completed"))
<1>1. j.row.x \in Wait /\ j.at \in Nat /\ j.at # 0
  BY DEF Read
<1>2. Entry(j.row.x, "completed") \in WaitRow
  BY <1>1 DEF Entry, WaitRow
<1>3. Set("waits", j, "completed") =
        [op |-> "set", x |-> "waits", v |-> Entry(j.row.x, "completed"), at |-> j.at]
  BY DEF Set
<1>4. /\ Set("waits", j, "completed") \in [op : {"put", "set", "del"}, x : {"waits"}, v : WaitRow,
                                        at : Nat]
      /\ Set("waits", j, "completed").op = "set" /\ Set("waits", j, "completed").at # 0
  BY <1>1, <1>2, <1>3
<1> QED BY <1>4 DEF Command, Calm

LEMMA ExpandCalm ==
  ASSUME layout \in {"keys", "rows"}, NEW d \in Data, NEW cmd \in Command, cmd.op \in Reading
  PROVE  CalmList(Expand(d, cmd))
<1>0. /\ d.hooks \in Seq(HookRow) /\ d.tokens \in Seq(HookRow) /\ d.waits \in Seq(WaitRow)
      /\ d.byRun \in SUBSET Hook /\ None \notin Hook /\ None \notin Wait
  BY PolledStoreAssumption DEF Data
<1>1. CASE cmd.op = "claim"
  <2>1. cmd.x \in Hook
    BY <1>1 DEF Command
  <2>2. CASE Taken(d, cmd.x)
    <3>1. Expand(d, cmd) = Record("hook_conflict", cmd.x)
      BY <1>1, <2>2 DEF Expand
    <3> QED BY <2>1, <3>1, RecordTyped DEF EventType, Closing
  <2>3. CASE ~Taken(d, cmd.x)
    <3> DEFINE a == <<Put("tokens", cmd.x, "claim"), Put("hooks", cmd.x, "live")>>
               b == IF layout = "keys" THEN <<Cmd("list", cmd.x, "")>> ELSE <<>>
               c == Record("hook_created", cmd.x)
    <3>1. Expand(d, cmd) = a \o b \o c
      BY <1>1, <2>3 DEF Expand
    <3>2. CalmList(a)
      BY <2>1, PutTyped, CalmTwo
    <3>3. CalmList(b)
      <4>1. CalmList(<<Cmd("list", cmd.x, "")>>)
        BY <2>1, CmdTyped, CalmOne
      <4> QED BY <4>1, CalmEmpty
    <3>4. CalmList(c)
      BY <2>1, RecordTyped DEF EventType, HookTypes, Closing
    <3> HIDE DEF a, b, c
    <3>5. CalmList(a \o b)
      BY <3>2, <3>3, CalmJoin
    <3> QED BY <3>1, <3>4, <3>5, CalmJoin
  <2> QED BY <2>2, <2>3
<1>2. CASE cmd.op = "unclaim"
  <2>1. cmd.x \in Hook
    BY <1>2 DEF Command
  <2>2. CASE ~Has(d.tokens, cmd.x)
    BY <1>2, <2>2, CalmEmpty DEF Expand
  <2>3. CASE Has(d.tokens, cmd.x)
    <3> DEFINE j == CHOOSE k \in Find(d.tokens, cmd.x) : TRUE
    <3>1. j \in Read(HookRow, Hook)
      BY <1>0, <2>1, <2>3, Found
    <3>2. Expand(d, cmd) = <<Del("tokens", j)>>
      BY <1>2, <2>3 DEF Expand
    <3> HIDE DEF j
    <3> QED BY <3>1, <3>2, DelTyped, CalmOne
  <2> QED BY <2>2, <2>3
<1>3. CASE cmd.op \in {"clean", "dispose"}
  <2>1. cmd.x \in Hook
    BY <1>3 DEF Command
  <2>2. CASE ~Has(d.hooks, cmd.x)
    BY <1>3, <2>2, CalmEmpty DEF Expand
  <2>3. CASE Has(d.hooks, cmd.x)
    <3> DEFINE j == CHOOSE k \in Find(d.hooks, cmd.x) : TRUE
               gone == HookGone(j)
               more == <<Head(gone), Cmd("unlist", cmd.x, "")>> \o Tail(gone)
    <3>1. j \in Read(HookRow, Hook)
      BY <1>0, <2>1, <2>3, Found
    <3>2. Expand(d, cmd) = gone \/ Expand(d, cmd) = more
      BY <1>3, <2>3 DEF Expand
    <3> HIDE DEF j
    <3>3. /\ gone = <<gone[1], gone[2]>>
          /\ gone[1] \in Command /\ Calm(gone[1]) /\ gone[2] \in Command /\ Calm(gone[2])
      BY <3>1, HookGoneTyped
    <3> HIDE DEF gone
    <3>4. CalmList(gone)
      BY <3>3, CalmTwo
    <3>5. Head(gone) = gone[1] /\ Tail(gone) = <<gone[2]>>
      <4> DEFINE a == gone[1]
                 b == gone[2]
      <4>1. gone = <<a, b>>
        BY <3>3
      <4> HIDE DEF a, b
      <4>2. Head(gone) = a /\ Tail(gone) = <<b>>
        BY <4>1
      <4> QED BY <4>2 DEF a, b
    <3>6. CalmList(<<gone[1], Cmd("unlist", cmd.x, "")>>)
      BY <2>1, <3>3, CmdTyped, CalmTwo
    <3>7. CalmList(<<gone[2]>>)
      BY <3>3, CalmOne
    <3>8. CalmList(<<gone[1], Cmd("unlist", cmd.x, "")>> \o <<gone[2]>>)
      BY <3>6, <3>7, CalmJoin
    <3> QED BY <3>2, <3>4, <3>5, <3>8
  <2> QED BY <2>2, <2>3
<1>4. CASE cmd.op = "hooks" /\ layout = "rows"
  <2> DEFINE mine == Mine(d, "hooks", cmd.x)
             f == [i \in 1..2 * Len(mine) |-> HookGone(mine[(i + 1) \div 2])[((i + 1) % 2) + 1]]
  <2>1. mine \in Seq(Read(HookRow, Hook))
    <3>1. \A v \in HookRow : v.x \in Hook \union {None}
      BY DEF HookRow
    <3>2. d["hooks"] \in Seq(HookRow)
      BY <1>0
    <3> QED BY <1>0, <3>1, <3>2, MineTyped
  <2>2. Expand(d, cmd) = f
    BY <1>4 DEF Expand
  <2> HIDE DEF mine
  <2>3. Len(mine) \in Nat /\ 2 * Len(mine) \in Nat
    BY <2>1
  <2>4. ASSUME NEW i \in 1..2 * Len(mine)
        PROVE  f[i] \in Command /\ Calm(f[i])
    <3> DEFINE k == (i + 1) \div 2
               n == ((i + 1) % 2) + 1
    <3>1. k \in 1..Len(mine) /\ n \in {1, 2}
      BY <2>3
    <3> HIDE DEF k, n
    <3>2. mine[k] \in Read(HookRow, Hook)
      BY <2>1, <3>1
    <3>3. HookGone(mine[k])[n] \in Command /\ Calm(HookGone(mine[k])[n])
      BY <3>1, <3>2, HookGoneTyped
    <3>4. f[i] = HookGone(mine[k])[n]
      BY DEF k, n
    <3> QED BY <3>3, <3>4
  <2>5. DOMAIN f = 1..2 * Len(mine) /\ f = [i \in 1..2 * Len(mine) |-> f[i]]
    OBVIOUS
  <2> HIDE DEF f
  <2>6. CalmList(f)
    BY <2>3, <2>4, <2>5, CalmHere
  <2> QED BY <2>2, <2>6
<1>5. CASE cmd.op = "hooks" /\ layout = "keys"
  <2> DEFINE mine == SetToSeq({h \in d.byRun : HookRun[h] = cmd.x})
             f == [i \in 1..2 * Len(mine) |->
                     Cmd(IF i % 2 = 1 THEN "clean" ELSE "unlist", mine[(i + 1) \div 2], "")]
  <2>1. mine \in Seq(Hook)
    <3> DEFINE H == {h \in d.byRun : HookRun[h] = cmd.x}
    <3>1. H \in SUBSET Hook
      BY <1>0
    <3>2. IsFiniteSet(H)
      BY <3>1, PolledStoreAssumption, FS_Subset
    <3>3. mine \in Seq(H)
      BY <3>2, Listed
    <3> HIDE DEF mine, H
    <3> QED BY <3>1, <3>3, SeqMonotonic
  <2>2. Expand(d, cmd) = f
    BY <1>5 DEF Expand
  <2> HIDE DEF mine
  <2>3. Len(mine) \in Nat /\ 2 * Len(mine) \in Nat
    BY <2>1
  <2>4. ASSUME NEW i \in 1..2 * Len(mine)
        PROVE  f[i] \in Command /\ Calm(f[i])
    <3> DEFINE k == (i + 1) \div 2
               op == IF i % 2 = 1 THEN "clean" ELSE "unlist"
    <3>1. k \in 1..Len(mine)
      BY <2>3
    <3>2. op \in {"list", "unlist", "claim", "dispose", "clean", "unclaim"}
      OBVIOUS
    <3> HIDE DEF k, op
    <3>3. mine[k] \in Hook
      BY <2>1, <3>1
    <3>4. f[i] = Cmd(op, mine[k], "")
      BY DEF k, op
    <3> QED BY <3>2, <3>3, <3>4, CmdTyped
  <2>5. DOMAIN f = 1..2 * Len(mine) /\ f = [i \in 1..2 * Len(mine) |-> f[i]]
    OBVIOUS
  <2> HIDE DEF f
  <2>6. CalmList(f)
    BY <2>3, <2>4, <2>5, CalmHere
  <2> QED BY <2>2, <2>6
<1>6. CASE cmd.op = "waits"
  <2> DEFINE mine == Mine(d, "waits", cmd.x)
             f == [n \in DOMAIN mine |-> Del("waits", mine[n])]
  <2>1. mine \in Seq(Read(WaitRow, Wait))
    <3>1. \A v \in WaitRow : v.x \in Wait \union {None}
      BY DEF WaitRow
    <3>2. d["waits"] \in Seq(WaitRow)
      BY <1>0
    <3> QED BY <1>0, <3>1, <3>2, MineTyped
  <2>2. Expand(d, cmd) = f
    BY <1>6 DEF Expand
  <2> HIDE DEF mine
  <2>3. Len(mine) \in Nat /\ DOMAIN mine = 1..Len(mine)
    BY <2>1
  <2>4. ASSUME NEW i \in 1..Len(mine)
        PROVE  f[i] \in Command /\ Calm(f[i])
    <3>1. mine[i] \in Read(WaitRow, Wait)
      BY <2>1
    <3>2. f[i] = Del("waits", mine[i])
      BY <2>3
    <3> QED BY <3>1, <3>2, DelTyped
  <2>5. DOMAIN f = 1..Len(mine) /\ f = [i \in 1..Len(mine) |-> f[i]]
    BY <2>3
  <2> HIDE DEF f
  <2>6. CalmList(f)
    BY <2>3, <2>4, <2>5, CalmHere
  <2> QED BY <2>2, <2>6
<1> QED BY <1>1, <1>2, <1>3, <1>4, <1>5, <1>6 DEF Reading

----------------------------------------------------------------------------
(* What the validation of a call lets it write.                            *)

Good(x, cmds, d) ==
  /\ cmds \in Seq(Command)
  /\ Own(x, cmds)
  /\ x \in Step \union Run => Order(x, cmds, d)
  /\ layout = "keys" /\ x \in Run => IndexOrder(x, cmds, d)

LEMMA CalmGood ==
  ASSUME NEW s, CalmList(s), NEW x, NEW d
  PROVE  Good(x, s, d)
<1>1. ASSUME NEW i \in 1..Len(s)
      PROVE  /\ \A y : ~Writes(s[i], y) /\ ~Closes(s[i], y) /\ ~Index(s[i], y)
             /\ s[i].op \notin {"run", "step", "index", "unindex"}
             /\ ~(s[i].op = "append" /\ s[i].v.type \in Closing)
  BY DEF CalmList, Calm, Writes, Closes, Index
<1>2. Own(x, s)
  BY <1>1 DEF Own
<1>3. Order(x, s, d)
  BY <1>1 DEF Order
<1>4. IndexOrder(x, s, d)
  BY <1>1 DEF IndexOrder
<1> QED BY <1>2, <1>3, <1>4 DEF Good, CalmList

(* The calls that write the status of a run, in order.                     *)
Shape(w, k, r, from, to) ==
  /\ w \in Seq(Command) /\ k \in 1..Len(w)
  /\ w[k] = Cmd("run", r, to)
  /\ \A i \in 1..Len(w) : /\ w[i].op \in {"run", "index", "unindex"} /\ w[i].x = r
                          /\ w[i].op = "run" => i = k
  /\ layout = "keys" =>
       /\ k + 1 \in 1..Len(w) /\ w[k + 1] = Cmd("index", r, to)
       /\ \A i \in 1..Len(w) : /\ w[i].op = "index" => i = k + 1
                               /\ w[i].op = "unindex" => i < k
       /\ from # "none" => 1 < k /\ w[1] = Cmd("unindex", r, from)

LEMMA JoinAt ==
  ASSUME NEW S, NEW s \in Seq(S), NEW t \in Seq(S)
  PROVE  /\ s \o t \in Seq(S) /\ Len(s \o t) = Len(s) + Len(t)
         /\ Len(s) \in Nat /\ Len(t) \in Nat
         /\ \A i \in 1..Len(s) : (s \o t)[i] = s[i]
         /\ \A i \in 1..Len(t) : (s \o t)[Len(s) + i] = t[i]
OBVIOUS

LEMMA WriteRunShape ==
  ASSUME layout \in {"keys", "rows"}, NEW r \in Run, NEW from \in RunStatus,
         NEW to \in RunStatus \ {"none"}
  PROVE  \E k \in Nat : Shape(WriteRun(r, from, to), k, r, from, to)
<1> DEFINE a == Cmd("run", r, to)
           b == Cmd("index", r, to)
           c == Cmd("unindex", r, from)
<1>1. /\ a \in Command /\ b \in Command /\ (from # "none" => c \in Command)
      /\ a.op = "run" /\ a.x = r /\ b.op = "index" /\ b.x = r /\ c.op = "unindex" /\ c.x = r
  BY DEF Cmd, Command
<1>2. CASE layout = "rows"
  <2>1. WriteRun(r, from, to) = <<a>>
    BY <1>2 DEF WriteRun
  <2> HIDE DEF a, b, c
  <2>2. Shape(<<a>>, 1, r, from, to)
    BY <1>1, <1>2 DEF Shape, a
  <2> QED BY <2>1, <2>2
<1>3. CASE layout = "keys" /\ from = "none"
  <2> DEFINE w == <<>> \o <<a, b>>
  <2>1. WriteRun(r, from, to) = w
    BY <1>3 DEF WriteRun
  <2> HIDE DEF a, b, c
  <2>2. w \in Seq(Command) /\ Len(w) = 2 /\ w[1] = a /\ w[2] = b
    <3> DEFINE v == <<a, b>>
    <3>1. v \in Seq(Command) /\ Len(v) = 2 /\ v[1] = a /\ v[2] = b
      BY <1>1
    <3> HIDE DEF v
    <3>2. <<>> \o v = v
      BY <3>1
    <3> QED BY <3>1, <3>2 DEF v
  <2> HIDE DEF w
  <2>3. \A i \in 1..Len(w) : i = 1 \/ i = 2
    BY <2>2
  <2>4. Shape(w, 1, r, from, to)
    <3>1. 1 \in 1..Len(w) /\ 1 + 1 \in 1..Len(w) /\ 1 + 1 = 2
      BY <2>2
    <3>2. \A i \in 1..Len(w) :
            /\ w[i].op \in {"run", "index", "unindex"} /\ w[i].x = r
            /\ w[i].op = "run" => i = 1
            /\ w[i].op = "index" => i = 2
            /\ w[i].op # "unindex"
      BY <1>1, <2>2, <2>3
    <3>3. w[1] = Cmd("run", r, to) /\ w[2] = Cmd("index", r, to)
      BY <2>2 DEF a, b
    <3> QED BY <1>3, <2>2, <3>1, <3>2, <3>3 DEF Shape
  <2> QED BY <2>1, <2>4
<1>4. CASE layout = "keys" /\ from # "none"
  <2> DEFINE w == <<c>> \o <<a, b>>
  <2>1. WriteRun(r, from, to) = w
    BY <1>4 DEF WriteRun
  <2> HIDE DEF a, b, c
  <2>2. w \in Seq(Command) /\ Len(w) = 3 /\ w[1] = c /\ w[2] = a /\ w[3] = b
    <3>1. <<c>> \in Seq(Command) /\ <<a, b>> \in Seq(Command) /\ Len(<<c>>) = 1 /\ Len(<<a, b>>) = 2
      BY <1>1, <1>4
    <3>2. <<c>>[1] = c /\ <<a, b>>[1] = a /\ <<a, b>>[2] = b
      OBVIOUS
    <3> DEFINE u == <<c>>
               v == <<a, b>>
    <3> HIDE DEF u, v
    <3>3. u \in Seq(Command) /\ v \in Seq(Command) /\ Len(u) = 1 /\ Len(v) = 2
          /\ u[1] = c /\ v[1] = a /\ v[2] = b
      BY <3>1, <3>2 DEF u, v
    <3>4. (u \o v) \in Seq(Command) /\ Len(u \o v) = 3
          /\ (u \o v)[1] = c /\ (u \o v)[2] = a /\ (u \o v)[3] = b
      <4>1. 1 \in 1..Len(u) /\ 1 \in 1..Len(v) /\ 2 \in 1..Len(v)
        BY <3>3
      <4>2. /\ u \o v \in Seq(Command) /\ Len(u \o v) = Len(u) + Len(v)
            /\ (u \o v)[1] = u[1] /\ (u \o v)[Len(u) + 1] = v[1] /\ (u \o v)[Len(u) + 2] = v[2]
        <5>1. u \in Seq(Command) /\ v \in Seq(Command)
          BY <3>3
        <5>2. /\ u \o v \in Seq(Command) /\ Len(u \o v) = Len(u) + Len(v)
              /\ \A i \in 1..Len(u) : (u \o v)[i] = u[i]
              /\ \A i \in 1..Len(v) : (u \o v)[Len(u) + i] = v[i]
          BY <5>1, JoinAt
        <5> QED BY <4>1, <5>2
      <4> QED BY <3>3, <4>2
    <3> QED BY <3>4 DEF u, v
  <2> HIDE DEF w
  <2>3. \A i \in 1..Len(w) : i = 1 \/ i = 2 \/ i = 3
    BY <2>2
  <2>4. Shape(w, 2, r, from, to)
    <3>1. 2 \in 1..Len(w) /\ 2 + 1 \in 1..Len(w) /\ 2 + 1 = 3 /\ 1 < 2
      BY <2>2
    <3>2. \A i \in 1..Len(w) :
            /\ w[i].op \in {"run", "index", "unindex"} /\ w[i].x = r
            /\ w[i].op = "run" => i = 2
            /\ w[i].op = "index" => i = 3
            /\ w[i].op = "unindex" => i < 2
      BY <1>1, <2>2, <2>3
    <3>3. w[2] = Cmd("run", r, to) /\ w[3] = Cmd("index", r, to) /\ w[1] = Cmd("unindex", r, from)
      BY <2>2 DEF a, b, c
    <3> QED BY <2>2, <3>1, <3>2, <3>3 DEF Shape
  <2> QED BY <2>1, <2>4
<1> QED BY <1>2, <1>3, <1>4

(* ... and then what follows, which may end with the event that closes.    *)
LEMMA RunGood ==
  ASSUME layout \in {"keys", "rows"}, NEW d \in Data, NEW r \in Run,
         NEW to \in RunStatus \ {"none"},
         NEW q \in Seq(Command),
         \A i \in 1..Len(q) :
           \/ Calm(q[i])
           \/ i = Len(q) /\ q[i].op = "append" /\ q[i].v.on = r /\ to \in RunTerminal,
         ClosedAt(d, r) = {}, layout = "keys" => SoundFor(r, d)
  PROVE  Good(r, WriteRun(r, d.run[r], to) \o q, d)
<1> DEFINE w == WriteRun(r, d.run[r], to)
           s == w \o q
<1>1. d.run[r] \in RunStatus
  BY DEF Data
<1>2. PICK k \in Nat : Shape(w, k, r, d.run[r], to)
  BY <1>1, WriteRunShape
<1> HIDE DEF w
<1>3. /\ s \in Seq(Command) /\ Len(s) = Len(w) + Len(q) /\ Len(w) \in Nat /\ Len(q) \in Nat
      /\ \A i \in 1..Len(w) + Len(q) : s[i] = IF i <= Len(w) THEN w[i] ELSE q[i - Len(w)]
  BY <1>2 DEF Shape
<1> HIDE DEF s
<1>4. ASSUME NEW i \in 1..Len(s)
      PROVE  /\ i \in 1..Len(w) => s[i] = w[i]
             /\ i \notin 1..Len(w) =>
                  /\ Len(w) < i
                  /\ s[i].op \notin {"run", "step", "index", "unindex"}
                  /\ s[i].op = "append" /\ s[i].v.type \in Closing =>
                       i = Len(s) /\ s[i].v.on = r /\ to \in RunTerminal
  <2>1. CASE i \in 1..Len(w)
    BY <1>3, <2>1
  <2>2. CASE i \notin 1..Len(w)
    <3> DEFINE j == i - Len(w)
    <3>1. j \in 1..Len(q) /\ s[i] = q[j] /\ Len(w) < i /\ (j = Len(q) => i = Len(s))
      BY <1>3, <2>2
    <3> HIDE DEF j
    <3> QED BY <2>2, <3>1 DEF Calm
  <2> QED BY <2>1, <2>2
<1>5. \A i \in 1..Len(w) : i \in 1..Len(s)
  BY <1>3
<1>6. /\ k \in 1..Len(w) /\ k \in 1..Len(s) /\ s[k] = Cmd("run", r, to)
      /\ \A i \in 1..Len(w) : /\ s[i].op \in {"run", "index", "unindex"} /\ s[i].x = r
                              /\ s[i].op = "run" => i = k
  BY <1>2, <1>4, <1>5 DEF Shape
<1>7. s[k].op = "run" /\ s[k].x = r /\ s[k].v = to
  BY <1>6 DEF Cmd
<1>8. \A i \in 1..Len(s) : Writes(s[i], r) <=> i = k
  BY <1>4, <1>6, <1>7 DEF Writes
<1>9. Own(r, s)
  BY <1>4, <1>6 DEF Own
<1>10. Order(r, s, d)
  <2>1. ASSUME NEW i \in 1..Len(s), Closes(s[i], r)
        PROVE  i = Len(s) /\ k < i /\ to \in RunTerminal
    <3>1. s[i].op = "append" /\ s[i].v.type \in Closing
      BY <2>1 DEF Closes
    <3>2. i \notin 1..Len(w)
      BY <1>6, <3>1
    <3>3. i = Len(s) /\ to \in RunTerminal /\ Len(w) < i
      BY <1>4, <3>1, <3>2
    <3> QED BY <1>3, <1>6, <3>3
  <2> QED BY <1>6, <1>7, <1>8, <2>1 DEF Order
<1>11. ASSUME layout = "keys"
       PROVE  IndexOrder(r, s, d)
  <2>1. /\ k + 1 \in 1..Len(s) /\ s[k + 1] = Cmd("index", r, to)
        /\ \A i \in 1..Len(w) : /\ s[i].op = "index" => i = k + 1
                                /\ s[i].op = "unindex" => i < k
        /\ d.run[r] # "none" => 1 < k /\ 1 \in 1..Len(s) /\ s[1] = Cmd("unindex", r, d.run[r])
    <3>1. Len(w) >= 1 /\ 1 \in 1..Len(w)
      BY <1>3, <1>6
    <3> QED BY <1>2, <1>4, <1>5, <1>11, <3>1 DEF Shape
  <2>2. s[k + 1].op = "index" /\ s[k + 1].x = r /\ s[k + 1].v = to
    BY <2>1 DEF Cmd
  <2>3. \A i \in 1..Len(s) : Index(s[i], r) <=> i = k + 1
    BY <1>4, <2>1, <2>2 DEF Index
  <2>4. \A i \in 1..Len(s) : s[i].op = "unindex" => i < k
    BY <1>4, <2>1
  <2>5. d.run[r] = "none" => r \notin d.byStatus[d.run[r]]
    BY <1>1, <1>11 DEF SoundFor
  <2>6. k < k + 1
    OBVIOUS
  <2>7. ASSUME NEW i \in 1..Len(s), i < k
        PROVE  i < k + 1
    BY <2>7
  <2> QED BY <1>6, <1>7, <1>8, <2>1, <2>2, <2>3, <2>4, <2>5, <2>6, <2>7 DEF IndexOrder
<1> QED BY <1>3, <1>9, <1>10, <1>11 DEF Good, s, w

LEMMA CallTyped ==
  ASSUME NEW e \in Calls
  PROVE  /\ \/ e.type \in RunTypes /\ e.x \in Run
            \/ e.type \in StepTypes /\ e.x \in Step
            \/ e.type \in HookTypes /\ e.x \in Hook
            \/ e.type \in WaitTypes /\ e.x \in Wait
         /\ e # NoCall
<1>1. /\ \/ e.type \in RunTypes /\ e.x \in Run
         \/ e.type \in StepTypes /\ e.x \in Step
         \/ e.type \in HookTypes /\ e.x \in Hook
         \/ e.type \in WaitTypes /\ e.x \in Wait
  BY DEF Calls, EventCall
<1>2. NoCall.type = "none"
  BY DEF NoCall, EventCall
<1> QED BY <1>1, <1>2 DEF RunTypes, StepTypes, HookTypes, WaitTypes

LEMMA KindOf ==
  /\ \A x \in Run : x \notin Step \union Hook \union Wait /\ RunOf(x) = x
  /\ \A x \in Step : x \notin Run \union Hook \union Wait
  /\ \A x \in Hook : x \notin Run \union Step \union Wait
  /\ \A x \in Wait : x \notin Run \union Step \union Hook
  /\ None \notin Run \union Step \union Hook \union Wait
BY PolledStoreAssumption DEF RunOf

LEMMA RunPlansGood ==
  ASSUME layout \in {"keys", "rows"}, NEW d \in Data, NEW r \in Run, NEW type \in RunTypes,
         type = "run_completed" => d.run[r] # "none",
         ClosedOnce(r, d), layout = "keys" => SoundFor(r, d),
         NEW cmds \in RunPlans(r, type, d.run[r])
  PROVE  Good(r, cmds, d)
<1> DEFINE seen == d.run[r]
           to == EndStatus(type)
           e == Cmd("append", r, [type |-> type, on |-> r])
<1>1. /\ Record(type, r) = <<e>> /\ e \in Command
      /\ type \notin Closing => CalmList(Record(type, r)) /\ Calm(e)
  <2>1. type \in EventType /\ RunOf(r) = r
    BY KindOf DEF EventType
  <2>2. /\ Record(type, r) = <<e>> /\ e \in Command
        /\ type \notin Closing => CalmList(Record(type, r))
    BY <2>1, RecordTyped
  <2>3. type \notin Closing => Calm(e)
    BY DEF Calm, Cmd
  <2> QED BY <2>2, <2>3
<1>2. e.op = "append" /\ e.v.on = r /\ e.v.type = type
  BY DEF Cmd
<1>3. seen \in {"none", "pending", "running"} => ClosedAt(d, r) = {}
  BY DEF ClosedOnce, StatusIn, RunTerminal
<1> HIDE DEF e
<1>4. CASE type = "run_created"
  <2>1. seen = "none" /\ cmds = WriteRun(r, "none", "pending") \o <<e>>
    BY <1>1, <1>4 DEF RunPlans, Accept
  <2>2. "pending" \in RunStatus \ {"none"} /\ type \notin Closing
    BY <1>4 DEF RunStatus, Closing
  <2>3. <<e>> \in Seq(Command) /\ \A i \in 1..Len(<<e>>) : Calm(<<e>>[i])
    BY <1>1, <2>2 DEF CalmList
  <2> QED BY <1>3, <2>1, <2>2, <2>3, RunGood
<1>5. CASE type = "run_started"
  <2>1. type \notin Closing
    BY <1>5 DEF Closing
  <2>2. \/ cmds = Record(type, r)
        \/ cmds = <<>>
        \/ seen = "pending" /\ cmds = WriteRun(r, "pending", "running") \o <<e>>
    BY <1>1, <1>5 DEF RunPlans, Accept
  <2>3. "running" \in RunStatus \ {"none"}
    BY DEF RunStatus
  <2>4. <<e>> \in Seq(Command) /\ \A i \in 1..Len(<<e>>) : Calm(<<e>>[i])
    BY <1>1, <2>1 DEF CalmList
  <2>5. CASE cmds = Record(type, r)
    BY <1>1, <2>1, <2>5, CalmGood
  <2>6. CASE cmds = <<>>
    BY <2>6, CalmEmpty, CalmGood
  <2>7. CASE seen = "pending" /\ cmds = WriteRun(r, "pending", "running") \o <<e>>
    BY <1>3, <2>3, <2>4, <2>7, RunGood
  <2> QED BY <2>2, <2>5, <2>6, <2>7
<1>6. CASE type \in {"run_completed", "run_failed", "run_cancelled"}
  <2> DEFINE two == <<Cmd("hooks", r, ""), Cmd("waits", r, "")>>
             q == two \o <<e>>
  <2>1. /\ to \in RunTerminal
        /\ to = "cancelled" => type = "run_cancelled"
        /\ to = "failed" => type = "run_failed"
    BY <1>6 DEF EndStatus, RunTerminal
  <2>2. \/ seen \in {"pending", "running"} /\ cmds = WriteRun(r, seen, to) \o two \o <<e>>
        \/ /\ cmds = Record(type, r)
           /\ (seen = "none" /\ to # "failed") \/ (seen = "cancelled" /\ to = "cancelled")
    <3>1. RunPlans(r, type, seen) =
            Accept(seen \in {"pending", "running"},
                   WriteRun(r, seen, to) \o two \o Record(type, r))
              \union Accept(\/ seen = "none" /\ to # "failed"
                            \/ seen = "cancelled" /\ to = "cancelled", Record(type, r))
      BY <1>6 DEF RunPlans
    <3> HIDE DEF two, to
    <3> QED BY <1>1, <3>1 DEF Accept
  <2>3. CASE /\ cmds = Record(type, r)
             /\ (seen = "none" /\ to # "failed") \/ (seen = "cancelled" /\ to = "cancelled")
    <3>1. type = "run_cancelled"
      BY <1>6, <2>1, <2>3 DEF EndStatus
    <3>2. type \notin Closing
      BY <3>1 DEF Closing
    <3> QED BY <1>1, <2>3, <3>2, CalmGood
  <2>4. CASE seen \in {"pending", "running"} /\ cmds = WriteRun(r, seen, to) \o two \o <<e>>
    <3>1. /\ two \in Seq(Command) /\ Len(two) = 2
          /\ \A i \in 1..2 : Calm(two[i])
      <4>1. CalmList(two) /\ Len(two) = 2
        BY CmdTyped, CalmTwo
      <4> HIDE DEF two
      <4> QED BY <4>1 DEF CalmList
    <3>2. <<e>> \in Seq(Command) /\ Len(<<e>>) = 1 /\ <<e>>[1] = e
      BY <1>1
    <3> DEFINE one == <<e>>
    <3>3. WriteRun(r, seen, to) \in Seq(Command)
      <4>1. seen \in RunStatus /\ to \in RunStatus \ {"none"}
        BY <2>1 DEF RunStatus, RunTerminal, Data
      <4>2. PICK k \in Nat : Shape(WriteRun(r, seen, to), k, r, seen, to)
        BY <4>1, WriteRunShape
      <4> QED BY <4>2 DEF Shape
    <3> DEFINE w == WriteRun(r, seen, to)
    <3> HIDE DEF two, one, w
    <3>4. w \o two \o one = w \o (two \o one)
      BY <3>1, <3>2, <3>3, ConcatAssociative DEF w, one
    <3>5. /\ two \o one \in Seq(Command) /\ Len(two \o one) = 3
          /\ \A i \in 1..3 : \/ Calm((two \o one)[i])
                             \/ i = 3 /\ (two \o one)[i] = e
      <4>1. one \in Seq(Command) /\ Len(one) = 1 /\ one[1] = e
        BY <3>2 DEF one
      <4>2. /\ two \o one \in Seq(Command) /\ Len(two \o one) = Len(two) + Len(one)
            /\ \A i \in 1..Len(two) : (two \o one)[i] = two[i]
            /\ \A i \in 1..Len(one) : (two \o one)[Len(two) + i] = one[i]
        <5>1. two \in Seq(Command) /\ one \in Seq(Command)
          BY <3>1, <4>1
        <5> QED BY <5>1, JoinAt
      <4>3. (two \o one)[2 + 1] = e /\ 2 + 1 = 3
        BY <3>1, <4>1, <4>2
      <4>4. \A i \in 1..3 : i \in 1..2 \/ i = 3
        OBVIOUS
      <4> QED BY <3>1, <4>1, <4>2, <4>3, <4>4
    <3> DEFINE t == two \o one
    <3>6. \A i \in 1..Len(t) : \/ Calm(t[i])
                               \/ i = Len(t) /\ t[i].op = "append" /\ t[i].v.on = r /\ to \in RunTerminal
      BY <1>2, <2>1, <3>5
    <3>7. t \in Seq(Command) /\ to \in RunStatus \ {"none"}
      BY <2>1, <3>5 DEF RunStatus, RunTerminal
    <3> HIDE DEF t
    <3>8. Good(r, WriteRun(r, d.run[r], to) \o t, d)
      BY <1>3, <2>4, <3>6, <3>7, RunGood
    <3> QED BY <2>4, <3>4, <3>8 DEF w, t, one
  <2> QED BY <2>2, <2>3, <2>4
<1> QED BY <1>4, <1>5, <1>6 DEF RunTypes

LEMMA StepGood ==
  ASSUME NEW d \in Data, NEW s \in Step, NEW type \in StepTypes, NEW st \in StepStatus,
         ClosedAt(d, s) = {}, type \in Closing => st \in RunTerminal
  PROVE  Good(s, StepThenEvent(s, type, st), d)
<1> DEFINE a == Cmd("step", s, st)
           b == Cmd("append", RunOf(s), [type |-> type, on |-> s])
           w == <<a>> \o <<b>>
<1>1. StepThenEvent(s, type, st) = w
  BY DEF StepThenEvent, Record
<1>2. /\ a \in Command /\ a.op = "step" /\ a.x = s /\ a.v = st
  BY DEF Cmd, Command
<1>3. /\ b \in Command /\ b.op = "append" /\ b.v.on = s /\ b.v.type = type
  <2>1. type \in EventType
    BY DEF EventType
  <2>2. b \in Command
    BY <2>1, RecordTyped
  <2> QED BY <2>2 DEF Cmd
<1> HIDE DEF a, b
<1>4. w \in Seq(Command) /\ Len(w) = 2 /\ w[1] = a /\ w[2] = b
  <2> DEFINE u == <<a>>
             v == <<b>>
  <2>1. u \in Seq(Command) /\ v \in Seq(Command) /\ Len(u) = 1 /\ Len(v) = 1 /\ u[1] = a /\ v[1] = b
    BY <1>2, <1>3
  <2> HIDE DEF u, v
  <2>2. /\ u \o v \in Seq(Command) /\ Len(u \o v) = Len(u) + Len(v)
        /\ \A i \in 1..Len(u) : (u \o v)[i] = u[i]
        /\ \A i \in 1..Len(v) : (u \o v)[Len(u) + i] = v[i]
    BY <2>1, JoinAt
  <2>3. u \o v \in Seq(Command) /\ Len(u \o v) = 2 /\ (u \o v)[1] = a /\ (u \o v)[2] = b
    BY <2>1, <2>2
  <2> QED BY <2>3 DEF u, v
<1> HIDE DEF w
<1>5. \A i \in 1..Len(w) : i = 1 \/ i = 2
  BY <1>4
<1>6. Own(s, w)
  BY <1>2, <1>3, <1>4, <1>5 DEF Own
<1>7. \A i \in 1..Len(w) : Closes(w[i], s) => i = 2 /\ st \in RunTerminal
  BY <1>2, <1>3, <1>4, <1>5 DEF Closes
<1>8. \A i \in 1..Len(w) : Writes(w[i], s) => w[i].v = st
  BY <1>2, <1>3, <1>4, <1>5 DEF Writes
<1>9. Writes(w[1], s) /\ 1 \in 1..Len(w) /\ 1 < 2
  BY <1>2, <1>4 DEF Writes
<1>10. Order(s, w, d)
  BY <1>4, <1>7, <1>8, <1>9 DEF Order
<1>11. s \notin Run
  BY KindOf
<1> QED BY <1>1, <1>4, <1>6, <1>10, <1>11 DEF Good

LEMMA StepPlansGood ==
  ASSUME NEW d \in Data, NEW s \in Step, NEW type \in StepTypes, ClosedOnce(s, d), NEW seen,
         NEW cmds \in StepPlans(s, type, seen, d.step[s])
  PROVE  Good(s, cmds, d)
<1>1. d.step[s] \in {"none", "pending", "running"} => ClosedAt(d, s) = {}
  BY KindOf DEF ClosedOnce, StatusIn, RunTerminal
<1>2. ASSUME NEW st \in StepStatus, cmds = StepThenEvent(s, type, st),
             d.step[s] \in {"none", "pending", "running"}, type \in Closing => st \in RunTerminal
      PROVE  Good(s, cmds, d)
  BY <1>1, <1>2, StepGood
<1>3. CASE type = "step_created"
  BY <1>2, <1>3 DEF StepPlans, Accept, StepStatus, Closing
<1>4. CASE type = "step_started"
  BY <1>2, <1>4 DEF StepPlans, Accept, StepOpen, StepStatus, Closing
<1>5. CASE type = "step_completed"
  BY <1>2, <1>5 DEF StepPlans, Accept, StepOpen, StepStatus, RunTerminal
<1>6. CASE type = "step_failed"
  BY <1>2, <1>6 DEF StepPlans, Accept, StepOpen, StepStatus, RunTerminal
<1>7. CASE type = "step_retrying"
  BY <1>2, <1>7 DEF StepPlans, Accept, StepOpen, StepStatus, Closing
<1> QED BY <1>3, <1>4, <1>5, <1>6, <1>7 DEF StepTypes

LEMMA PlansGood ==
  ASSUME layout \in {"keys", "rows"}, NEW d \in Data, NEW e \in Calls,
         e.type = "run_completed" => d.run[e.x] # "none",
         \A x \in Step \union Run : ClosedOnce(x, d),
         layout = "keys" => \A r \in Run : SoundFor(r, d),
         NEW cmds \in Plans(e, d)
  PROVE  Good(e.x, cmds, d)
<1>1. CASE e.type \in RunTypes
  <2>1. e.x \in Run
    BY <1>1, CallTyped DEF RunTypes, StepTypes, HookTypes, WaitTypes
  <2>2. cmds \in RunPlans(e.x, e.type, d.run[e.x])
    BY <1>1, <2>1, KindOf DEF Plans, RunTypes, StepTypes, HookTypes, WaitTypes
  <2> QED BY <1>1, <2>1, <2>2, RunPlansGood
<1>2. CASE e.type \in StepTypes
  <2>1. e.x \in Step
    BY <1>2, CallTyped DEF RunTypes, StepTypes, HookTypes, WaitTypes
  <2>2. cmds \in StepPlans(e.x, e.type, d.run[RunOf(e.x)], d.step[e.x])
    BY <1>2 DEF Plans, RunTypes, StepTypes, HookTypes, WaitTypes
  <2> QED BY <1>2, <2>1, <2>2, StepPlansGood
<1>3. CASE e.type \in HookTypes
  <2>1. e.x \in Hook
    BY <1>3, CallTyped DEF RunTypes, StepTypes, HookTypes, WaitTypes
  <2>2. cmds \in HookPlans(e.x, e.type, d.run[RunOf(e.x)], Has(d.hooks, e.x))
    BY <1>3 DEF Plans, RunTypes, StepTypes, HookTypes, WaitTypes
  <2>3. CalmList(Record("hook_received", e.x)) /\ CalmList(Record("hook_disposed", e.x))
    BY <2>1, RecordTyped DEF EventType, HookTypes, Closing
  <2>4. CalmList(<<Cmd("claim", e.x, "")>>) /\ CalmList(<<Cmd("dispose", e.x, "")>>)
    BY <2>1, CmdTyped, CalmOne
  <2>5. CalmList(<<Cmd("dispose", e.x, "")>> \o Record("hook_disposed", e.x))
    BY <2>3, <2>4, CalmJoin
  <2>6. CalmList(cmds)
    BY <1>3, <2>2, <2>3, <2>4, <2>5 DEF HookPlans, Accept, HookTypes
  <2> QED BY <2>6, CalmGood
<1>4. CASE e.type \in WaitTypes
  <2>1. e.x \in Wait
    BY <1>4, CallTyped DEF RunTypes, StepTypes, HookTypes, WaitTypes
  <2>2. cmds \in WaitPlans(e.x, e.type, d.run[RunOf(e.x)], Find(d.waits, e.x))
    BY <1>4 DEF Plans, RunTypes, StepTypes, HookTypes, WaitTypes
  <2>3. CalmList(Record(e.type, e.x))
    BY <1>4, <2>1, RecordTyped DEF EventType, WaitTypes, Closing
  <2>4. CalmList(<<Put("waits", e.x, "waiting")>>)
    BY <2>1, PutTyped, CalmOne
  <2>5. ASSUME NEW j \in Find(d.waits, e.x)
        PROVE  CalmList(<<Set("waits", j, "completed")>>)
    <3>1. d.waits \in Seq(WaitRow)
      BY DEF Data
    <3>2. j \in Read(WaitRow, Wait)
      BY <2>1, <3>1, FoundAll
    <3> QED BY <3>2, SetTyped, CalmOne
  <2>6. CalmList(<<Put("waits", e.x, "waiting")>> \o Record(e.type, e.x))
    BY <2>3, <2>4, CalmJoin
  <2>7. \A j \in Find(d.waits, e.x) :
          CalmList(<<Set("waits", j, "completed")>> \o Record(e.type, e.x))
    BY <2>3, <2>5, CalmJoin
  <2>8. CalmList(cmds)
    BY <2>2, <2>6, <2>7 DEF WaitPlans, Accept
  <2> QED BY <2>8, CalmGood
<1> QED BY <1>1, <1>2, <1>3, <1>4, CallTyped

----------------------------------------------------------------------------
(* The steps of the callers.                                               *)

LEMMA Nothing ==
  /\ \A x : Own(x, <<>>)
  /\ \A x, d : Order(x, <<>>, d) /\ IndexOrder(x, <<>>, d)
  /\ \A r : ~Relists(<<>>, r)
<1>1. 1..Len(<<>>) = {}
  OBVIOUS
<1> QED BY <1>1 DEF Own, Order, IndexOrder, Relists

LEMMA InitHolds == Init => IInv
<1>1. SUFFICES ASSUME Init
               PROVE  IInv
  OBVIOUS
<1>2. db \in Data /\ Applied(db) /\ IndexSound(db) /\ Hidden(db) = {}
  BY <1>1, StartsAssumption DEF Init
<1>3. CallInv
  <2>1. /\ layout \in {"keys", "rows"} /\ faults \in Nat
        /\ call \in [Caller -> Calls \union {NoCall}]
        /\ stage \in [Caller -> {"read", "write"}]
        /\ todo \in [Caller -> Seq(Command)]
    BY <1>1, PolledStoreAssumption DEF Init
  <2>2. \A c \in Caller : call[c] = NoCall /\ stage[c] = "read" /\ todo[c] = <<>>
    BY <1>1 DEF Init
  <2>3. NoCall.type # "run_completed"
    BY DEF NoCall, EventCall
  <2> QED BY <1>2, <2>1, <2>2, <2>3, Nothing DEF CallInv
<1>4. ClosedInv
  <2>1. \A x \in Step \union Run : ClosedOnce(x, db)
    BY <1>2, AppliedIff DEF ClosedOnce
  <2>2. \A c \in Caller : todo[c] = <<>>
    BY <1>1 DEF Init
  <2> QED BY <2>1, <2>2, Nothing DEF ClosedInv
<1>5. IndexInv
  <2>1. \A r \in Run : SoundFor(r, db)
    BY <1>2 DEF IndexSound, SoundFor
  <2>2. \A c \in Caller : todo[c] = <<>>
    BY <1>1 DEF Init
  <2>3. Unlisted = {}
    BY <1>2 DEF Unlisted
  <2>4. IsFiniteSet(Unlisted) /\ Cardinality(Unlisted) <= faults
    BY <1>1, <2>3, FS_EmptySet DEF Init
  <2> QED BY <2>1, <2>2, <2>4, Nothing DEF IndexInv
<1> QED BY <1>3, <1>4, <1>5 DEF IInv

(* Fewer runs that nobody lists, or one more and one more fault.           *)
LEMMA Fewer ==
  ASSUME IsFiniteSet(Unlisted), Cardinality(Unlisted) <= faults, faults \in Nat,
         faults' \in Nat,
         \/ Unlisted' \subseteq Unlisted /\ faults <= faults'
         \/ \E r : Unlisted' \subseteq Unlisted \union {r} /\ faults' = faults + 1
  PROVE  IsFiniteSet(Unlisted)' /\ (Cardinality(Unlisted) <= faults)'
<1> DEFINE U == Unlisted
           V == Unlisted'
<1>1. Cardinality(U) \in Nat
  BY FS_CardinalityType
<1>2. CASE V \subseteq U /\ faults <= faults'
  <2> HIDE DEF U, V
  <2>1. IsFiniteSet(V) /\ Cardinality(V) <= Cardinality(U)
    BY <1>2, FS_Subset DEF U
  <2>2. Cardinality(V) \in Nat
    BY <2>1, FS_CardinalityType
  <2>3. Cardinality(V) <= faults'
    BY <1>1, <1>2, <2>1, <2>2 DEF U
  <2> QED BY <2>1, <2>3 DEF V
<1>3. CASE \E r : V \subseteq U \union {r} /\ faults' = faults + 1
  <2>1. PICK r : V \subseteq U \union {r} /\ faults' = faults + 1
    BY <1>3
  <2> HIDE DEF U, V
  <2>2. IsFiniteSet(U \union {r}) /\ Cardinality(U \union {r}) <= Cardinality(U) + 1
    <3>1. IsFiniteSet(U)
      BY DEF U
    <3>2. /\ IsFiniteSet(U \union {r})
          /\ Cardinality(U \union {r}) = IF r \in U THEN Cardinality(U) ELSE Cardinality(U) + 1
      BY <3>1, FS_AddElement
    <3> QED BY <1>1, <3>2
  <2>3. IsFiniteSet(V) /\ Cardinality(V) <= Cardinality(U \union {r})
    BY <2>1, <2>2, FS_Subset
  <2>4. Cardinality(V) \in Nat /\ Cardinality(U \union {r}) \in Nat
    BY <2>2, <2>3, FS_CardinalityType
  <2>5. Cardinality(V) <= faults'
    BY <1>1, <2>1, <2>2, <2>3, <2>4 DEF U
  <2> QED BY <2>3, <2>5 DEF V
<1> QED BY <1>2, <1>3

LEMMA CreateKeeps ==
  ASSUME IInv, NEW c \in Caller, Create(c)
  PROVE  IInv'
<1>1. CallInv /\ ClosedInv /\ IndexInv
  BY DEF IInv
<1>2. PICK e \in Calls : /\ ~Busy(RunOf(e.x))
                         /\ e.type = "run_completed" => db.run[e.x] # "none"
                         /\ call' = [call EXCEPT ![c] = e]
  BY DEF Create
<1>3. /\ call[c] = NoCall /\ stage[c] = "read" /\ todo[c] = <<>>
      /\ layout' = layout /\ db' = db /\ stage' = stage /\ todo' = todo /\ faults' = faults
  BY <1>1 DEF Create, CallInv
<1>4. call'[c] = e /\ \A a \in Caller : a # c => call'[a] = call[a]
  BY <1>1, <1>2 DEF CallInv
<1>5. CallInv'
  <2>1. /\ call' \in [Caller -> Calls \union {NoCall}]
        /\ layout' \in {"keys", "rows"} /\ db' \in Data /\ faults' \in Nat
        /\ stage' \in [Caller -> {"read", "write"}]
        /\ todo' \in [Caller -> Seq(Command)]
    BY <1>1, <1>2, <1>3 DEF CallInv
  <2>2. ASSUME NEW a \in Caller
        PROVE  /\ call'[a] = NoCall => stage'[a] = "read"
               /\ stage'[a] = "read" => todo'[a] = <<>>
               /\ Own(call'[a].x, todo'[a])
               /\ call'[a].type = "run_completed" => db'.run[call'[a].x] # "none"
    <3>1. CASE a = c
      BY <1>2, <1>3, <1>4, <3>1, Nothing
    <3>2. CASE a # c
      BY <1>1, <1>3, <1>4, <3>2 DEF CallInv
    <3> QED BY <3>1, <3>2
  <2>3. ASSUME NEW a \in Caller, NEW b \in Caller,
               call'[a] # NoCall, call'[b] # NoCall, RunOf(call'[a].x) = RunOf(call'[b].x)
        PROVE  a = b
    <3>1. \A f \in Caller : f # c /\ call'[f] # NoCall => RunOf(call'[f].x) # RunOf(e.x)
      BY <1>2, <1>4 DEF Busy
    <3>2. CASE a = c \/ b = c
      BY <1>4, <2>3, <3>1, <3>2
    <3>3. CASE a # c /\ b # c
      BY <1>1, <1>4, <2>3, <3>3 DEF CallInv
    <3> QED BY <3>2, <3>3
  <2> QED BY <2>1, <2>2, <2>3 DEF CallInv
<1>6. ClosedInv'
  <2>1. ASSUME NEW x \in Step \union Run, NEW a \in Caller, call'[a].x = x
        PROVE  Order(x, todo'[a], db')
    <3>1. CASE a = c
      BY <1>3, <3>1, Nothing
    <3>2. CASE a # c
      BY <1>1, <1>3, <1>4, <2>1, <3>2 DEF ClosedInv
    <3> QED BY <3>1, <3>2
  <2>2. \A x \in Step \union Run : ClosedOnce(x, db')
    BY <1>1, <1>3 DEF ClosedInv
  <2> QED BY <2>1, <2>2 DEF ClosedInv
<1>7. IndexInv'
  <2>1. SUFFICES ASSUME layout = "keys"
                 PROVE  IndexInv'
    BY <1>3 DEF IndexInv
  <2>2. ASSUME NEW r \in Run, NEW a \in Caller, call'[a].x = r
        PROVE  IndexOrder(r, todo'[a], db')
    <3>1. CASE a = c
      BY <1>3, <3>1, Nothing
    <3>2. CASE a # c
      BY <1>1, <1>3, <1>4, <2>1, <2>2, <3>2 DEF IndexInv
    <3> QED BY <3>1, <3>2
  <2>3. \A r \in Run : SoundFor(r, db')
    BY <1>1, <1>3, <2>1 DEF IndexInv
  <2>4. Unlisted' \subseteq Unlisted
    BY <1>3 DEF Unlisted
  <2>5. IsFiniteSet(Unlisted)' /\ (Cardinality(Unlisted) <= faults)'
    BY <1>1, <1>3, <2>1, <2>4, Fewer DEF IndexInv, CallInv
  <2> QED BY <2>2, <2>3, <2>5 DEF IndexInv
<1> QED BY <1>5, <1>6, <1>7 DEF IInv

(* A caller goes on with other commands, good ones, and the data stay.     *)
LEMMA GoesOn ==
  ASSUME IInv, NEW c \in Caller, call[c] # NoCall,
         /\ layout' = layout /\ db' = db /\ call' = call /\ faults' = faults,
         stage' \in [Caller -> {"read", "write"}], stage'[c] = "write",
         \A a \in Caller : a # c => stage'[a] = stage[a],
         NEW cmds, todo' = [todo EXCEPT ![c] = cmds],
         Good(call[c].x, cmds, db),
         \A r \in Run : Relists(todo[c], r) => Relists(cmds, r)
  PROVE  IInv'
<1>1. CallInv /\ ClosedInv /\ IndexInv
  BY DEF IInv
<1>2. todo'[c] = cmds /\ \A a \in Caller : a # c => todo'[a] = todo[a]
  BY <1>1 DEF CallInv
<1>3. CallInv'
  <2>1. /\ call' \in [Caller -> Calls \union {NoCall}]
        /\ layout' \in {"keys", "rows"} /\ db' \in Data /\ faults' \in Nat
        /\ todo' \in [Caller -> Seq(Command)]
    BY <1>1 DEF CallInv, Good
  <2>2. ASSUME NEW a \in Caller
        PROVE  /\ call'[a] = NoCall => stage'[a] = "read"
               /\ stage'[a] = "read" => todo'[a] = <<>>
               /\ Own(call'[a].x, todo'[a])
               /\ call'[a].type = "run_completed" => db'.run[call'[a].x] # "none"
    <3>1. CASE a = c
      BY <1>1, <1>2, <3>1 DEF CallInv, Good
    <3>2. CASE a # c
      BY <1>1, <1>2, <3>2 DEF CallInv
    <3> QED BY <3>1, <3>2
  <2>3. \A a, b \in Caller : call'[a] # NoCall /\ call'[b] # NoCall
                             /\ RunOf(call'[a].x) = RunOf(call'[b].x) => a = b
    BY <1>1 DEF CallInv
  <2> QED BY <2>1, <2>2, <2>3 DEF CallInv
<1>4. ClosedInv'
  <2>1. ASSUME NEW x \in Step \union Run, NEW a \in Caller, call'[a].x = x
        PROVE  Order(x, todo'[a], db')
    <3>1. CASE a = c
      BY <1>2, <2>1, <3>1 DEF Good
    <3>2. CASE a # c
      BY <1>1, <1>2, <2>1, <3>2 DEF ClosedInv
    <3> QED BY <3>1, <3>2
  <2>2. \A x \in Step \union Run : ClosedOnce(x, db')
    BY <1>1 DEF ClosedInv
  <2> QED BY <2>1, <2>2 DEF ClosedInv
<1>5. IndexInv'
  <2>1. SUFFICES ASSUME layout = "keys"
                 PROVE  IndexInv'
    BY DEF IndexInv
  <2>2. ASSUME NEW r \in Run, NEW a \in Caller, call'[a].x = r
        PROVE  IndexOrder(r, todo'[a], db')
    <3>1. CASE a = c
      BY <1>2, <2>1, <2>2, <3>1 DEF Good
    <3>2. CASE a # c
      BY <1>1, <1>2, <2>1, <2>2, <3>2 DEF IndexInv
    <3> QED BY <3>1, <3>2
  <2>3. \A r \in Run : SoundFor(r, db')
    BY <1>1, <2>1 DEF IndexInv
  <2>4. Unlisted' \subseteq Unlisted
    <3>1. ASSUME NEW r \in Unlisted'
          PROVE  r \in Unlisted
      <4>1. r \in Hidden(db) /\ r \in Run /\ \A a \in Caller : ~Relists(todo'[a], r)
        BY <3>1 DEF Unlisted, Hidden
      <4>2. \A a \in Caller : ~Relists(todo[a], r)
        BY <1>2, <4>1
      <4> QED BY <4>1, <4>2 DEF Unlisted
    <3> QED BY <3>1
  <2>5. IsFiniteSet(Unlisted)' /\ (Cardinality(Unlisted) <= faults)'
    BY <1>1, <2>1, <2>4, Fewer DEF IndexInv, CallInv
  <2> QED BY <2>2, <2>3, <2>5 DEF IndexInv
<1> QED BY <1>3, <1>4, <1>5 DEF IInv

LEMMA ValidateKeeps ==
  ASSUME IInv, NEW c \in Caller, Validate(c)
  PROVE  IInv'
<1>1. CallInv /\ ClosedInv /\ IndexInv
  BY DEF IInv
<1>2. PICK cmds \in Plans(call[c], db) : todo' = [todo EXCEPT ![c] = cmds]
  BY DEF Validate
<1>3. /\ call[c] # NoCall /\ call[c] \in Calls /\ todo[c] = <<>>
      /\ layout' = layout /\ db' = db /\ call' = call /\ faults' = faults
      /\ stage' \in [Caller -> {"read", "write"}] /\ stage'[c] = "write"
      /\ \A a \in Caller : a # c => stage'[a] = stage[a]
  BY <1>1 DEF Validate, CallInv
<1>4. /\ layout \in {"keys", "rows"} /\ db \in Data
      /\ call[c].type = "run_completed" => db.run[call[c].x] # "none"
      /\ \A x \in Step \union Run : ClosedOnce(x, db)
      /\ layout = "keys" => \A r \in Run : SoundFor(r, db)
  BY <1>1 DEF CallInv, ClosedInv, IndexInv
<1>5. Good(call[c].x, cmds, db)
  BY <1>2, <1>3, <1>4, PlansGood
<1>6. \A r \in Run : Relists(todo[c], r) => Relists(cmds, r)
  BY <1>3, Nothing
<1> QED BY <1>2, <1>3, <1>5, <1>6, GoesOn

(* A read puts calm commands in its place.                                 *)
LEMMA ReadGood ==
  ASSUME NEW x, NEW d, NEW cmds, Good(x, cmds, d), cmds # <<>>, Head(cmds).op \in Reading,
         NEW q, CalmList(q)
  PROVE  /\ Good(x, q \o Tail(cmds), d)
         /\ \A r \in Run : Relists(cmds, r) => Relists(q \o Tail(cmds), r)
<1> DEFINE t == Tail(cmds)
           s == q \o t
           n == Len(q)
<1>1. /\ cmds \in Seq(Command) /\ t \in Seq(Command) /\ Len(t) = Len(cmds) - 1
      /\ Len(cmds) \in Nat \ {0}
      /\ \A i \in 1..Len(t) : t[i] = cmds[i + 1]
      /\ Head(cmds) = cmds[1]
  BY TailAt DEF Good
<1>2. /\ s \in Seq(Command) /\ Len(s) = n + Len(t) /\ n \in Nat /\ Len(t) \in Nat
      /\ \A i \in 1..n + Len(t) : s[i] = IF i <= n THEN q[i] ELSE t[i - n]
  BY <1>1 DEF CalmList
<1>3. \A i \in 1..n : Calm(q[i])
  BY DEF CalmList
<1> HIDE DEF s, t, n
<1>4. ASSUME NEW i \in 1..Len(s)
      PROVE  \/ Calm(s[i])
             \/ i > n /\ i - n + 1 \in 1..Len(cmds) /\ s[i] = cmds[i - n + 1]
  <2>1. CASE i <= n
    BY <1>2, <1>3, <2>1
  <2>2. CASE ~(i <= n)
    <3>1. i - n \in 1..Len(t) /\ s[i] = t[i - n]
      BY <1>2, <2>2
    <3>2. i > n /\ i - n + 1 \in 1..Len(cmds)
      BY <1>1, <1>2, <2>2, <3>1, SMTT(40)
    <3> QED BY <1>1, <3>1, <3>2
  <2> QED BY <2>1, <2>2
<1>5. ASSUME NEW k \in 1..Len(cmds), k # 1
      PROVE  n + k - 1 \in 1..Len(s) /\ s[n + k - 1] = cmds[k] /\ n + k - 1 > n
  <2>1. k - 1 \in 1..Len(t) /\ t[k - 1] = cmds[k]
    BY <1>1, <1>5
  <2>2. n + k - 1 \in 1..n + Len(t) /\ ~(n + k - 1 <= n) /\ (n + k - 1) - n = k - 1
    BY <1>2, <2>1
  <2> QED BY <1>2, <2>1, <2>2
<1>6. Calm(cmds[1])
  BY <1>1 DEF Calm, Reading
<1>7. \A cmd : Calm(cmd) => \A y : /\ ~Writes(cmd, y) /\ ~Closes(cmd, y) /\ ~Index(cmd, y)
                                   /\ cmd.op \notin {"run", "step", "index", "unindex"}
                                   /\ ~(cmd.op = "append" /\ cmd.v.type \in Closing)
  BY DEF Calm, Writes, Closes, Index
<1>8. Own(x, s)
  <2>1. ASSUME NEW i \in 1..Len(s)
        PROVE  /\ s[i].op \in {"run", "step", "index", "unindex"} => s[i].x = x
               /\ s[i].op = "append" /\ s[i].v.type \in Closing => s[i].v.on = x
    <3>1. CASE Calm(s[i])
      BY <1>7, <3>1
    <3>2. CASE i - n + 1 \in 1..Len(cmds) /\ s[i] = cmds[i - n + 1]
      BY <3>2 DEF Good, Own
    <3> QED BY <1>4, <3>1, <3>2
  <2> QED BY <2>1 DEF Own
<1>9. ASSUME x \in Step \union Run
      PROVE  Order(x, s, d)
  <2>0. Order(x, cmds, d)
    BY <1>9 DEF Good
  <2>1. ASSUME NEW i \in 1..Len(s), Writes(s[i], x) \/ Closes(s[i], x)
        PROVE  i > n /\ i - n + 1 \in 1..Len(cmds) /\ s[i] = cmds[i - n + 1]
    BY <1>4, <1>7, <2>1
  <2>2. ASSUME NEW i \in 1..Len(s), Closes(s[i], x)
        PROVE  /\ i = Len(s)
               /\ StatusIn(d, x) \in RunTerminal \/ \E j \in 1..Len(s) : j < i /\ Writes(s[j], x)
               /\ \A j \in 1..Len(s) : Writes(s[j], x) => s[j].v \in RunTerminal
    <3> DEFINE k == i - n + 1
    <3>1. k \in 1..Len(cmds) /\ Closes(cmds[k], x)
      BY <2>1, <2>2
    <3> HIDE DEF k
    <3>2. /\ k = Len(cmds)
          /\ \/ StatusIn(d, x) \in RunTerminal
             \/ \E j \in 1..Len(cmds) : j < k /\ Writes(cmds[j], x)
          /\ \A j \in 1..Len(cmds) : Writes(cmds[j], x) => cmds[j].v \in RunTerminal
      BY <2>0, <3>1 DEF Order
    <3>3. i = Len(s)
      BY <1>1, <1>2, <3>1, <3>2 DEF k
    <3>4. ASSUME NEW j \in 1..Len(cmds), j < k, Writes(cmds[j], x)
          PROVE  \E m \in 1..Len(s) : m < i /\ Writes(s[m], x)
      <4>1. j # 1
        BY <1>6, <1>7, <3>4
      <4>2. n + j - 1 \in 1..Len(s) /\ s[n + j - 1] = cmds[j]
        BY <1>5, <4>1
      <4>3. n + j - 1 < i
        BY <1>2, <3>4 DEF k
      <4> QED BY <3>4, <4>2, <4>3
    <3>5. \A j \in 1..Len(s) : Writes(s[j], x) => s[j].v \in RunTerminal
      BY <2>1, <3>2
    <3> QED BY <3>2, <3>3, <3>4, <3>5
  <2>3. ASSUME NEW i \in 1..Len(s), Writes(s[i], x) \/ Closes(s[i], x)
        PROVE  ClosedAt(d, x) = {}
    BY <2>0, <2>1, <2>3 DEF Order
  <2> QED BY <2>2, <2>3 DEF Order
<1>10. ASSUME layout = "keys", x \in Run
       PROVE  IndexOrder(x, s, d)
  <2>0. IndexOrder(x, cmds, d)
    BY <1>10 DEF Good
  <2>1. ASSUME NEW i \in 1..Len(s),
               Writes(s[i], x) \/ Index(s[i], x) \/ s[i].op = "unindex"
        PROVE  i > n /\ i - n + 1 \in 1..Len(cmds) /\ s[i] = cmds[i - n + 1]
    BY <1>4, <1>7, <2>1
  <2>2. ASSUME NEW i \in 1..Len(s), Index(s[i], x)
        PROVE  d.run[x] = s[i].v \/ \E j \in 1..Len(s) : j < i /\ Writes(s[j], x)
    <3> DEFINE k == i - n + 1
    <3>1. k \in 1..Len(cmds) /\ s[i] = cmds[k]
      BY <2>1, <2>2
    <3> HIDE DEF k
    <3>2. ASSUME NEW j \in 1..Len(cmds), j < k, Writes(cmds[j], x)
          PROVE  \E m \in 1..Len(s) : m < i /\ Writes(s[m], x)
      <4>1. j # 1
        BY <1>6, <1>7, <3>2
      <4>2. n + j - 1 \in 1..Len(s) /\ s[n + j - 1] = cmds[j]
        BY <1>5, <4>1
      <4>3. n + j - 1 < i
        BY <1>2, <3>2 DEF k
      <4> QED BY <3>2, <4>2, <4>3
    <3> QED BY <2>0, <2>2, <3>1, <3>2 DEF IndexOrder
  <2>3. ASSUME NEW i \in 1..Len(s), Writes(s[i], x)
        PROVE  /\ \A j \in 1..Len(s) : Index(s[j], x) => i < j /\ s[i].v = s[j].v
               /\ \/ x \notin d.byStatus[d.run[x]]
                  \/ \E j \in 1..Len(s) : j < i /\ s[j] = Cmd("unindex", x, d.run[x])
    <3> DEFINE k == i - n + 1
    <3>1. k \in 1..Len(cmds) /\ s[i] = cmds[k]
      BY <2>1, <2>3
    <3> HIDE DEF k
    <3>2. ASSUME NEW j \in 1..Len(s), Index(s[j], x)
          PROVE  i < j /\ s[i].v = s[j].v
      <4>1. j - n + 1 \in 1..Len(cmds) /\ s[j] = cmds[j - n + 1]
        BY <2>1, <3>2
      <4>2. k < j - n + 1 /\ cmds[k].v = cmds[j - n + 1].v
        BY <2>0, <2>3, <3>1, <3>2, <4>1 DEF IndexOrder
      <4> QED BY <1>2, <3>1, <4>1, <4>2 DEF k
    <3>3. ASSUME NEW j \in 1..Len(cmds), j < k, cmds[j] = Cmd("unindex", x, d.run[x])
          PROVE  \E m \in 1..Len(s) : m < i /\ s[m] = Cmd("unindex", x, d.run[x])
      <4>1. cmds[j].op = "unindex"
        BY <3>3 DEF Cmd
      <4>2. j # 1
        BY <1>6, <1>7, <4>1
      <4>3. n + j - 1 \in 1..Len(s) /\ s[n + j - 1] = cmds[j]
        BY <1>5, <4>2
      <4>4. n + j - 1 < i
        BY <1>2, <3>3 DEF k
      <4> QED BY <3>3, <4>3, <4>4
    <3> QED BY <2>0, <2>3, <3>1, <3>2, <3>3 DEF IndexOrder
  <2>4. ASSUME NEW i \in 1..Len(s), Writes(s[i], x) \/ (s[i].op = "unindex" /\ s[i].x = x)
        PROVE  \E j \in 1..Len(s) : i < j /\ Index(s[j], x)
    <3> DEFINE k == i - n + 1
    <3>1. k \in 1..Len(cmds) /\ s[i] = cmds[k]
      BY <2>1, <2>4
    <3> HIDE DEF k
    <3>2. PICK j \in 1..Len(cmds) : k < j /\ Index(cmds[j], x)
      BY <2>0, <2>4, <3>1 DEF IndexOrder
    <3>3. j # 1
      BY <1>6, <1>7, <3>2
    <3>4. n + j - 1 \in 1..Len(s) /\ s[n + j - 1] = cmds[j]
      BY <1>5, <3>3
    <3>5. i < n + j - 1
      BY <1>2, <3>2 DEF k
    <3> QED BY <3>2, <3>4, <3>5
  <2> QED BY <2>2, <2>3, <2>4 DEF IndexOrder
<1>11. ASSUME NEW r \in Run, Relists(cmds, r)
       PROVE  Relists(s, r)
  <2>1. PICK k \in 1..Len(cmds) : Index(cmds[k], r)
    BY <1>11 DEF Relists
  <2>2. k # 1
    BY <1>6, <1>7, <2>1
  <2> QED BY <1>5, <2>1, <2>2 DEF Relists
<1> QED BY <1>2, <1>8, <1>9, <1>10, <1>11 DEF Good, s, t

LEMMA ReadKeeps ==
  ASSUME IInv, NEW c \in Caller, Write(c), Head(todo[c]).op \in Reading
  PROVE  IInv'
<1>1. CallInv /\ ClosedInv /\ IndexInv
  BY DEF IInv
<1> DEFINE cmd == Head(todo[c])
           q == Expand(db, cmd)
           cmds == q \o Tail(todo[c])
<1>2. /\ todo[c] # <<>> /\ todo' = [todo EXCEPT ![c] = q \o Tail(@)]
      /\ db' = db /\ faults' = faults /\ layout' = layout /\ call' = call /\ stage' = stage
  BY DEF Write
<1>3. todo' = [todo EXCEPT ![c] = cmds]
  BY <1>1, <1>2 DEF CallInv
<1>4. stage[c] = "write" /\ call[c] # NoCall /\ stage' \in [Caller -> {"read", "write"}]
  BY <1>1, <1>2 DEF CallInv
<1>5. todo[c] \in Seq(Command) /\ layout \in {"keys", "rows"} /\ db \in Data /\ cmd \in Command
  BY <1>1, <1>2, TailAt DEF CallInv
<1>6. CalmList(q)
  BY <1>5, ExpandCalm
<1>7. Good(call[c].x, todo[c], db)
  BY <1>1, <1>5 DEF Good, CallInv, ClosedInv, IndexInv
<1> HIDE DEF q
<1>8. /\ Good(call[c].x, cmds, db)
      /\ \A r \in Run : Relists(todo[c], r) => Relists(cmds, r)
  BY <1>2, <1>6, <1>7, ReadGood
<1> HIDE DEF cmds
<1> QED BY <1>2, <1>3, <1>4, <1>8, GoesOn

LEMMA WriteKeeps ==
  ASSUME IInv, NEW c \in Caller, Write(c), Head(todo[c]).op \notin Reading
  PROVE  IInv'
<1>1. CallInv /\ ClosedInv /\ IndexInv
  BY DEF IInv
<1> DEFINE cmd == Head(todo[c])
           D == Apply(db, cmd)
           t == Tail(todo[c])
           x == call[c].x
<1>2. /\ todo[c] # <<>> /\ todo' = [todo EXCEPT ![c] = Tail(@)]
      /\ db' = D /\ faults' \in {faults, faults + 1}
      /\ layout' = layout /\ call' = call /\ stage' = stage
  BY DEF Write, OneFault
<1>3. todo'[c] = t /\ \A a \in Caller : a # c => todo'[a] = todo[a]
  BY <1>1, <1>2 DEF CallInv
<1>4. stage[c] = "write" /\ call[c] # NoCall /\ call[c] \in Calls
  BY <1>1, <1>2 DEF CallInv
<1>5. /\ todo[c] \in Seq(Command) /\ t \in Seq(Command) /\ cmd \in Command
      /\ layout \in {"keys", "rows"} /\ db \in Data /\ faults \in Nat
  BY <1>1, <1>2, TailAt DEF CallInv
<1>6. /\ Own(x, t)
      /\ \A y : Writes(cmd, y) \/ Closes(cmd, y) \/ Index(cmd, y) => y = x
  BY <1>1, <1>2, <1>5, OwnTail DEF CallInv
<1>7. cmd.op \in {"run", "step", "index", "unindex"} => cmd.x = x
  <2>1. Len(todo[c]) \in Nat \ {0} /\ cmd = todo[c][1] /\ 1 \in 1..Len(todo[c])
    BY <1>2, <1>5, TailAt
  <2> HIDE DEF cmd, x
  <2> QED BY <1>1, <2>1 DEF CallInv, Own, x
<1>8. D \in Data
  BY <1>5, ApplyDoes
<1>9. \A a \in Caller : a # c /\ call[a] # NoCall => RunOf(call[a].x) # RunOf(x) /\ call[a].x # x
  BY <1>1, <1>4 DEF CallInv
<1>10. NoCall.x = None
  BY DEF NoCall, EventCall
<1>11. \A a \in Caller : a # c /\ call[a].x \in Run \union Step => call[a].x # x
  BY <1>9, <1>10, KindOf
<1> HIDE DEF cmd, D, t, x
<1>12. CallInv'
  <2>1. /\ call' \in [Caller -> Calls \union {NoCall}]
        /\ layout' \in {"keys", "rows"} /\ db' \in Data
        /\ stage' \in [Caller -> {"read", "write"}]
        /\ todo' \in [Caller -> Seq(Command)]
    BY <1>1, <1>2, <1>5, <1>8 DEF CallInv, t
  <2>2. faults' \in Nat
    BY <1>2, <1>5
  <2>3. ASSUME NEW a \in Caller
        PROVE  /\ call'[a] = NoCall => stage'[a] = "read"
               /\ stage'[a] = "read" => todo'[a] = <<>>
               /\ Own(call'[a].x, todo'[a])
    <3>1. CASE a = c
      BY <1>2, <1>3, <1>4, <1>6, <3>1 DEF x
    <3>2. CASE a # c
      BY <1>1, <1>2, <1>3, <3>2 DEF CallInv
    <3> QED BY <3>1, <3>2
  <2>4. ASSUME NEW a \in Caller, call'[a].type = "run_completed"
        PROVE  db'.run[call'[a].x] # "none"
    <3>1. call[a].type = "run_completed" /\ db.run[call[a].x] # "none"
      BY <1>1, <1>2, <2>4 DEF CallInv
    <3>2. call[a] # NoCall
      BY <3>1 DEF NoCall, EventCall
    <3>3. call[a] \in Calls
      BY <1>1, <3>2 DEF CallInv
    <3>4. call[a].x \in Run
      BY <3>1, <3>3, CallTyped DEF StepTypes, HookTypes, WaitTypes
    <3>5. D.run = IF cmd.op = "run" THEN [db.run EXCEPT ![cmd.x] = cmd.v] ELSE db.run
      BY <1>5, ApplyDoes DEF D, cmd
    <3>6. cmd.op = "run" => cmd.v # "none"
      BY <1>5 DEF Command
    <3>7. D.run[call[a].x] # "none"
      BY <1>5, <3>1, <3>4, <3>5, <3>6 DEF Data
    <3> QED BY <1>2, <3>7
  <2>5. \A a, b \in Caller : call'[a] # NoCall /\ call'[b] # NoCall
                             /\ RunOf(call'[a].x) = RunOf(call'[b].x) => a = b
    BY <1>1, <1>2 DEF CallInv
  <2> QED BY <2>1, <2>2, <2>3, <2>4, <2>5 DEF CallInv
<1>13. ClosedInv'
  <2>1. ASSUME NEW y \in Step \union Run
        PROVE  /\ ClosedOnce(y, D)
               /\ \A a \in Caller : call[a].x = y => Order(y, todo'[a], D)
    <3>0. ClosedOnce(y, db) /\ \A a \in Caller : call[a].x = y => Order(y, todo[a], db)
      BY <1>1 DEF ClosedInv
    <3>1. CASE y = x
      <4>1. Order(y, todo[c], db)
        BY <3>0, <3>1 DEF x
      <4>2. ClosedOnce(y, D) /\ Order(y, t, D)
        BY <1>2, <1>5, <3>0, <4>1, Written DEF D, t, cmd
      <4>3. \A a \in Caller : call[a].x = y => a = c
        BY <1>11, <3>1
      <4> QED BY <1>3, <4>2, <4>3
    <3>2. CASE y # x
      <4>1. ~Writes(cmd, y) /\ ~Closes(cmd, y)
        BY <1>6, <3>2
      <4>2. /\ ClosedOnce(y, D)
            /\ \A a \in Caller : Order(y, todo[a], db) => Order(y, todo[a], D)
        BY <1>5, <3>0, <4>1, OthersWrite DEF D, cmd
      <4>3. \A a \in Caller : call[a].x = y => a # c
        BY <3>2 DEF x
      <4> QED BY <1>3, <3>0, <4>2, <4>3
    <3> QED BY <3>1, <3>2
  <2> QED BY <1>2, <2>1 DEF ClosedInv
<1>14. IndexInv'
  <2>1. SUFFICES ASSUME layout = "keys"
                 PROVE  IndexInv'
    BY <1>2 DEF IndexInv
  <2>2. ASSUME NEW r \in Run
        PROVE  /\ SoundFor(r, D)
               /\ \A a \in Caller : call[a].x = r => IndexOrder(r, todo'[a], D)
               /\ r \in Hidden(D) /\ (\A a \in Caller : ~Relists(todo'[a], r)) =>
                    r \in Hidden(db) /\ \A a \in Caller : ~Relists(todo[a], r)
    <3>0. SoundFor(r, db) /\ \A a \in Caller : call[a].x = r => IndexOrder(r, todo[a], db)
      BY <1>1, <2>1 DEF IndexInv
    <3>1. CASE r = x
      <4>1. IndexOrder(r, todo[c], db)
        BY <3>0, <3>1 DEF x
      <4>2. /\ SoundFor(r, D) /\ IndexOrder(r, t, D)
            /\ r \in Hidden(D) /\ ~Relists(t, r) => r \in Hidden(db) /\ ~Relists(todo[c], r)
        BY <1>2, <1>5, <3>0, <4>1, Indexed DEF D, t, cmd
      <4>3. \A a \in Caller : call[a].x = r => a = c
        BY <1>11, <3>1
      <4> QED BY <1>3, <4>2, <4>3
    <3>2. CASE r # x
      <4>1. cmd.op \in {"run", "index", "unindex"} => cmd.x # r
        BY <1>7, <3>2
      <4>2. /\ SoundFor(r, D) /\ r \in Hidden(D) => r \in Hidden(db)
            /\ \A a \in Caller : IndexOrder(r, todo[a], db) => IndexOrder(r, todo[a], D)
        BY <1>5, <3>0, <4>1, OthersIndex DEF D, cmd
      <4>3. SoundFor(r, D)
        BY <1>5, <3>0, <4>1, OthersIndex DEF D, cmd
      <4>4. r \in Hidden(D) => r \in Hidden(db)
        BY <1>5, <3>0, <4>1, OthersIndex DEF D, cmd
      <4>5. \A a \in Caller : call[a].x = r => a # c
        BY <3>2 DEF x
      <4>6. ~Index(cmd, r)
        BY <1>6, <3>2
      <4>7. Relists(todo[c], r) => Relists(t, r)
        BY <1>2, <1>5, <4>6, Relisted DEF t, cmd
      <4> QED BY <1>3, <3>0, <4>2, <4>3, <4>4, <4>5, <4>7
    <3> QED BY <3>1, <3>2
  <2>3. Unlisted' \subseteq Unlisted
    BY <1>2, <2>2 DEF Unlisted, Hidden
  <2>4. faults <= faults' /\ faults' \in Nat
    BY <1>2, <1>5
  <2>5. IsFiniteSet(Unlisted)' /\ (Cardinality(Unlisted) <= faults)'
    BY <1>1, <1>5, <2>1, <2>3, <2>4, Fewer DEF IndexInv
  <2> QED BY <1>2, <2>2, <2>5 DEF IndexInv
<1> QED BY <1>12, <1>13, <1>14 DEF IInv

(* A call that is over.                                                    *)
LEMMA EndKeeps ==
  ASSUME IInv, NEW c \in Caller, Reset(c), call[c] # NoCall,
         layout' = layout, db' = db,
         (todo[c] = <<>> /\ faults' = faults) \/ faults' = faults + 1
  PROVE  IInv'
<1>1. CallInv /\ ClosedInv /\ IndexInv
  BY DEF IInv
<1>2. /\ call'[c] = NoCall /\ stage'[c] = "read" /\ todo'[c] = <<>>
      /\ \A a \in Caller : a # c => call'[a] = call[a] /\ stage'[a] = stage[a] /\ todo'[a] = todo[a]
  BY <1>1 DEF Reset, CallInv
<1>3. NoCall.x = None /\ NoCall.type # "run_completed" /\ None \notin Run \union Step
  BY KindOf DEF NoCall, EventCall
<1>4. CallInv'
  <2>1. /\ call' \in [Caller -> Calls \union {NoCall}]
        /\ layout' \in {"keys", "rows"} /\ db' \in Data
        /\ stage' \in [Caller -> {"read", "write"}]
        /\ todo' \in [Caller -> Seq(Command)]
    BY <1>1 DEF CallInv, Reset
  <2>2. faults' \in Nat
    BY <1>1 DEF CallInv
  <2>3. ASSUME NEW a \in Caller
        PROVE  /\ call'[a] = NoCall => stage'[a] = "read"
               /\ stage'[a] = "read" => todo'[a] = <<>>
               /\ Own(call'[a].x, todo'[a])
               /\ call'[a].type = "run_completed" => db'.run[call'[a].x] # "none"
    <3>1. CASE a = c
      BY <1>2, <1>3, <3>1, Nothing
    <3>2. CASE a # c
      BY <1>1, <1>2, <3>2 DEF CallInv
    <3> QED BY <3>1, <3>2
  <2>4. \A a, b \in Caller : call'[a] # NoCall /\ call'[b] # NoCall
                             /\ RunOf(call'[a].x) = RunOf(call'[b].x) => a = b
    BY <1>1, <1>2, SMTT(40) DEF CallInv
  <2> QED BY <2>1, <2>2, <2>3, <2>4 DEF CallInv
<1>5. ClosedInv'
  <2>1. ASSUME NEW x \in Step \union Run, NEW a \in Caller, call'[a].x = x
        PROVE  Order(x, todo'[a], db')
    <3>1. CASE a = c
      BY <1>2, <3>1, Nothing
    <3>2. CASE a # c
      BY <1>1, <1>2, <2>1, <3>2 DEF ClosedInv
    <3> QED BY <3>1, <3>2
  <2>2. \A x \in Step \union Run : ClosedOnce(x, db')
    BY <1>1 DEF ClosedInv
  <2> QED BY <2>1, <2>2 DEF ClosedInv
<1>6. IndexInv'
  <2>1. SUFFICES ASSUME layout = "keys"
                 PROVE  IndexInv'
    BY DEF IndexInv
  <2>2. ASSUME NEW r \in Run, NEW a \in Caller, call'[a].x = r
        PROVE  IndexOrder(r, todo'[a], db')
    <3>1. CASE a = c
      BY <1>2, <3>1, Nothing
    <3>2. CASE a # c
      BY <1>1, <1>2, <2>1, <2>2, <3>2 DEF IndexInv
    <3> QED BY <3>1, <3>2
  <2>3. \A r \in Run : SoundFor(r, db')
    BY <1>1, <2>1 DEF IndexInv
  <2>4. ASSUME NEW r \in Unlisted', ~Relists(todo[c], r)
        PROVE  r \in Unlisted
    <3>1. r \in Hidden(db) /\ \A a \in Caller : ~Relists(todo'[a], r)
      BY <2>4 DEF Unlisted
    <3>2. \A a \in Caller : ~Relists(todo[a], r)
      BY <1>2, <2>4, <3>1
    <3> QED BY <3>1, <3>2 DEF Unlisted
  <2>5. ASSUME NEW r, Relists(todo[c], r)
        PROVE  r = call[c].x
    <3>1. PICK i \in 1..Len(todo[c]) : todo[c][i].op = "index" /\ todo[c][i].x = r
      BY <2>5 DEF Relists, Index
    <3> QED BY <1>1, <3>1 DEF CallInv, Own
  <2>6. Unlisted' \subseteq Unlisted \union {call[c].x}
    BY <2>4, <2>5
  <2>7. todo[c] = <<>> => Unlisted' \subseteq Unlisted
    BY <2>4, Nothing
  <2>8. faults \in Nat /\ faults' \in Nat
    BY <1>1 DEF CallInv
  <2>9. IsFiniteSet(Unlisted) /\ Cardinality(Unlisted) <= faults
    BY <1>1, <2>1 DEF IndexInv
  <2>10. \/ Unlisted' \subseteq Unlisted /\ faults <= faults'
         \/ \E r : Unlisted' \subseteq Unlisted \union {r} /\ faults' = faults + 1
    <3>1. CASE todo[c] = <<>> /\ faults' = faults
      BY <2>7, <2>8, <3>1
    <3>2. CASE faults' = faults + 1
      BY <2>6, <3>2
    <3> QED BY <3>1, <3>2
  <2>11. IsFiniteSet(Unlisted)' /\ (Cardinality(Unlisted) <= faults)'
    BY <2>8, <2>9, <2>10, Fewer
  <2> QED BY <2>2, <2>3, <2>11 DEF IndexInv
<1> QED BY <1>4, <1>5, <1>6 DEF IInv

LEMMA NextKeeps == IInv /\ [Next]_vars => IInv'
<1>1. SUFFICES ASSUME IInv, [Next]_vars
               PROVE  IInv'
  OBVIOUS
<1>2. CallInv
  BY <1>1 DEF IInv
<1>3. ASSUME NEW c \in Caller, Create(c)
      PROVE  IInv'
  BY <1>1, <1>3, CreateKeeps
<1>4. ASSUME NEW c \in Caller, Validate(c)
      PROVE  IInv'
  BY <1>1, <1>4, ValidateKeeps
<1>5. ASSUME NEW c \in Caller, Write(c)
      PROVE  IInv'
  BY <1>1, <1>5, ReadKeeps, WriteKeeps
<1>6. ASSUME NEW c \in Caller, Return(c)
      PROVE  IInv'
  <2>1. /\ call[c] # NoCall /\ Reset(c) /\ layout' = layout /\ db' = db /\ faults' = faults
        /\ todo[c] = <<>>
    BY <1>2, <1>6 DEF Return, CallInv
  <2> QED BY <1>1, <2>1, EndKeeps
<1>7. ASSUME NEW c \in Caller, Fail(c)
      PROVE  IInv'
  <2>1. /\ call[c] # NoCall /\ Reset(c) /\ layout' = layout /\ db' = db /\ faults' = faults + 1
    BY <1>2, <1>7 DEF Fail, OneFault, CallInv
  <2> QED BY <1>1, <2>1, EndKeeps
<1>8. CASE UNCHANGED vars
  <2>1. /\ layout' = layout /\ db' = db /\ call' = call /\ stage' = stage /\ todo' = todo
        /\ faults' = faults
    BY <1>8 DEF vars
  <2>2. CallInv' /\ ClosedInv'
    BY <1>1, <2>1 DEF IInv, CallInv, ClosedInv
  <2>3. Unlisted' = Unlisted
    BY <2>1 DEF Unlisted
  <2>4. IndexInv'
    BY <1>1, <2>1, <2>3 DEF IInv, IndexInv
  <2> QED BY <2>2, <2>4 DEF IInv
<1> QED BY <1>1, <1>3, <1>4, <1>5, <1>6, <1>7, <1>8 DEF Next

----------------------------------------------------------------------------
(* The theorems.                                                           *)

THEOREM Invariant == Spec => []IInv
<1>1. Init => IInv
  BY InitHolds
<1>2. IInv /\ [Next]_vars => IInv'
  BY NextKeeps
<1> QED BY <1>1, <1>2, PTL DEF Spec

(* A call that is cut short between the entity and the event, and then     *)
(* retried, never settles a step twice or ends a run twice, and what the   *)
(* log says is settled reads as settled: createImpl of both stores writes  *)
(* the entity first, the event last, and under the mutex of the run.       *)
THEOREM LogApplied == Spec => []LogIsApplied
<1>1. IInv => LogIsApplied
  BY AppliedIff DEF IInv, CallInv, ClosedInv, ClosedOnce, LogIsApplied
<1> QED BY <1>1, Invariant, PTL

(* A run is never listed under a status it no longer has, and a call cut   *)
(* short hides at most one run: writeRun of the key-value store takes the  *)
(* run out of the index of its old status, writes it, and puts it into     *)
(* that of the new one.                                                    *)
THEOREM IndexTrue == Spec => []IndexIsTrue
<1>1. IInv => IndexIsTrue
  <2>1. SUFFICES ASSUME IInv, layout = "keys"
                 PROVE  IndexSound(db) /\ (Quiet => Cardinality(Hidden(db)) <= faults)
    BY DEF IndexIsTrue
  <2>2. IndexSound(db)
    BY <2>1 DEF IInv, IndexInv, SoundFor, IndexSound
  <2>3. ASSUME Quiet
        PROVE  Hidden(db) = Unlisted
    <3>1. \A c \in Caller : todo[c] = <<>>
      BY <2>3 DEF Quiet
    <3> QED BY <3>1, Nothing DEF Unlisted
  <2> QED BY <2>1, <2>2, <2>3 DEF IInv, IndexInv
<1> QED BY <1>1, Invariant, PTL

-----------------------------------------------------------------------------
(* Hooks, claims and waits.                                                *)

In(rows, x) == \E n \in DOMAIN rows : rows[n].x = x
One(rows, x) == \A m, n \in DOMAIN rows : rows[m].x = x /\ rows[n].x = x => m = n

(* A scan finds what is there.                                             *)
LEMMA Seen ==
  ASSUME NEW S, NEW rows \in Seq(S), NEW x
  PROVE  Has(rows, x) <=> In(rows, x)
<1>1. ASSUME Has(rows, x)
      PROVE  In(rows, x)
  <2>1. PICK j \in Range(getAllRows(rows)) : j.row.x = x
    BY <1>1 DEF Has, Find
  <2>2. PICK n \in DOMAIN rows : j = [at |-> n, row |-> rows[n]]
    BY <2>1 DEF Range, getAllRows
  <2> QED BY <2>1, <2>2 DEF In
<1>2. ASSUME In(rows, x)
      PROVE  Has(rows, x)
  <2> DEFINE mine == {n \in DOMAIN rows : rows[n].x = x}
             c == Cardinality(mine)
  <2>1. Len(rows) \in Nat /\ mine \in SUBSET (1..Len(rows)) /\ mine # {}
    BY <1>2 DEF In
  <2> HIDE DEF mine
  <2>2. c \in Nat /\ \A k \in 1..c : \E n \in mine : Cardinality({m \in mine : m >= n}) = k
    BY <2>1, Ranked
  <2>3. IsFiniteSet(mine)
    <3>1. IsFiniteSet(1..Len(rows))
      BY <2>1, UpTo
    <3> QED BY <2>1, <3>1, FS_Subset
  <2>4. c # 0
    BY <2>1, <2>3, FS_EmptySet
  <2>5. PICK n \in mine : Cardinality({m \in mine : m >= n}) = c
    BY <2>2, <2>4
  <2>6. {m \in mine : m >= n} = mine
    <3> DEFINE up == {m \in mine : m >= n}
    <3>1. up \in SUBSET mine /\ Cardinality(up) = Cardinality(mine)
      BY <2>5
    <3> HIDE DEF up
    <3>2. up = mine
      BY <2>3, <3>1, FS_Subset
    <3> QED BY <3>2 DEF up
  <2>7. n \in 1..Len(rows) /\ rows[n].x = x /\ \A m \in 1..Len(rows) : rows[m].x = x => m >= n
    BY <2>1, <2>6 DEF mine
  <2> DEFINE j == [at |-> n, row |-> rows[n]]
  <2>8. j \in Range(getAllRows(rows))
    BY <2>7 DEF Range, getAllRows
  <2>9. \A m \in 1..j.at - 1 : rows[m].x # x
    BY <2>1, <2>7
  <2>10. j \in Find(rows, x)
    BY <2>7, <2>8, <2>9 DEF Find
  <2> QED BY <2>10 DEF Has
<1> QED BY <1>1, <1>2

LEMMA Appended ==
  ASSUME NEW S, NEW rows \in Seq(S), NEW v \in S, NEW g
  PROVE  /\ In(Append(rows, v), g) <=> In(rows, g) \/ v.x = g
         /\ One(rows, g) /\ (v.x = g => ~In(rows, g)) => One(Append(rows, v), g)
<1> DEFINE new == Append(rows, v)
<1>1. /\ Len(rows) \in Nat /\ DOMAIN rows = 1..Len(rows) /\ DOMAIN new = 1..Len(rows) + 1
      /\ new[Len(rows) + 1] = v /\ \A n \in 1..Len(rows) : new[n] = rows[n]
  OBVIOUS
<1> HIDE DEF new
<1>2. /\ \A n \in 1..Len(rows) + 1 : n \in 1..Len(rows) \/ n = Len(rows) + 1
      /\ \A n \in 1..Len(rows) : n \in 1..Len(rows) + 1
      /\ Len(rows) + 1 \in 1..Len(rows) + 1
  BY <1>1
<1>3. In(new, g) <=> In(rows, g) \/ v.x = g
  BY <1>1, <1>2 DEF In
<1>4. One(rows, g) /\ (v.x = g => ~In(rows, g)) => One(new, g)
  BY <1>1, <1>2 DEF In, One
<1> QED BY <1>3, <1>4 DEF new

(* Deleting row n: of the others, those that are not blank stay.           *)
LEMMA RowGone ==
  ASSUME NEW S, NEW rows \in Seq(S), Blank \in S, NEW n \in Nat \ {0}, NEW g, g # None
  PROVE  LET r == deleteRow(rows, n, Blank) IN
         /\ In(r, g) => In(rows, g)
         /\ One(rows, g) => One(r, g)
         /\ ~(n \in DOMAIN rows /\ rows[n].x = g) => (In(r, g) <=> In(rows, g))
         /\ ~(n \in DOMAIN rows /\ rows[n].x = g) => (One(r, g) <=> One(rows, g))
         /\ n \in DOMAIN rows /\ rows[n].x = g /\ One(rows, g) => ~In(r, g)
<1> DEFINE r == deleteRow(rows, n, Blank)
<1>1. Len(rows) \in Nat /\ DOMAIN rows = 1..Len(rows)
  OBVIOUS
<1>2. CASE n > Len(rows)
  <2>1. r = rows /\ n \notin DOMAIN rows
    BY <1>1, <1>2 DEF deleteRow
  <2> QED BY <2>1
<1>3. CASE ~(n > Len(rows))
  <2>1. n \in DOMAIN rows
    BY <1>1, <1>3
  <2>2. /\ \A i \in DOMAIN r : From(n, i) \in DOMAIN rows \ {n} /\ r[i] = rows[From(n, i)]
        /\ \A k \in DOMAIN rows : k # n /\ rows[k] # Blank =>
             To(n, k) \in DOMAIN r /\ r[To(n, k)] = rows[k]
        /\ r \in Seq(S)
    BY <2>1, Deleted
  <2> HIDE DEF r
  <2>3. Blank.x # g
    BY DEF Blank, Entry
  <2>4. In(r, g) => In(rows, g)
    BY <2>2 DEF In
  <2>5. \A i, j \in DOMAIN r : From(n, i) = From(n, j) => i = j
    BY <2>2 DEF From
  <2>6. One(rows, g) => One(r, g)
    BY <2>2, <2>5 DEF One
  <2>7. \A k \in DOMAIN rows : k # n /\ rows[k].x = g => To(n, k) \in DOMAIN r /\ r[To(n, k)].x = g
    BY <2>2, <2>3
  <2>8. rows[n].x # g => (In(rows, g) => In(r, g))
    BY <2>7 DEF In
  <2>9. \A k, l \in DOMAIN rows : k # n /\ l # n /\ To(n, k) = To(n, l) => k = l
    BY <1>1, <2>1 DEF To
  <2>10. rows[n].x # g => (One(r, g) => One(rows, g))
    BY <2>7, <2>9 DEF One
  <2>11. rows[n].x = g /\ One(rows, g) => ~In(r, g)
    BY <2>1, <2>2 DEF In, One
  <2> QED BY <2>1, <2>4, <2>6, <2>8, <2>10, <2>11 DEF r
<1> QED BY <1>2, <1>3

(* Writing row n in place.                                                 *)
LEMMA RowSet ==
  ASSUME NEW S, NEW rows \in Seq(S), Blank \in S, NEW n \in DOMAIN rows, NEW v \in S,
         rows[n].x = v.x, NEW g
  PROVE  LET r == updateRow(rows, n, v, Blank) IN
         (In(r, g) <=> In(rows, g)) /\ (One(r, g) <=> One(rows, g))
<1> DEFINE r == updateRow(rows, n, v, Blank)
<1>1. n \in Nat \ {0}
  OBVIOUS
<1>2. /\ r[n] = v /\ DOMAIN r = DOMAIN rows
      /\ \A k \in DOMAIN rows : k # n => r[k] = rows[k]
  <2> DEFINE row == v
             blank == Blank
             p == n
             rr == rows
  <2>0. rr \in Seq(S) /\ row \in S /\ blank \in S /\ p \in Nat \ {0}
    BY <1>1
  <2> HIDE DEF row, blank, p, rr
  <2> DEFINE x == updateRow(rr, p, row, blank)
  <2>1. x[p] = row
    BY <2>0, Updated
  <2>2. p \in DOMAIN rr => DOMAIN x = DOMAIN rr
    BY <2>0, Updated
  <2>3. ASSUME NEW k \in DOMAIN rr, k # p
        PROVE  x[k] = rr[k]
    <3>1. /\ Len(rr) \in Nat /\ k \in 1..Len(rr)
          /\ k \in 1..(IF p > Len(rr) THEN p ELSE Len(rr)) /\ k <= Len(rr)
      BY <2>0
    <3> QED BY <2>3, <3>1 DEF updateRow
  <2> QED BY <2>1, <2>2, <2>3 DEF row, blank, p, rr
<1> HIDE DEF r
<1>3. \A k \in DOMAIN rows : r[k].x = rows[k].x
  BY <1>2
<1>4. (In(r, g) <=> In(rows, g)) /\ (One(r, g) <=> One(rows, g))
  BY <1>2, <1>3 DEF In, One
<1> QED BY <1>4 DEF r

(* By key.                                                                 *)
PerKey(rows, tab) ==
  \A m, n \in DOMAIN rows :
    /\ rows[m].x # None
    /\ Key(tab, rows[m].x) = Key(tab, rows[n].x) => m = n

LEMMA KeyGone ==
  ASSUME NEW S, NEW d, NEW tab, d[tab] \in Seq(S), PerKey(d[tab], tab), NEW x
  PROVE  LET r == Without(d, tab, x) IN
         /\ r \in Seq(S) /\ PerKey(r, tab)
         /\ \A n \in DOMAIN r : Key(tab, r[n].x) # Key(tab, x)
         /\ \A g : In(r, g) <=> In(d[tab], g) /\ Key(tab, g) # Key(tab, x)
<1> DEFINE rows == d[tab]
           same == {n \in DOMAIN rows : Key(tab, rows[n].x) = Key(tab, x)}
           r == Without(d, tab, x)
<1>1. CASE same = {}
  <2>1. r = rows
    BY <1>1 DEF Without
  <2>2. \A n \in DOMAIN rows : Key(tab, rows[n].x) # Key(tab, x)
    BY <1>1
  <2> QED BY <2>1, <2>2 DEF In
<1>2. CASE same # {}
  <2> DEFINE p == CHOOSE n \in same : TRUE
  <2>1. p \in same
    BY <1>2
  <2>2. r = RemoveAt(rows, p)
    BY <1>2 DEF Without
  <2> HIDE DEF p
  <2>3. p \in DOMAIN rows /\ Key(tab, rows[p].x) = Key(tab, x)
    BY <2>1
  <2>4. /\ r \in Seq(S) /\ Len(r) = Len(rows) - 1
        /\ \A i \in 1..Len(rows) - 1 : r[i] = rows[From(p, i)]
    BY <2>2, <2>3, Removed
  <2> HIDE DEF r
  <2>5. Len(rows) \in Nat /\ DOMAIN rows = 1..Len(rows) /\ DOMAIN r = 1..Len(rows) - 1
    BY <2>4
  <2>6. /\ \A i \in DOMAIN r : From(p, i) \in DOMAIN rows /\ From(p, i) # p /\ r[i] = rows[From(p, i)]
        /\ \A i, j \in DOMAIN r : From(p, i) = From(p, j) => i = j
        /\ \A k \in DOMAIN rows : k # p => To(p, k) \in DOMAIN r /\ From(p, To(p, k)) = k
    BY <2>3, <2>4, <2>5, SMTT(40) DEF From, To
  <2> HIDE DEF rows
  <2>7. \A i \in DOMAIN r : Key(tab, r[i].x) # Key(tab, x)
    BY <2>3, <2>6 DEF PerKey, rows
  <2>8. PerKey(r, tab)
    BY <2>6 DEF PerKey, rows
  <2>9. ASSUME NEW g
        PROVE  In(r, g) <=> In(rows, g) /\ Key(tab, g) # Key(tab, x)
    <3>1. In(r, g) => In(rows, g) /\ Key(tab, g) # Key(tab, x)
      BY <2>6, <2>7 DEF In
    <3>2. ASSUME NEW k \in DOMAIN rows, rows[k].x = g, Key(tab, g) # Key(tab, x)
          PROVE  In(r, g)
      BY <2>3, <2>6, <3>2 DEF In
    <3> QED BY <3>1, <3>2 DEF In
  <2> QED BY <2>4, <2>7, <2>8, <2>9 DEF r, rows
<1> QED BY <1>1, <1>2

LEMMA KeyPut ==
  ASSUME NEW S, NEW d, NEW tab, d[tab] \in Seq(S), PerKey(d[tab], tab), NEW v \in S, v.x # None
  PROVE  LET r == Append(Without(d, tab, v.x), v) IN
         /\ PerKey(r, tab)
         /\ \A g : In(r, g) <=> g = v.x \/ (In(d[tab], g) /\ Key(tab, g) # Key(tab, v.x))
<1> DEFINE w == Without(d, tab, v.x)
<1>1. /\ w \in Seq(S) /\ PerKey(w, tab)
      /\ \A n \in DOMAIN w : Key(tab, w[n].x) # Key(tab, v.x)
      /\ \A g : In(w, g) <=> In(d[tab], g) /\ Key(tab, g) # Key(tab, v.x)
  BY KeyGone
<1> HIDE DEF w
<1> DEFINE r == Append(w, v)
<1>2. /\ Len(w) \in Nat /\ DOMAIN w = 1..Len(w) /\ DOMAIN r = 1..Len(w) + 1
      /\ r[Len(w) + 1] = v /\ \A n \in 1..Len(w) : r[n] = w[n]
  BY <1>1
<1>3. \A n \in DOMAIN r : n = Len(w) + 1 \/ n \in DOMAIN w
  BY <1>2
<1>4. \A g : In(r, g) <=> In(w, g) \/ v.x = g
  BY <1>1, Appended
<1> HIDE DEF r
<1>5. PerKey(r, tab)
  BY <1>1, <1>2, <1>3 DEF PerKey
<1> QED BY <1>1, <1>4, <1>5 DEF r, w

LEMMA KeyOne ==
  ASSUME NEW rows, NEW tab, PerKey(rows, tab), NEW g
  PROVE  One(rows, g)
BY DEF PerKey, One

-----------------------------------------------------------------------------
(* What a call has still to write to the tables.                           *)

(* A hook and its claim go in pairs: a command opens the gap between the   *)
(* two, and the next but for the listing of the hook shuts it.             *)
Opens(cmd, h) ==
  \/ cmd.op = "del" /\ cmd.x = "hooks" /\ cmd.v.x = h
  \/ cmd.op = "put" /\ cmd.x = "tokens" /\ cmd.v.x = h
Shuts(cmd, h) ==
  \/ cmd.op = "unclaim" /\ cmd.x = h
  \/ cmd.op = "del" /\ cmd.x = "tokens" /\ cmd.v.x = h
  \/ cmd.op = "put" /\ cmd.x = "hooks" /\ cmd.v.x = h

Unlists(cmds, i, j) == \A k \in 1..Len(cmds) : i < k /\ k < j => cmds[k].op = "unlist"
Open(cmds, h) == \E j \in 1..Len(cmds) : Shuts(cmds[j], h) /\ Unlists(cmds, 0, j)

Paired(cmds) ==
  \A h \in Hook : \A i \in 1..Len(cmds) :
    /\ Opens(cmds[i], h) =>
         \E j \in 1..Len(cmds) : i < j /\ Shuts(cmds[j], h) /\ Unlists(cmds, i, j)
    /\ Shuts(cmds[i], h) =>
         \/ Unlists(cmds, 0, i)
         \/ \E j \in 1..Len(cmds) : j < i /\ Opens(cmds[j], h) /\ Unlists(cmds, j, i)

(* A command is about one run, and only a wait is written in place.        *)
Fits(cmd, r) ==
  /\ cmd.op \in {"put", "del", "set"} => cmd.v.x # None /\ RunOf(cmd.v.x) = r
  /\ cmd.op \in {"list", "unlist", "claim", "dispose", "clean", "unclaim"} => RunOf(cmd.x) = r
  /\ cmd.op \in {"hooks", "waits", "run"} => cmd.x = r
  /\ cmd.op = "set" => cmd.x = "waits"
  /\ cmd.op = "unclaim" => layout = "rows"

(* What adds to the tables comes alone; the end of a run is followed by    *)
(* what empties them, and a hook by its listing.                           *)
Adding == {"put", "set", "claim", "list"}
Proper(cmds) ==
  \A i \in 1..Len(cmds) :
    /\ cmds[i].op \in Adding => \A j \in 1..Len(cmds) : cmds[j].op \in Adding \union {"append"}
    /\ cmds[i].op = "run" /\ cmds[i].v \in RunTerminal =>
         \A op \in {"hooks", "waits"} : \E j \in 1..Len(cmds) : i < j /\ cmds[j].op = op
    /\ layout = "keys" /\ cmds[i].op = "put" /\ cmds[i].x = "hooks" =>
         \E j \in 1..Len(cmds) : i < j /\ cmds[j].op = "list" /\ cmds[j].x = cmds[i].v.x

Apt(cmds, r) ==
  /\ cmds \in Seq(Command) /\ Paired(cmds) /\ Proper(cmds)
  /\ \A i \in 1..Len(cmds) : Fits(cmds[i], r)

LEMMA Kinds ==
  \A cmd, h, g :
    /\ Opens(cmd, h) => ~Shuts(cmd, g) /\ cmd.op # "unlist" /\ cmd.op \notin Reading
    /\ Shuts(cmd, h) => cmd.op # "unlist"
    /\ Opens(cmd, h) /\ Opens(cmd, g) => h = g
    /\ Shuts(cmd, h) /\ Shuts(cmd, g) => h = g
    /\ Shuts(cmd, h) /\ cmd.op \in Reading => cmd.op = "unclaim"
BY DEF Opens, Shuts, Reading

(* One hook at a time is in the gap.                                       *)
LEMMA OneOpen ==
  ASSUME NEW cmds \in Seq(Command), NEW h, NEW g, Open(cmds, h), Open(cmds, g)
  PROVE  h = g
<1>1. PICK i \in 1..Len(cmds) : Shuts(cmds[i], h) /\ Unlists(cmds, 0, i)
  BY DEF Open
<1>2. PICK j \in 1..Len(cmds) : Shuts(cmds[j], g) /\ Unlists(cmds, 0, j)
  BY DEF Open
<1>3. Len(cmds) \in Nat
  OBVIOUS
<1>4. ~(i < j) /\ ~(j < i)
  <2>1. cmds[i].op # "unlist" /\ cmds[j].op # "unlist"
    BY <1>1, <1>2, Kinds
  <2>2. 0 < i /\ 0 < j
    BY <1>3
  <2> QED BY <1>1, <1>2, <2>1, <2>2 DEF Unlists
<1>5. i = j
  BY <1>3, <1>4
<1> QED BY <1>1, <1>2, <1>5, Kinds

LEMMA OpenHead ==
  ASSUME NEW cmds \in Seq(Command), cmds # <<>>, NEW h
  PROVE  /\ Shuts(Head(cmds), h) => Open(cmds, h)
         /\ Open(cmds, h) /\ Head(cmds).op # "unlist" => Shuts(Head(cmds), h)
<1>1. Len(cmds) \in Nat \ {0} /\ Head(cmds) = cmds[1] /\ 1 \in 1..Len(cmds)
  BY TailAt
<1>2. Unlists(cmds, 0, 1)
  BY <1>1 DEF Unlists
<1>3. ASSUME Open(cmds, h), Head(cmds).op # "unlist"
      PROVE  Shuts(Head(cmds), h)
  <2>1. PICK j \in 1..Len(cmds) : Shuts(cmds[j], h) /\ Unlists(cmds, 0, j)
    BY <1>3 DEF Open
  <2>2. ~(1 < j)
    BY <1>1, <1>3, <2>1 DEF Unlists
  <2>3. j = 1
    BY <1>1, <2>2
  <2> QED BY <1>1, <2>1, <2>3
<1> QED BY <1>1, <1>2, <1>3 DEF Open

(* What the first command does to the gap.                                 *)
LEMMA OpenTail ==
  ASSUME NEW cmds \in Seq(Command), cmds # <<>>, Paired(cmds), NEW h \in Hook
  PROVE  Open(Tail(cmds), h) <=>
           Opens(Head(cmds), h) \/ (Open(cmds, h) /\ ~Shuts(Head(cmds), h))
<1> DEFINE t == Tail(cmds)
<1>1. /\ t \in Seq(Command) /\ Len(t) = Len(cmds) - 1 /\ Len(cmds) \in Nat \ {0}
      /\ \A i \in 1..Len(t) : t[i] = cmds[i + 1]
      /\ Head(cmds) = cmds[1]
  BY TailAt
<1> HIDE DEF t
<1>2. /\ 1 \in 1..Len(cmds)
      /\ \A i \in 1..Len(t) : i + 1 \in 1..Len(cmds)
      /\ \A i \in 1..Len(cmds) : i # 1 => i - 1 \in 1..Len(t) /\ t[i - 1] = cmds[i]
  BY <1>1
<1>3. ASSUME Open(t, h)
      PROVE  Opens(cmds[1], h) \/ (Open(cmds, h) /\ ~Shuts(cmds[1], h))
  <2>1. PICK j \in 1..Len(t) : Shuts(t[j], h) /\ Unlists(t, 0, j)
    BY <1>3 DEF Open
  <2>2. Shuts(cmds[j + 1], h) /\ j + 1 \in 1..Len(cmds)
    BY <1>1, <1>2, <2>1
  <2>3. \A k \in 1..Len(cmds) : k # 1 /\ k < j + 1 => cmds[k].op = "unlist"
    <3> SUFFICES ASSUME NEW k \in 1..Len(cmds), k # 1, k < j + 1
                 PROVE  cmds[k].op = "unlist"
      OBVIOUS
    <3>1. k - 1 \in 1..Len(t) /\ t[k - 1] = cmds[k] /\ 0 < k - 1 /\ k - 1 < j
      BY <1>1, <1>2
    <3> QED BY <2>1, <3>1 DEF Unlists
  <2>4. CASE Unlists(cmds, 0, j + 1)
    <3>1. cmds[1].op = "unlist"
      <4>1. 0 < 1 /\ 1 < j + 1
        BY <1>1, <2>1
      <4> QED BY <1>2, <2>4, <4>1 DEF Unlists
    <3> QED BY <2>2, <2>4, <3>1, Kinds DEF Open
  <2>5. CASE \E i \in 1..Len(cmds) : i < j + 1 /\ Opens(cmds[i], h) /\ Unlists(cmds, i, j + 1)
    <3>1. PICK i \in 1..Len(cmds) : i < j + 1 /\ Opens(cmds[i], h)
      BY <2>5
    <3>2. i = 1
      BY <2>3, <3>1, Kinds
    <3> QED BY <3>1, <3>2
  <2> QED BY <2>2, <2>4, <2>5 DEF Paired
<1>4. ASSUME Opens(cmds[1], h)
      PROVE  Open(t, h)
  <2>1. PICK j \in 1..Len(cmds) : 1 < j /\ Shuts(cmds[j], h) /\ Unlists(cmds, 1, j)
    BY <1>2, <1>4 DEF Paired
  <2>2. j - 1 \in 1..Len(t) /\ Shuts(t[j - 1], h)
    BY <1>2, <2>1
  <2>3. Unlists(t, 0, j - 1)
    <3> SUFFICES ASSUME NEW k \in 1..Len(t), k < j - 1
                 PROVE  t[k].op = "unlist"
      BY DEF Unlists
    <3>1. k + 1 \in 1..Len(cmds) /\ 1 < k + 1 /\ k + 1 < j /\ t[k] = cmds[k + 1]
      BY <1>1, <1>2
    <3> QED BY <2>1, <3>1 DEF Unlists
  <2> QED BY <2>2, <2>3 DEF Open
<1>5. ASSUME Open(cmds, h), ~Shuts(cmds[1], h)
      PROVE  Open(t, h)
  <2>1. PICK j \in 1..Len(cmds) : Shuts(cmds[j], h) /\ Unlists(cmds, 0, j)
    BY <1>5 DEF Open
  <2>2. j # 1
    BY <1>5, <2>1
  <2>3. j - 1 \in 1..Len(t) /\ Shuts(t[j - 1], h)
    BY <1>2, <2>1, <2>2
  <2>4. Unlists(t, 0, j - 1)
    <3> SUFFICES ASSUME NEW k \in 1..Len(t), k < j - 1
                 PROVE  t[k].op = "unlist"
      BY DEF Unlists
    <3>1. k + 1 \in 1..Len(cmds) /\ 0 < k + 1 /\ k + 1 < j /\ t[k] = cmds[k + 1]
      BY <1>1, <1>2
    <3> QED BY <2>1, <3>1 DEF Unlists
  <2> QED BY <2>3, <2>4 DEF Open
<1> QED BY <1>1, <1>3, <1>4, <1>5 DEF t

LEMMA AptTail ==
  ASSUME NEW r, NEW cmds, Apt(cmds, r), cmds # <<>>
  PROVE  Apt(Tail(cmds), r) /\ Head(cmds) \in Command /\ Fits(Head(cmds), r)
<1> DEFINE t == Tail(cmds)
<1>1. /\ t \in Seq(Command) /\ Len(t) = Len(cmds) - 1 /\ Len(cmds) \in Nat \ {0}
      /\ \A i \in 1..Len(t) : t[i] = cmds[i + 1]
      /\ Head(cmds) = cmds[1] /\ Head(cmds) \in Command
  BY TailAt DEF Apt
<1> HIDE DEF t
<1>2. /\ 1 \in 1..Len(cmds)
      /\ \A i \in 1..Len(t) : i + 1 \in 1..Len(cmds)
      /\ \A i \in 1..Len(cmds) : i # 1 => i - 1 \in 1..Len(t) /\ t[i - 1] = cmds[i]
  BY <1>1
<1>3. ASSUME NEW i \in Nat, NEW j \in Nat, Unlists(cmds, i + 1, j + 1)
      PROVE  Unlists(t, i, j)
  <2> SUFFICES ASSUME NEW k \in 1..Len(t), i < k, k < j
               PROVE  t[k].op = "unlist"
    BY DEF Unlists
  <2>1. k + 1 \in 1..Len(cmds) /\ i + 1 < k + 1 /\ k + 1 < j + 1 /\ t[k] = cmds[k + 1]
    BY <1>1, <1>2
  <2> QED BY <1>3, <2>1 DEF Unlists
<1>4. Paired(t)
  <2> SUFFICES ASSUME NEW h \in Hook, NEW i \in 1..Len(t)
               PROVE  /\ Opens(t[i], h) =>
                           \E j \in 1..Len(t) : i < j /\ Shuts(t[j], h) /\ Unlists(t, i, j)
                      /\ Shuts(t[i], h) =>
                           \/ Unlists(t, 0, i)
                           \/ \E j \in 1..Len(t) : j < i /\ Opens(t[j], h) /\ Unlists(t, j, i)
    BY DEF Paired
  <2>0. i \in Nat /\ i + 1 \in 1..Len(cmds) /\ t[i] = cmds[i + 1] /\ Paired(cmds)
    BY <1>1, <1>2 DEF Apt
  <2>1. ASSUME Opens(t[i], h)
        PROVE  \E j \in 1..Len(t) : i < j /\ Shuts(t[j], h) /\ Unlists(t, i, j)
    <3>1. PICK j \in 1..Len(cmds) : i + 1 < j /\ Shuts(cmds[j], h) /\ Unlists(cmds, i + 1, j)
      BY <2>0, <2>1 DEF Paired
    <3>2. j - 1 \in 1..Len(t) /\ t[j - 1] = cmds[j] /\ i < j - 1 /\ j = (j - 1) + 1 /\ j - 1 \in Nat
      BY <1>2, <2>0, <3>1
    <3>3. Unlists(t, i, j - 1)
      BY <1>3, <2>0, <3>1, <3>2
    <3> QED BY <3>1, <3>2, <3>3
  <2>2. ASSUME Shuts(t[i], h)
        PROVE  \/ Unlists(t, 0, i)
               \/ \E j \in 1..Len(t) : j < i /\ Opens(t[j], h) /\ Unlists(t, j, i)
    <3>1. CASE Unlists(cmds, 0, i + 1)
      <4>1. Unlists(cmds, 0 + 1, i + 1)
        BY <3>1 DEF Unlists
      <4> QED BY <1>3, <2>0, <4>1
    <3>2. CASE \E j \in 1..Len(cmds) : j < i + 1 /\ Opens(cmds[j], h) /\ Unlists(cmds, j, i + 1)
      <4>1. PICK j \in 1..Len(cmds) : j < i + 1 /\ Opens(cmds[j], h) /\ Unlists(cmds, j, i + 1)
        BY <3>2
      <4>2. CASE j = 1
        <5>1. Unlists(t, 0, i)
          BY <1>3, <2>0, <4>1, <4>2
        <5> QED BY <5>1
      <4>3. CASE j # 1
        <5>1. j - 1 \in 1..Len(t) /\ t[j - 1] = cmds[j] /\ j - 1 < i /\ j = (j - 1) + 1 /\ j - 1 \in Nat
          BY <1>2, <2>0, <4>1, <4>3
        <5>2. Unlists(t, j - 1, i)
          BY <1>3, <2>0, <4>1, <5>1
        <5> QED BY <4>1, <5>1, <5>2
      <4> QED BY <4>2, <4>3
    <3> QED BY <2>0, <2>2, <3>1, <3>2 DEF Paired
  <2> QED BY <2>1, <2>2
<1>5. Proper(t)
  <2> SUFFICES ASSUME NEW i \in 1..Len(t)
               PROVE  /\ t[i].op \in Adding => \A j \in 1..Len(t) : t[j].op \in Adding \union {"append"}
                      /\ t[i].op = "run" /\ t[i].v \in RunTerminal =>
                           \A op \in {"hooks", "waits"} : \E j \in 1..Len(t) : i < j /\ t[j].op = op
                      /\ layout = "keys" /\ t[i].op = "put" /\ t[i].x = "hooks" =>
                           \E j \in 1..Len(t) : i < j /\ t[j].op = "list" /\ t[j].x = t[i].v.x
    BY DEF Proper
  <2>1. i + 1 \in 1..Len(cmds) /\ t[i] = cmds[i + 1] /\ Proper(cmds)
    BY <1>1, <1>2 DEF Apt
  <2>2. t[i].op \in Adding => \A j \in 1..Len(t) : t[j].op \in Adding \union {"append"}
    BY <1>1, <1>2, <2>1 DEF Proper
  <2>3. \A j \in 1..Len(cmds) : i + 1 < j => j - 1 \in 1..Len(t) /\ i < j - 1 /\ t[j - 1] = cmds[j]
    BY <1>2
  <2>4. ASSUME t[i].op = "run", t[i].v \in RunTerminal, NEW op \in {"hooks", "waits"}
        PROVE  \E j \in 1..Len(t) : i < j /\ t[j].op = op
    <3>1. PICK j \in 1..Len(cmds) : i + 1 < j /\ cmds[j].op = op
      BY <2>1, <2>4 DEF Proper
    <3>2. j - 1 \in 1..Len(t) /\ i < j - 1 /\ t[j - 1].op = op
      BY <2>3, <3>1
    <3> QED BY <3>2
  <2>5. ASSUME layout = "keys", t[i].op = "put", t[i].x = "hooks"
        PROVE  \E j \in 1..Len(t) : i < j /\ t[j].op = "list" /\ t[j].x = t[i].v.x
    <3>1. PICK j \in 1..Len(cmds) : /\ i + 1 < j /\ cmds[j].op = "list"
                                    /\ cmds[j].x = t[i].v.x
      BY <2>1, <2>5 DEF Proper
    <3>2. j - 1 \in 1..Len(t) /\ i < j - 1 /\ t[j - 1].op = "list" /\ t[j - 1].x = t[i].v.x
      BY <2>3, <3>1
    <3> QED BY <3>2
  <2> QED BY <2>2, <2>4, <2>5
<1>6. \A i \in 1..Len(t) : Fits(t[i], r)
  BY <1>1, <1>2 DEF Apt
<1>7. Fits(Head(cmds), r)
  BY <1>1, <1>2 DEF Apt
<1> QED BY <1>1, <1>4, <1>5, <1>6, <1>7 DEF Apt, t

(* What a read comes to, in the place of the read.                         *)
LEMMA AptJoin ==
  ASSUME NEW r, NEW cmds, Apt(cmds, r), cmds # <<>>, Head(cmds).op \in Reading,
         NEW q, Apt(q, r),
         Head(cmds).op = "claim" => \A i \in 1..Len(q) : q[i].op \in Adding \union {"append"},
         Head(cmds).op # "claim" => \A i \in 1..Len(q) : q[i].op \notin Adding
  PROVE  /\ Apt(q \o Tail(cmds), r)
         /\ \A h \in Hook : Open(q \o Tail(cmds), h) <=> Open(q, h)
<1> DEFINE t == Tail(cmds)
           s == q \o t
           n == Len(q)
<1>1. /\ cmds \in Seq(Command) /\ t \in Seq(Command) /\ Len(t) = Len(cmds) - 1
      /\ Len(cmds) \in Nat \ {0}
      /\ \A i \in 1..Len(t) : t[i] = cmds[i + 1]
      /\ Head(cmds) = cmds[1]
  BY TailAt DEF Apt
<1>2. /\ s \in Seq(Command) /\ Len(s) = n + Len(t) /\ n \in Nat /\ Len(t) \in Nat
      /\ \A i \in 1..n + Len(t) : s[i] = IF i <= n THEN q[i] ELSE t[i - n]
  BY <1>1 DEF Apt
<1> HIDE DEF s, t, n
<1>3. \A i \in 1..n : i \in 1..Len(s) /\ s[i] = q[i]
  BY <1>2
<1>4. \A i \in 1..Len(cmds) : i # 1 => n - 1 + i \in 1..Len(s) /\ s[n - 1 + i] = cmds[i]
  <2> SUFFICES ASSUME NEW i \in 1..Len(cmds), i # 1
               PROVE  n - 1 + i \in 1..Len(s) /\ s[n - 1 + i] = cmds[i]
    OBVIOUS
  <2>1. i - 1 \in 1..Len(t) /\ n - 1 + i \in 1..n + Len(t) /\ ~(n - 1 + i <= n)
        /\ (n - 1 + i) - n = i - 1 /\ (i - 1) + 1 = i
    BY <1>1, <1>2
  <2> QED BY <1>1, <1>2, <2>1
<1>5. \A i \in 1..Len(s) : \/ i \in 1..n
                           \/ \E k \in 1..Len(cmds) : k # 1 /\ i = n - 1 + k
  <2> SUFFICES ASSUME NEW i \in 1..Len(s), i \notin 1..n
               PROVE  i - n + 1 \in 1..Len(cmds) /\ i - n + 1 # 1 /\ i = n - 1 + (i - n + 1)
    OBVIOUS
  <2> QED BY <1>1, <1>2
<1>6. ASSUME NEW i \in Nat, NEW j \in 1..n, Unlists(q, i, j)
      PROVE  Unlists(s, i, j)
  <2> SUFFICES ASSUME NEW k \in 1..Len(s), i < k, k < j
               PROVE  s[k].op = "unlist"
    BY DEF Unlists
  <2>1. k \in 1..n
    BY <1>2
  <2> QED BY <1>3, <1>6, <2>1 DEF Unlists, n
<1>7. ASSUME NEW i \in 1..Len(cmds), NEW j \in 1..Len(cmds), i # 1, j # 1, Unlists(cmds, i, j)
      PROVE  Unlists(s, n - 1 + i, n - 1 + j)
  <2> SUFFICES ASSUME NEW k \in 1..Len(s), n - 1 + i < k, k < n - 1 + j
               PROVE  s[k].op = "unlist"
    BY DEF Unlists
  <2>1. k \notin 1..n
    BY <1>2, <1>7
  <2>2. PICK m \in 1..Len(cmds) : m # 1 /\ k = n - 1 + m
    BY <1>5, <2>1
  <2>3. i < m /\ m < j
    BY <1>2, <2>2
  <2>4. cmds[m].op = "unlist"
    BY <1>7, <2>3 DEF Unlists
  <2> QED BY <1>4, <2>2, <2>4
<1>8. \A g : ~Opens(cmds[1], g) /\ cmds[1].op # "unlist"
  BY <1>1, Kinds DEF Reading
<1>9. ASSUME NEW k \in 1..Len(cmds), k # 1, NEW h \in Hook, Shuts(cmds[k], h)
      PROVE  \E j \in 1..Len(cmds) : j # 1 /\ j < k /\ Opens(cmds[j], h) /\ Unlists(cmds, j, k)
  <2>1. ~Unlists(cmds, 0, k)
    <3>1. 1 \in 1..Len(cmds) /\ 0 < 1 /\ 1 < k
      BY <1>1, <1>9
    <3> QED BY <1>8, <3>1 DEF Unlists
  <2>2. PICK j \in 1..Len(cmds) : j < k /\ Opens(cmds[j], h) /\ Unlists(cmds, j, k)
    BY <1>9, <2>1 DEF Apt, Paired
  <2> QED BY <1>8, <2>2
<1>10. Paired(s)
  <2> SUFFICES ASSUME NEW h \in Hook, NEW i \in 1..Len(s)
               PROVE  /\ Opens(s[i], h) =>
                           \E j \in 1..Len(s) : i < j /\ Shuts(s[j], h) /\ Unlists(s, i, j)
                      /\ Shuts(s[i], h) =>
                           \/ Unlists(s, 0, i)
                           \/ \E j \in 1..Len(s) : j < i /\ Opens(s[j], h) /\ Unlists(s, j, i)
    BY DEF Paired
  <2>1. CASE i \in 1..n
    <3>1. i \in 1..Len(q) /\ s[i] = q[i] /\ Paired(q) /\ i \in Nat
      BY <1>3, <2>1 DEF Apt, n
    <3>2. ASSUME Opens(s[i], h)
          PROVE  \E j \in 1..Len(s) : i < j /\ Shuts(s[j], h) /\ Unlists(s, i, j)
      <4>1. PICK j \in 1..n : i < j /\ Shuts(q[j], h) /\ Unlists(q, i, j)
        BY <3>1, <3>2 DEF Paired, n
      <4> QED BY <1>3, <1>6, <3>1, <4>1
    <3>3. ASSUME Shuts(s[i], h)
          PROVE  \/ Unlists(s, 0, i)
                 \/ \E j \in 1..Len(s) : j < i /\ Opens(s[j], h) /\ Unlists(s, j, i)
      <4>1. CASE Unlists(q, 0, i)
        BY <1>6, <2>1, <4>1
      <4>2. CASE \E j \in 1..Len(q) : j < i /\ Opens(q[j], h) /\ Unlists(q, j, i)
        <5>1. PICK j \in 1..n : j < i /\ Opens(q[j], h) /\ Unlists(q, j, i)
          BY <4>2 DEF n
        <5>2. j \in Nat
          OBVIOUS
        <5> QED BY <1>3, <1>6, <2>1, <5>1, <5>2
      <4> QED BY <3>1, <3>3, <4>1, <4>2 DEF Paired
    <3> QED BY <3>2, <3>3
  <2>2. CASE \E k \in 1..Len(cmds) : k # 1 /\ i = n - 1 + k
    <3>1. PICK k \in 1..Len(cmds) : k # 1 /\ i = n - 1 + k
      BY <2>2
    <3>2. s[i] = cmds[k] /\ Paired(cmds)
      BY <1>4, <3>1 DEF Apt
    <3>3. ASSUME Opens(s[i], h)
          PROVE  \E j \in 1..Len(s) : i < j /\ Shuts(s[j], h) /\ Unlists(s, i, j)
      <4>1. PICK j \in 1..Len(cmds) : k < j /\ Shuts(cmds[j], h) /\ Unlists(cmds, k, j)
        BY <3>2, <3>3 DEF Paired
      <4>2. j # 1 /\ i < n - 1 + j
        BY <1>2, <3>1, <4>1
      <4> QED BY <1>4, <1>7, <3>1, <4>1, <4>2
    <3>4. ASSUME Shuts(s[i], h)
          PROVE  \E j \in 1..Len(s) : j < i /\ Opens(s[j], h) /\ Unlists(s, j, i)
      <4>1. PICK j \in 1..Len(cmds) : j # 1 /\ j < k /\ Opens(cmds[j], h) /\ Unlists(cmds, j, k)
        BY <1>9, <3>1, <3>2, <3>4
      <4>2. n - 1 + j < i
        BY <1>2, <3>1, <4>1
      <4> QED BY <1>4, <1>7, <3>1, <4>1, <4>2
    <3> QED BY <3>3, <3>4
  <2> QED BY <1>5, <2>1, <2>2
<1>11. Proper(s)
  <2>0. Proper(q) /\ Proper(cmds) /\ 1 \in 1..Len(cmds)
    BY <1>1 DEF Apt
  <2>1. ASSUME NEW i \in 1..Len(s), s[i].op \in Adding
        PROVE  \A j \in 1..Len(s) : s[j].op \in Adding \union {"append"}
    <3>1. Head(cmds).op = "claim" => "claim" \in Adding
      BY DEF Adding
    <3>2. CASE Head(cmds).op = "claim"
      <4>1. \A k \in 1..Len(cmds) : cmds[k].op \in Adding \union {"append"}
        BY <1>1, <2>0, <3>1, <3>2 DEF Proper
      <4>2. \A k \in 1..n : q[k].op \in Adding \union {"append"}
        BY <3>2 DEF n
      <4> QED BY <1>3, <1>4, <1>5, <4>1, <4>2
    <3>3. CASE Head(cmds).op # "claim"
      <4>1. cmds[1].op \notin Adding \union {"append"}
        BY <1>1, <3>3 DEF Reading, Adding
      <4>2. \A k \in 1..Len(cmds) : cmds[k].op \notin Adding
        BY <2>0, <4>1 DEF Proper
      <4>3. \A k \in 1..n : q[k].op \notin Adding
        BY <3>3 DEF n
      <4> QED BY <1>3, <1>4, <1>5, <2>1, <4>2, <4>3, SMTT(40)
    <3> QED BY <3>2, <3>3
  <2>2. ASSUME NEW i \in 1..Len(s), s[i].op = "run", s[i].v \in RunTerminal, NEW op \in {"hooks", "waits"}
        PROVE  \E j \in 1..Len(s) : i < j /\ s[j].op = op
    <3>1. CASE i \in 1..n
      <4>1. PICK j \in 1..n : i < j /\ q[j].op = op
        BY <1>3, <2>0, <2>2, <3>1 DEF Proper, n
      <4> QED BY <1>3, <4>1
    <3>2. CASE \E k \in 1..Len(cmds) : k # 1 /\ i = n - 1 + k
      <4>1. PICK k \in 1..Len(cmds) : k # 1 /\ i = n - 1 + k
        BY <3>2
      <4>2. PICK j \in 1..Len(cmds) : k < j /\ cmds[j].op = op
        BY <1>4, <2>0, <2>2, <4>1, SMTT(40) DEF Proper
      <4>3. j # 1 /\ i < n - 1 + j
        BY <1>2, <4>1, <4>2
      <4> QED BY <1>4, <4>2, <4>3
    <3> QED BY <1>5, <3>1, <3>2
  <2>3. ASSUME NEW i \in 1..Len(s), layout = "keys", s[i].op = "put", s[i].x = "hooks"
        PROVE  \E j \in 1..Len(s) : i < j /\ s[j].op = "list" /\ s[j].x = s[i].v.x
    <3>1. CASE i \in 1..n
      <4>1. PICK j \in 1..n : i < j /\ q[j].op = "list" /\ q[j].x = s[i].v.x
        BY <1>3, <2>0, <2>3, <3>1 DEF Proper, n
      <4> QED BY <1>3, <4>1
    <3>2. CASE \E k \in 1..Len(cmds) : k # 1 /\ i = n - 1 + k
      <4>1. PICK k \in 1..Len(cmds) : k # 1 /\ i = n - 1 + k
        BY <3>2
      <4>2. PICK j \in 1..Len(cmds) : k < j /\ cmds[j].op = "list" /\ cmds[j].x = s[i].v.x
        BY <1>4, <2>0, <2>3, <4>1 DEF Proper
      <4>3. j # 1 /\ i < n - 1 + j
        BY <1>2, <4>1, <4>2
      <4> QED BY <1>4, <4>2, <4>3
    <3> QED BY <1>5, <3>1, <3>2
  <2> QED BY <2>1, <2>2, <2>3 DEF Proper
<1>12. \A i \in 1..Len(s) : Fits(s[i], r)
  <2>1. /\ \A i \in 1..n : Fits(q[i], r)
        /\ \A i \in 1..Len(cmds) : Fits(cmds[i], r)
    BY DEF Apt, n
  <2> QED BY <1>3, <1>4, <1>5, <2>1
<1>13. ASSUME NEW h \in Hook, Open(s, h)
       PROVE  Open(q, h)
  <2>1. PICK j \in 1..Len(s) : Shuts(s[j], h) /\ Unlists(s, 0, j)
    BY <1>13 DEF Open
  <2>2. CASE j \in 1..n
    <3>1. Unlists(q, 0, j)
      BY <1>3, <2>1 DEF Unlists, n
    <3> QED BY <1>3, <2>1, <2>2, <3>1 DEF Open, n
  <2>3. CASE \E k \in 1..Len(cmds) : k # 1 /\ j = n - 1 + k
    <3>1. PICK k \in 1..Len(cmds) : k # 1 /\ j = n - 1 + k
      BY <2>3
    <3>2. Shuts(cmds[k], h)
      BY <1>4, <2>1, <3>1
    <3>3. PICK i \in 1..Len(cmds) : i # 1 /\ i < k /\ Opens(cmds[i], h)
      BY <1>9, <3>1, <3>2
    <3>4. n - 1 + i \in 1..Len(s) /\ 0 < n - 1 + i /\ n - 1 + i < j /\ s[n - 1 + i] = cmds[i]
      BY <1>2, <1>4, <3>1, <3>3
    <3>5. cmds[i].op = "unlist"
      BY <2>1, <3>4 DEF Unlists
    <3> QED BY <3>3, <3>5, Kinds
  <2> QED BY <1>5, <2>2, <2>3
<1>14. ASSUME NEW h \in Hook, Open(q, h)
       PROVE  Open(s, h)
  <2>1. PICK j \in 1..n : Shuts(q[j], h) /\ Unlists(q, 0, j)
    BY <1>14 DEF Open, n
  <2> QED BY <1>3, <1>6, <2>1 DEF Open
<1> QED BY <1>2, <1>10, <1>11, <1>12, <1>13, <1>14 DEF Apt, s, t

(* All the rows of a run, each of them once.                               *)
LEMMA MineAll ==
  ASSUME NEW d, NEW tab, Len(d[tab]) \in Nat, DOMAIN d[tab] = 1..Len(d[tab]), NEW r
  PROVE  /\ \A k \in 1..Len(Mine(d, tab, r)) :
              \E n \in DOMAIN d[tab] :
                /\ Mine(d, tab, r)[k] = [at |-> n, row |-> d[tab][n]]
                /\ d[tab][n].x # None /\ RunOf(d[tab][n].x) = r
         /\ \A n \in DOMAIN d[tab] : d[tab][n].x # None /\ RunOf(d[tab][n].x) = r =>
              \E k \in 1..Len(Mine(d, tab, r)) : Mine(d, tab, r)[k].row = d[tab][n]
<1> DEFINE mine == {n \in DOMAIN d[tab] : d[tab][n].x # None /\ RunOf(d[tab][n].x) = r}
           Nth(k) == CHOOSE n \in mine : Cardinality({m \in mine : m >= n}) = k
           c == Cardinality(mine)
           all == Mine(d, tab, r)
<1>1. Len(d[tab]) \in Nat /\ DOMAIN d[tab] = 1..Len(d[tab]) /\ mine \in SUBSET (1..Len(d[tab]))
  OBVIOUS
<1>2. /\ c \in Nat /\ \A k \in 1..c : \E n \in mine : Cardinality({m \in mine : m >= n}) = k
      /\ \A n \in mine : Cardinality({m \in mine : m >= n}) \in 1..c
      /\ \A a, b \in mine :
           Cardinality({m \in mine : m >= a}) = Cardinality({m \in mine : m >= b}) => a = b
  <2> HIDE DEF mine
  <2> QED BY <1>1, Ranked
<1>3. \A k \in 1..c : Nth(k) \in mine /\ Cardinality({m \in mine : m >= Nth(k)}) = k
  <2> HIDE DEF mine
  <2> QED BY <1>2
<1>4. all = [k \in 1..c |-> getAllRows(d[tab])[Nth(k)]]
  BY DEF Mine
<1>5. \A n \in mine : n \in DOMAIN d[tab] /\ d[tab][n].x # None /\ RunOf(d[tab][n].x) = r
  OBVIOUS
<1>6. \A n \in DOMAIN d[tab] : d[tab][n].x # None /\ RunOf(d[tab][n].x) = r => n \in mine
  OBVIOUS
<1>7. \A n \in mine : getAllRows(d[tab])[n] = [at |-> n, row |-> d[tab][n]]
  BY DEF getAllRows
<1> HIDE DEF mine, Nth, c, all
<1>8. Len(all) = c /\ \A k \in 1..c : all[k] = [at |-> Nth(k), row |-> d[tab][Nth(k)]]
  <2>1. \A k \in 1..c : all[k] = [at |-> Nth(k), row |-> d[tab][Nth(k)]]
    BY <1>3, <1>4, <1>7
  <2>2. Len(all) = c
    BY <1>2, <1>4
  <2> QED BY <2>1, <2>2
<1>9. ASSUME NEW n \in mine
      PROVE  \E k \in 1..c : Nth(k) = n
  <2>1. PICK k \in 1..c : k = Cardinality({m \in mine : m >= n})
    BY <1>2
  <2>2. Cardinality({m \in mine : m >= Nth(k)}) = Cardinality({m \in mine : m >= n}) /\ Nth(k) \in mine
    BY <1>3, <2>1
  <2>3. Nth(k) = n
    BY <1>2, <2>2
  <2> QED BY <2>3
<1>10. \A k \in 1..Len(all) :
         \E n \in DOMAIN d[tab] : /\ all[k] = [at |-> n, row |-> d[tab][n]]
                                  /\ d[tab][n].x # None /\ RunOf(d[tab][n].x) = r
  BY <1>3, <1>5, <1>8
<1>11. ASSUME NEW n \in DOMAIN d[tab], d[tab][n].x # None, RunOf(d[tab][n].x) = r
       PROVE  \E k \in 1..Len(all) : all[k].row = d[tab][n]
  <2>1. PICK k \in 1..c : Nth(k) = n
    BY <1>6, <1>9, <1>11
  <2>2. all[k].row = d[tab][n]
    BY <1>8, <2>1
  <2> QED BY <1>8, <2>2
<1> QED BY <1>10, <1>11 DEF all

(* All the elements of a set.                                              *)
LEMMA ListedAll ==
  ASSUME NEW S, IsFiniteSet(S), NEW x \in S
  PROVE  \E k \in 1..Len(SetToSeq(S)) : SetToSeq(S)[k] = x
<1> DEFINE n == Cardinality(S)
           f == SetToSeq(S)
<1>1. n \in Nat /\ ExistsBijection(1..n, S)
  BY FS_CardinalityType
<1>2. \E g \in [1..n -> S] : IsInjective(g)
  BY <1>1 DEF ExistsBijection, Bijection, Injection
<1>3. f \in [1..n -> S] /\ IsInjective(f)
  BY <1>2 DEF SetToSeq
<1> HIDE DEF f
<1>4. Len(f) = n
  BY <1>1, <1>3
<1>5. f \in Injection(1..n, S)
  BY <1>3 DEF Injection
<1>6. IsFiniteSet(1..n) /\ Cardinality(1..n) = n
  BY <1>1, UpTo
<1> HIDE DEF n
<1>7. Cardinality(1..n) = Cardinality(S)
  BY <1>6 DEF n
<1>8. f \in Surjection(1..n, S)
  BY <1>5, <1>6, <1>7, FS_Injection
<1>9. \E k \in 1..n : f[k] = x
  BY <1>8 DEF Surjection
<1> QED BY <1>4, <1>9 DEF f

(* Commands that neither open a gap nor shut one, and add nothing.         *)
Plain(cmd) ==
  /\ cmd.op \notin Adding \union {"run", "unclaim"}
  /\ cmd.op = "del" => cmd.x = "waits"

LEMMA PlainApt ==
  ASSUME NEW r, NEW q \in Seq(Command), \A i \in 1..Len(q) : Plain(q[i]) /\ Fits(q[i], r)
  PROVE  /\ Apt(q, r) /\ \A h : ~Open(q, h)
         /\ \A i \in 1..Len(q) : q[i].op \notin Adding
<1>1. \A i \in 1..Len(q) : /\ \A h : ~Opens(q[i], h) /\ ~Shuts(q[i], h)
                           /\ q[i].op \notin Adding /\ q[i].op # "run" /\ q[i].op # "put"
  BY DEF Plain, Opens, Shuts, Adding
<1>2. Paired(q)
  BY <1>1 DEF Paired
<1>3. Proper(q)
  BY <1>1 DEF Proper
<1>4. \A h : ~Open(q, h)
  BY <1>1 DEF Open
<1> QED BY <1>1, <1>2, <1>3, <1>4 DEF Apt

(* One delete of a hook and, next but for its listing, of its claim.       *)
LEMMA GoneApt ==
  ASSUME NEW r, NEW h \in Hook, NEW q \in Seq(Command), \A i \in 1..Len(q) : Fits(q[i], r),
         Len(q) \in {2, 3}, Opens(q[1], h), q[1].op = "del", Shuts(q[Len(q)], h),
         q[Len(q)].op \in {"del", "unclaim"}, Len(q) = 3 => q[2].op = "unlist"
  PROVE  /\ Apt(q, r) /\ \A g \in Hook : ~Open(q, g)
         /\ \A i \in 1..Len(q) : q[i].op \notin Adding
<1>1. /\ \A i \in 1..Len(q) : i = 1 \/ i = Len(q) \/ (i = 2 /\ Len(q) = 3)
      /\ 1 \in 1..Len(q) /\ Len(q) \in 1..Len(q) /\ 1 < Len(q)
  OBVIOUS
<1>2. /\ \A g : Opens(q[1], g) => g = h
      /\ \A g : Shuts(q[Len(q)], g) => g = h
      /\ \A g : ~Shuts(q[1], g) /\ ~Opens(q[Len(q)], g)
      /\ Len(q) = 3 => \A g : ~Shuts(q[2], g) /\ ~Opens(q[2], g)
  BY Kinds DEF Opens, Shuts
<1>3. Unlists(q, 1, Len(q))
  BY <1>1 DEF Unlists
<1>4. Paired(q)
  BY <1>1, <1>2, <1>3 DEF Paired
<1>5. \A i \in 1..Len(q) : q[i].op \notin Adding /\ q[i].op # "run" /\ q[i].op # "put"
  BY <1>1 DEF Adding
<1>6. Proper(q)
  BY <1>5 DEF Proper
<1>7. ASSUME NEW g \in Hook, Open(q, g)
      PROVE  FALSE
  <2>1. PICK j \in 1..Len(q) : Shuts(q[j], g) /\ Unlists(q, 0, j)
    BY <1>7 DEF Open
  <2>2. j = Len(q)
    BY <1>1, <1>2, <2>1
  <2>3. q[1].op = "unlist"
    BY <1>1, <2>1, <2>2 DEF Unlists
  <2> QED BY <2>3
<1> QED BY <1>4, <1>5, <1>6, <1>7 DEF Apt

(* The same for a list of such pairs.                                      *)
LEMMA PairsApt ==
  ASSUME NEW r, NEW N \in Nat, NEW q \in Seq(Command), \A i \in 1..Len(q) : Fits(q[i], r),
         Len(q) = 2 * N,
         \A k \in 1..N : /\ q[2 * k - 1].op = "del" /\ q[2 * k].op = "unclaim"
                         /\ \E h : Opens(q[2 * k - 1], h) /\ Shuts(q[2 * k], h)
  PROVE  /\ Apt(q, r) /\ \A g \in Hook : ~Open(q, g)
         /\ \A i \in 1..Len(q) : q[i].op \notin Adding
<1>1. ASSUME NEW i \in 1..Len(q)
      PROVE  \E k \in 1..N : i = 2 * k - 1 \/ i = 2 * k
  <2>1. (i + 1) \div 2 \in 1..N /\ (i = 2 * ((i + 1) \div 2) - 1 \/ i = 2 * ((i + 1) \div 2))
    OBVIOUS
  <2> QED BY <2>1
<1>2. \A k \in 1..N : 2 * k - 1 \in 1..Len(q) /\ 2 * k \in 1..Len(q) /\ 2 * k - 1 < 2 * k
  OBVIOUS
<1>3. \A k \in 1..N : Unlists(q, 2 * k - 1, 2 * k)
  BY DEF Unlists
<1>4. \A k \in 1..N : \A g : ~Shuts(q[2 * k - 1], g) /\ ~Opens(q[2 * k], g)
  BY Kinds DEF Opens
<1>5. Paired(q)
  <2> SUFFICES ASSUME NEW h \in Hook, NEW i \in 1..Len(q)
               PROVE  /\ Opens(q[i], h) =>
                           \E j \in 1..Len(q) : i < j /\ Shuts(q[j], h) /\ Unlists(q, i, j)
                      /\ Shuts(q[i], h) =>
                           \/ Unlists(q, 0, i)
                           \/ \E j \in 1..Len(q) : j < i /\ Opens(q[j], h) /\ Unlists(q, j, i)
    BY DEF Paired
  <2>1. PICK k \in 1..N : i = 2 * k - 1 \/ i = 2 * k
    BY <1>1
  <2>2. PICK g : Opens(q[2 * k - 1], g) /\ Shuts(q[2 * k], g)
    OBVIOUS
  <2>3. CASE i = 2 * k - 1
    BY <1>2, <1>3, <1>4, <2>2, <2>3, Kinds
  <2>4. CASE i = 2 * k
    BY <1>2, <1>3, <1>4, <2>2, <2>4, Kinds
  <2> QED BY <2>1, <2>3, <2>4
<1>6. \A i \in 1..Len(q) : q[i].op \in {"del", "unclaim"}
  BY <1>1, ZenonT(40)
<1>7. \A i \in 1..Len(q) : q[i].op \notin Adding /\ q[i].op # "run" /\ q[i].op # "put"
  BY <1>6 DEF Adding
<1>8. Proper(q)
  BY <1>7 DEF Proper
<1>9. ASSUME NEW g \in Hook, Open(q, g)
      PROVE  FALSE
  <2>1. PICK j \in 1..Len(q) : Shuts(q[j], g) /\ Unlists(q, 0, j)
    BY <1>9 DEF Open
  <2>2. PICK k \in 1..N : j = 2 * k
    BY <1>1, <1>4, <2>1
  <2>3. 2 * k - 1 \in 1..Len(q) /\ 0 < 2 * k - 1 /\ 2 * k - 1 < j
    BY <1>2, <2>2
  <2>4. q[2 * k - 1].op = "unlist"
    BY <2>1, <2>3 DEF Unlists
  <2> QED BY <2>4
<1> QED BY <1>5, <1>7, <1>8, <1>9 DEF Apt

(* A claim on a token, the hook, and its listing.                          *)
LEMMA AddApt ==
  ASSUME NEW r, NEW h \in Hook, NEW q \in Seq(Command), \A i \in 1..Len(q) : Fits(q[i], r),
         2 \in 1..Len(q), Opens(q[1], h), q[1].op = "put",
         q[2].op = "put", q[2].x = "hooks", q[2].v.x = h,
         \A i \in 1..Len(q) : i # 1 /\ i # 2 => q[i].op \in {"list", "append"},
         layout = "keys" => 3 \in 1..Len(q) /\ q[3].op = "list" /\ q[3].x = h
  PROVE  Apt(q, r) /\ \A g \in Hook : ~Open(q, g)
<1>1. /\ 1 \in 1..Len(q) /\ \A i \in 1..Len(q) : i # 1 /\ i # 2 => \A g : ~Opens(q[i], g) /\ ~Shuts(q[i], g)
      /\ \A g : ~Shuts(q[1], g) /\ ~Opens(q[2], g)
      /\ \A g : Opens(q[1], g) => g = h
      /\ \A g : Shuts(q[2], g) <=> g = h
      /\ q[1].x = "tokens"
  BY DEF Opens, Shuts
<1>2. Unlists(q, 1, 2)
  BY DEF Unlists
<1>3. Paired(q)
  <2> SUFFICES ASSUME NEW g \in Hook, NEW i \in 1..Len(q)
               PROVE  /\ Opens(q[i], g) =>
                           \E j \in 1..Len(q) : i < j /\ Shuts(q[j], g) /\ Unlists(q, i, j)
                      /\ Shuts(q[i], g) =>
                           \/ Unlists(q, 0, i)
                           \/ \E j \in 1..Len(q) : j < i /\ Opens(q[j], g) /\ Unlists(q, j, i)
    BY DEF Paired
  <2>1. Opens(q[i], g) => i = 1 /\ g = h /\ 1 < 2
    BY <1>1, SMTT(40)
  <2>2. Shuts(q[i], g) => i = 2 /\ g = h
    <3>1. ASSUME Shuts(q[i], g)
          PROVE  i = 2 /\ g = h
      <4>1. i # 1
        BY <1>1, <3>1
      <4>2. i = 2
        BY <1>1, <3>1, <4>1
      <4> QED BY <1>1, <3>1, <4>2
    <3> QED BY <3>1
  <2> QED BY <1>1, <1>2, <2>1, <2>2
<1>4. \A i \in 1..Len(q) : q[i].op \in {"put", "list", "append"}
  OBVIOUS
<1>5. Proper(q)
  <2>1. \A i \in 1..Len(q) : q[i].op \in Adding \union {"append"} /\ q[i].op # "run"
    BY <1>4 DEF Adding
  <2>2. \A i \in 1..Len(q) : q[i].op = "put" /\ q[i].x = "hooks" => i = 2
    BY <1>1
  <2> QED BY <2>1, <2>2 DEF Proper
<1>6. ASSUME NEW g \in Hook, Open(q, g)
      PROVE  FALSE
  <2>1. PICK j \in 1..Len(q) : Shuts(q[j], g) /\ Unlists(q, 0, j)
    BY <1>6 DEF Open
  <2>2. j = 2
    BY <1>1, <2>1
  <2>3. q[1].op = "unlist"
    BY <1>1, <2>1, <2>2 DEF Unlists
  <2> QED BY <2>3
<1> QED BY <1>3, <1>5, <1>6 DEF Apt

(* What is to be removed of a hook or a wait.                              *)
TabOf(x) == IF x \in Hook THEN "hooks" ELSE "waits"
Removes(cmd, x) ==
  \/ cmd.op = TabOf(x) /\ cmd.x = RunOf(x)
  \/ cmd.op = "del" /\ cmd.x = TabOf(x) /\ cmd.v.x = x
  \/ cmd.op = "clean" /\ cmd.x = x

(* What a read is to be followed by.                                       *)
Becomes(d, cmd, q, r) ==
  /\ Apt(q, r)
  /\ cmd.op = "claim" => \A i \in 1..Len(q) : /\ q[i].op \in {"put", "list", "append"}
                                              /\ q[i].op = "put" => q[i].x # "waits"
  /\ cmd.op # "claim" => \A i \in 1..Len(q) : q[i].op \notin Adding
  /\ \A h \in Hook : Open(q, h) <=> cmd.op = "unclaim" /\ cmd.x = h /\ In(d.tokens, h)
  /\ \A i \in 1..Len(q) :
       /\ layout = "keys" /\ q[i].op = "del" /\ q[i].x = "hooks" =>
            i = 1 /\ In(d.hooks, q[i].v.x)
       /\ q[i].op = "unlist" /\ In(d.hooks, q[i].x) =>
            \E j \in 1..Len(q) : j < i /\ Removes(q[j], q[i].x)
  /\ \A x \in Hook \union Wait :
       /\ Removes(cmd, x) /\ In(d[TabOf(x)], x)
       /\ layout = "keys" /\ cmd.op = "hooks" => x \in d.byRun
       => \E i \in 1..Len(q) : Removes(q[i], x)

LEMMA RecordApt ==
  ASSUME NEW x \in Run \union Step \union Hook \union Wait, NEW type \in EventType, NEW r
  PROVE  /\ Len(Record(type, x)) = 1 /\ Record(type, x)[1].op = "append"
         /\ Fits(Record(type, x)[1], r) /\ Plain(Record(type, x)[1])
<1>1. Record(type, x) = <<Cmd("append", RunOf(x), [type |-> type, on |-> x])>>
  BY RecordTyped
<1>2. Cmd("append", RunOf(x), [type |-> type, on |-> x]).op = "append"
  BY DEF Cmd
<1> QED BY <1>1, <1>2 DEF Fits, Plain, Adding

LEMMA ClaimBecomes ==
  ASSUME layout \in {"keys", "rows"}, NEW d \in Data, NEW cmd \in Command, cmd.op = "claim",
         NEW r, Fits(cmd, r)
  PROVE  Becomes(d, cmd, Expand(d, cmd), r)
<1>1. cmd.x \in Hook /\ RunOf(cmd.x) = r
  BY Zenon DEF Command, Fits
<1> DEFINE q == Expand(d, cmd)
<1>2. q \in Seq(Command)
  BY ExpandCalm DEF Reading, CalmList
<1>3. \A x : ~Removes(cmd, x)
  BY DEF Removes, TabOf
<1>4. CASE Taken(d, cmd.x)
  <2>1. q = Record("hook_conflict", cmd.x)
    BY <1>4 DEF Expand
  <2> HIDE DEF q
  <2>2. Len(q) = 1 /\ q[1].op = "append" /\ Fits(q[1], r) /\ Plain(q[1])
    BY <1>1, <2>1, RecordApt DEF EventType
  <2>3. \A i \in 1..Len(q) : Plain(q[i]) /\ Fits(q[i], r) /\ q[i].op = "append"
    BY <2>2
  <2>4. Apt(q, r) /\ \A h : ~Open(q, h)
    BY <1>2, <2>3, PlainApt
  <2>5. Becomes(d, cmd, q, r)
    BY <1>3, <2>3, <2>4 DEF Becomes
  <2> QED BY <2>5 DEF q
<1>5. CASE ~Taken(d, cmd.x)
  <2> DEFINE p1 == Put("tokens", cmd.x, "claim")
             p2 == Put("hooks", cmd.x, "live")
             l == Cmd("list", cmd.x, "")
             e == Record("hook_created", cmd.x)
  <2>1. q = <<p1, p2>> \o (IF layout = "keys" THEN <<l>> ELSE <<>>) \o e
    BY <1>5, Zenon DEF Expand
  <2>2. /\ p1.op = "put" /\ p1.x = "tokens" /\ p1.v.x = cmd.x
        /\ p2.op = "put" /\ p2.x = "hooks" /\ p2.v.x = cmd.x
        /\ l.op = "list" /\ l.x = cmd.x
    BY DEF Put, Cmd, Entry
  <2>3. Len(e) = 1 /\ e[1].op = "append" /\ Fits(e[1], r) /\ e = <<e[1]>>
    <3>1. "hook_created" \in EventType
      BY DEF EventType, HookTypes
    <3>2. Len(e) = 1 /\ e[1].op = "append" /\ Fits(e[1], r)
      BY <1>1, <3>1, RecordApt
    <3>3. e = <<e[1]>>
      BY DEF Record
    <3> QED BY <3>2, <3>3
  <2>4. /\ Fits(p1, r) /\ Fits(p2, r) /\ Fits(l, r)
    <3>1. cmd.x # None
      BY <1>1, KindOf
    <3> QED BY <1>1, <2>2, <3>1, Zenon DEF Fits
  <2> DEFINE f == e[1]
  <2>5. f.op = "append" /\ Fits(f, r) /\ e = <<f>>
    BY <2>3
  <2> HIDE DEF p1, p2, l, e, f, q
  <2>6. /\ \A i \in 1..Len(q) : q[i] \in {p1, p2, l, f} /\ (i # 1 /\ i # 2 => q[i] \in {l, f})
        /\ q[1] = p1 /\ q[2] = p2 /\ 2 \in 1..Len(q)
        /\ layout = "keys" => 3 \in 1..Len(q) /\ q[3] = l
    <3> DEFINE S == {p1, p2, l, f}
    <3>1. CASE layout = "keys"
      <4> DEFINE b == <<p1, p2>> \o <<l>>
      <4>1. Len(b) = 3 /\ b[1] = p1 /\ b[2] = p2 /\ b[3] = l
        OBVIOUS
      <4>2. b \in Seq(S) /\ f \in S
        OBVIOUS
      <4>3. q = b \o <<f>>
        BY <2>1, <2>5, <3>1
      <4> HIDE DEF b, S
      <4>4. Len(q) = Len(b) + 1 /\ q[Len(b) + 1] = f /\ \A i \in 1..Len(b) : q[i] = b[i]
        BY <4>2, <4>3
      <4>5. Len(q) = 4 /\ q[4] = f /\ q[1] = p1 /\ q[2] = p2 /\ q[3] = l
        BY <4>1, <4>4
      <4>6. \A i \in 1..Len(q) : i = 1 \/ i = 2 \/ i = 3 \/ i = 4
        BY <4>5
      <4> QED BY <4>5, <4>6
    <3>2. CASE layout = "rows"
      <4>1. q = <<p1, p2>> \o <<f>>
        BY <2>1, <2>5, <3>2
      <4>2. Len(q) = 3 /\ q[3] = f /\ q[1] = p1 /\ q[2] = p2
        BY <4>1
      <4>3. \A i \in 1..Len(q) : i = 1 \/ i = 2 \/ i = 3
        BY <4>2
      <4> QED BY <3>2, <4>2, <4>3
    <3> QED BY <3>1, <3>2
  <2>7. /\ \A i \in 1..Len(q) : /\ Fits(q[i], r) /\ q[i].op \in {"put", "list", "append"}
                                /\ q[i].op = "put" => q[i].x # "waits"
                                /\ i # 1 /\ i # 2 => q[i].op \in {"list", "append"}
        /\ Opens(q[1], cmd.x)
    BY <2>2, <2>4, <2>5, <2>6 DEF Opens
  <2>8. Apt(q, r) /\ \A g \in Hook : ~Open(q, g)
    BY <1>1, <1>2, <2>2, <2>6, <2>7, AddApt
  <2>9. Becomes(d, cmd, q, r)
    BY <1>3, <2>7, <2>8 DEF Becomes
  <2> QED BY <2>9 DEF q
<1> QED BY <1>4, <1>5

LEMMA EmptyBecomes ==
  ASSUME NEW d, NEW cmd, cmd.op # "claim", NEW r,
         cmd.op = "unclaim" => ~In(d.tokens, cmd.x),
         \A x \in Hook \union Wait : Removes(cmd, x) => ~In(d[TabOf(x)], x)
  PROVE  Becomes(d, cmd, <<>>, r)
<1> DEFINE q == <<>>
<1>1. q \in Seq(Command) /\ Len(q) = 0 /\ \A i \in 1..Len(q) : FALSE
  OBVIOUS
<1> HIDE DEF q
<1>2. Apt(q, r) /\ \A h : ~Open(q, h)
  BY <1>1, PlainApt
<1>3. Becomes(d, cmd, q, r)
  BY <1>1, <1>2 DEF Becomes
<1> QED BY <1>3 DEF q

LEMMA UnclaimBecomes ==
  ASSUME layout \in {"keys", "rows"}, NEW d \in Data, NEW cmd \in Command, cmd.op = "unclaim",
         NEW r, Fits(cmd, r)
  PROVE  Becomes(d, cmd, Expand(d, cmd), r)
<1>1. cmd.x \in Hook /\ RunOf(cmd.x) = r /\ d.tokens \in Seq(HookRow) /\ layout = "rows"
  BY Zenon DEF Command, Fits, Data
<1> DEFINE q == Expand(d, cmd)
<1>2. q \in Seq(Command)
  BY ExpandCalm DEF Reading, CalmList
<1>3. \A x : ~Removes(cmd, x)
  BY DEF Removes, TabOf
<1>4. Has(d.tokens, cmd.x) <=> In(d.tokens, cmd.x)
  BY <1>1, Seen
<1>5. CASE ~Has(d.tokens, cmd.x)
  <2>1. q = <<>>
    BY <1>5 DEF Expand
  <2> QED BY <1>3, <1>4, <1>5, <2>1, EmptyBecomes
<1>6. CASE Has(d.tokens, cmd.x)
  <2> DEFINE j == CHOOSE k \in Find(d.tokens, cmd.x) : TRUE
             p == Del("tokens", j)
  <2>1. j.row.x = cmd.x
    BY <1>1, <1>6, Found
  <2>2. q = <<p>>
    BY <1>6 DEF Expand
  <2> HIDE DEF j
  <2>3. p.op = "del" /\ p.x = "tokens" /\ p.v.x = cmd.x
    BY <2>1 DEF Del
  <2> HIDE DEF p, q
  <2>4. Len(q) = 1 /\ q[1] = p
    BY <2>2
  <2>5. \A i \in 1..Len(q) : i = 1
    BY <2>4
  <2>6. Fits(p, r)
    BY <1>1, <2>3, KindOf DEF Fits
  <2>7. /\ \A g : Shuts(p, g) <=> g = cmd.x
        /\ \A g : ~Opens(p, g)
    BY <2>3 DEF Shuts, Opens
  <2>8. Unlists(q, 0, 1) /\ 1 \in 1..Len(q)
    BY <2>4 DEF Unlists
  <2>9. Paired(q)
    BY <2>4, <2>5, <2>7, <2>8 DEF Paired
  <2>10. Proper(q)
    BY <2>3, <2>4, <2>5 DEF Proper, Adding
  <2>11. Apt(q, r)
    BY <1>2, <2>4, <2>5, <2>6, <2>9, <2>10 DEF Apt
  <2>12. \A h \in Hook : Open(q, h) <=> cmd.x = h
    BY <2>4, <2>5, <2>7, <2>8 DEF Open
  <2>13. \A i \in 1..Len(q) : q[i].op = "del" /\ q[i].x = "tokens"
    BY <2>3, <2>4, <2>5
  <2>14. Becomes(d, cmd, q, r)
    BY <1>3, <1>4, <1>6, <2>11, <2>12, <2>13 DEF Becomes, Adding
  <2> QED BY <2>14 DEF q
<1> QED BY <1>5, <1>6

LEMMA GoneBecomes ==
  ASSUME layout \in {"keys", "rows"}, NEW d \in Data, NEW cmd \in Command,
         cmd.op \in {"clean", "dispose"}, NEW r, Fits(cmd, r)
  PROVE  Becomes(d, cmd, Expand(d, cmd), r)
<1>1. cmd.x \in Hook /\ RunOf(cmd.x) = r /\ d.hooks \in Seq(HookRow) /\ cmd.x # None
  BY KindOf, Zenon DEF Command, Fits, Data
<1> DEFINE q == Expand(d, cmd)
           h == cmd.x
<1>2. q \in Seq(Command)
  BY ExpandCalm DEF Reading, CalmList
<1>3. \A x \in Hook \union Wait : Removes(cmd, x) => x = h /\ TabOf(x) = "hooks"
  BY <1>1 DEF Removes, TabOf
<1>4. Has(d.hooks, h) <=> In(d.hooks, h)
  BY <1>1, Seen
<1>5. CASE ~Has(d.hooks, h)
  <2>1. q = <<>>
    BY <1>5, Zenon DEF Expand
  <2> QED BY <1>3, <1>4, <1>5, <2>1, EmptyBecomes
<1>6. CASE Has(d.hooks, h)
  <2> DEFINE j == CHOOSE k \in Find(d.hooks, h) : TRUE
             p == Del("hooks", j)
             u == IF layout = "rows" THEN Cmd("unclaim", j.row.x, "") ELSE Del("tokens", j)
             l == Cmd("unlist", h, "")
  <2>1. j.row.x = h
    BY <1>1, <1>6, Found
  <2>2. /\ p.op = "del" /\ p.x = "hooks" /\ p.v.x = h
        /\ u.op \in {"del", "unclaim"} /\ Shuts(u, h) /\ Fits(u, r)
        /\ l.op = "unlist" /\ l.x = h
    <3> HIDE DEF j
    <3> QED BY <1>1, <2>1, Zenon DEF Del, Cmd, Shuts, Fits
  <2>3. q = <<p, u>> \/ q = <<p, l>> \o <<u>>
    <3> DEFINE gone == HookGone(j)
    <3>1. gone = <<p, u>>
      BY DEF HookGone
    <3>2. q = gone \/ q = <<Head(gone), l>> \o Tail(gone)
      BY <1>6, Zenon DEF Expand
    <3> HIDE DEF p, u, l, q, gone
    <3>3. Head(gone) = p /\ Tail(gone) = <<u>>
      BY <3>1, SMTT(40)
    <3> QED BY <3>1, <3>2, <3>3
  <2>4. Fits(p, r) /\ Fits(l, r)
    BY <1>1, <2>2, Zenon DEF Fits
  <2> HIDE DEF p, u, l, q, j
  <2>5. /\ Len(q) \in {2, 3} /\ q[1] = p /\ q[Len(q)] = u /\ (Len(q) = 3 => q[2] = l)
        /\ \A i \in 1..Len(q) : i = 1 \/ i = Len(q) \/ (i = 2 /\ Len(q) = 3)
    <3>1. CASE q = <<p, u>>
      BY <3>1
    <3>2. CASE q = <<p, l>> \o <<u>>
      <4> DEFINE S == {p, l, u}
                 a == <<p, l>>
                 uu == <<u>>
      <4>1. /\ a \in Seq(S) /\ Len(a) = 2 /\ a[1] = p /\ a[2] = l
            /\ uu \in Seq(S) /\ Len(uu) = 1 /\ uu[1] = u
        OBVIOUS
      <4>2. q = a \o uu
        BY <3>2
      <4> HIDE DEF a, S, uu
      <4>5. /\ Len(q) = Len(a) + Len(uu) /\ \A i \in 1..Len(uu) : q[Len(a) + i] = uu[i]
            /\ \A i \in 1..Len(a) : q[i] = a[i]
        BY <4>1, <4>2, JoinAt, SMTT(40)
      <4>3. Len(q) = 3 /\ q[3] = u /\ q[1] = p /\ q[2] = l
        BY <4>1, <4>5
      <4> QED BY <4>3
    <3> QED BY <2>3, <3>1, <3>2
  <2>6. \A i \in 1..Len(q) : Fits(q[i], r)
    BY <2>2, <2>4, <2>5
  <2>7. Opens(q[1], h)
    BY <2>2, <2>5 DEF Opens
  <2> HIDE DEF h
  <2>8. h \in Hook
    BY <1>1 DEF h
  <2>9. /\ Apt(q, r) /\ \A g \in Hook : ~Open(q, g)
        /\ \A i \in 1..Len(q) : q[i].op \notin Adding
    BY <1>2, <2>2, <2>5, <2>6, <2>7, <2>8, GoneApt
  <2>10. 1 \in 1..Len(q) /\ Removes(q[1], h)
    BY <2>2, <2>5, <2>8 DEF Removes, TabOf
  <2>11. \A i \in 1..Len(q) :
           /\ q[i].op = "del" /\ q[i].x = "hooks" => i = 1 /\ q[i].v.x = h
           /\ q[i].op = "unlist" => 1 < i /\ q[i].x = h
    <3>1. u.op = "del" => u.x # "hooks"
      BY <2>2 DEF Shuts
    <3> QED BY <2>2, <2>5, <3>1
  <2>12. Becomes(d, cmd, q, r)
    BY <1>3, <1>4, <1>6, <2>9, <2>10, <2>11 DEF Becomes
  <2> QED BY <2>12 DEF q
<1> QED BY <1>5, <1>6

LEMMA HooksInRows ==
  ASSUME layout = "rows", NEW d \in Data, NEW cmd \in Command, cmd.op = "hooks",
         NEW r, Fits(cmd, r)
  PROVE  Becomes(d, cmd, Expand(d, cmd), r)
<1>1. cmd.x = r /\ r \in Run /\ d.hooks \in Seq(HookRow)
  BY Zenon DEF Command, Fits, Data
<1> DEFINE q == Expand(d, cmd)
           tab == "hooks"
           rows == d[tab]
           m == Mine(d, tab, cmd.x)
           N == Len(m)
<1>2. q \in Seq(Command)
  BY ExpandCalm DEF Reading, CalmList
<1>3. rows = d.hooks /\ rows \in Seq(HookRow) /\ \A v \in HookRow : v.x \in Hook \union {None}
  BY <1>1, Zenon DEF HookRow
<1>4. q = [i \in 1..2 * N |-> HookGone(m[(i + 1) \div 2])[((i + 1) % 2) + 1]]
  BY DEF Expand
<1> HIDE DEF tab
<1>5. /\ \A k \in 1..N :
           \E n \in DOMAIN rows : /\ m[k] = [at |-> n, row |-> rows[n]]
                                  /\ rows[n].x # None /\ RunOf(rows[n].x) = r
      /\ \A n \in DOMAIN rows : rows[n].x # None /\ RunOf(rows[n].x) = r =>
           \E k \in 1..N : m[k].row = rows[n]
  <2>1. Len(d[tab]) \in Nat /\ DOMAIN d[tab] = 1..Len(d[tab])
    BY <1>3
  <2>2. m = Mine(d, tab, r)
    BY <1>1
  <2>3. /\ \A k \in 1..Len(Mine(d, tab, r)) :
             \E n \in DOMAIN d[tab] :
               /\ Mine(d, tab, r)[k] = [at |-> n, row |-> d[tab][n]]
               /\ d[tab][n].x # None /\ RunOf(d[tab][n].x) = r
        /\ \A n \in DOMAIN d[tab] : d[tab][n].x # None /\ RunOf(d[tab][n].x) = r =>
             \E k \in 1..Len(Mine(d, tab, r)) : Mine(d, tab, r)[k].row = d[tab][n]
    BY <2>1, MineAll, SMTT(40)
  <2> QED BY <2>2, <2>3
<1>6. N \in Nat /\ DOMAIN m = 1..N
  BY <1>3, MineTyped, PolledStoreAssumption
<1> HIDE DEF q, m, N, rows
<1>7. Len(q) = 2 * N
  BY <1>6, <1>4
<1>8. \A n \in DOMAIN rows : rows[n].x \in Hook \union {None}
  BY <1>3
<1>9. ASSUME NEW k \in 1..N
      PROVE  LET x == m[k].row.x IN
             /\ x \in Hook /\ RunOf(x) = r /\ x # None /\ In(rows, x)
             /\ 2 * k - 1 \in 1..Len(q) /\ 2 * k \in 1..Len(q)
             /\ q[2 * k - 1].op = "del" /\ q[2 * k - 1].x = "hooks" /\ q[2 * k - 1].v.x = x
             /\ q[2 * k].op = "unclaim" /\ q[2 * k].x = x
  <2>1. PICK n \in DOMAIN rows : /\ m[k] = [at |-> n, row |-> rows[n]]
                                 /\ rows[n].x # None /\ RunOf(rows[n].x) = r
    BY <1>5
  <2>2. m[k].row.x = rows[n].x /\ m[k].row.x \in Hook
    BY <1>8, <2>1
  <2>3. HookGone(m[k]) = <<Del("hooks", m[k]), Cmd("unclaim", m[k].row.x, "")>>
    BY DEF HookGone
  <2>4. 2 * k - 1 \in 1..2 * N /\ 2 * k \in 1..2 * N
    BY <1>6
  <2>5. /\ ((2 * k - 1) + 1) \div 2 = k /\ (((2 * k - 1) + 1) % 2) + 1 = 1
        /\ (2 * k + 1) \div 2 = k /\ ((2 * k + 1) % 2) + 1 = 2
    BY <1>6
  <2>6. q[2 * k - 1] = HookGone(m[k])[1] /\ q[2 * k] = HookGone(m[k])[2]
    BY <1>4, <2>4, <2>5
  <2> DEFINE p == Del("hooks", m[k])
             u == Cmd("unclaim", m[k].row.x, "")
  <2>7. /\ p.op = "del" /\ p.x = "hooks" /\ p.v.x = m[k].row.x
        /\ u.op = "unclaim" /\ u.x = m[k].row.x
    BY DEF Del, Cmd
  <2>11. HookGone(m[k]) = <<p, u>>
    BY <2>3, Zenon
  <2> HIDE DEF p, u
  <2>8. q[2 * k - 1] = p /\ q[2 * k] = u
    BY <2>6, <2>11
  <2>9. In(rows, m[k].row.x)
    BY <2>2 DEF In
  <2> QED BY <1>7, <2>1, <2>2, <2>4, <2>7, <2>8, <2>9
<1>10. ASSUME NEW i \in 1..Len(q)
       PROVE  \E k \in 1..N : i = 2 * k - 1 \/ i = 2 * k
  <2>1. (i + 1) \div 2 \in 1..N /\ (i = 2 * ((i + 1) \div 2) - 1 \/ i = 2 * ((i + 1) \div 2))
    BY <1>6, <1>7
  <2> QED BY <2>1
<1>11. \A i \in 1..Len(q) : Fits(q[i], r) /\ q[i].op \in {"del", "unclaim"}
  <2> SUFFICES ASSUME NEW i \in 1..Len(q)
               PROVE  Fits(q[i], r) /\ q[i].op \in {"del", "unclaim"}
    OBVIOUS
  <2>1. PICK k \in 1..N : i = 2 * k - 1 \/ i = 2 * k
    BY <1>10
  <2>2. CASE i = 2 * k - 1
    BY <1>9, <2>2 DEF Fits
  <2>3. CASE i = 2 * k
    BY <1>9, <2>3 DEF Fits
  <2> QED BY <2>1, <2>2, <2>3
<1>12. \A k \in 1..N : Opens(q[2 * k - 1], m[k].row.x) /\ Shuts(q[2 * k], m[k].row.x)
  BY <1>9 DEF Opens, Shuts
<1>13. /\ Apt(q, r) /\ \A g \in Hook : ~Open(q, g)
       /\ \A i \in 1..Len(q) : q[i].op \notin Adding
  <2>1. \A k \in 1..N : /\ q[2 * k - 1].op = "del" /\ q[2 * k].op = "unclaim"
                        /\ \E h : Opens(q[2 * k - 1], h) /\ Shuts(q[2 * k], h)
    BY <1>9, <1>12
  <2> QED BY <1>2, <1>6, <1>7, <1>11, <2>1, PairsApt
<1>14. ASSUME NEW x \in Hook \union Wait, Removes(cmd, x), In(d[TabOf(x)], x)
       PROVE  \E i \in 1..Len(q) : Removes(q[i], x)
  <2>1. x \in Hook /\ TabOf(x) = "hooks" /\ RunOf(x) = r /\ x # None
    BY <1>1, <1>14, KindOf DEF Removes, TabOf
  <2>5. In(rows, x)
    <3>1. d[TabOf(x)] = d.hooks
      BY <2>1
    <3> QED BY <1>3, <1>14, <3>1
  <2>2. PICK n \in DOMAIN rows : rows[n].x = x
    BY <2>5 DEF In
  <2>3. PICK k \in 1..N : m[k].row = rows[n]
    BY <1>5, <2>1, <2>2
  <2>4. 2 * k - 1 \in 1..Len(q) /\ Removes(q[2 * k - 1], x)
    BY <1>9, <2>1, <2>2, <2>3 DEF Removes
  <2> QED BY <2>4
<1>15. Becomes(d, cmd, q, r)
  BY <1>1, <1>11, <1>13, <1>14 DEF Becomes
<1> QED BY <1>15 DEF q

LEMMA HooksInKeys ==
  ASSUME layout = "keys", NEW d \in Data, NEW cmd \in Command, cmd.op = "hooks",
         NEW r, Fits(cmd, r)
  PROVE  Becomes(d, cmd, Expand(d, cmd), r)
<1> DEFINE q == Expand(d, cmd)
           S == {h \in d.byRun : HookRun[h] = cmd.x}
           m == SetToSeq(S)
           N == Len(m)
           f(i) == Cmd(IF i % 2 = 1 THEN "clean" ELSE "unlist", m[(i + 1) \div 2], "")
<1>1. cmd.x = r /\ r \in Run /\ d.byRun \subseteq Hook
  BY Zenon DEF Command, Fits, Data
<1>2. q \in Seq(Command)
  BY ExpandCalm DEF Reading, CalmList
<1>3. IsFiniteSet(S)
  BY <1>1, FS_Subset, PolledStoreAssumption
<1>4. \A x \in S : x \in Hook /\ RunOf(x) = r
  BY <1>1, KindOf DEF RunOf
<1>5. \A x \in Hook : RunOf(x) = r /\ x \in d.byRun => x \in S
  BY <1>1, KindOf DEF RunOf
<1>6. q = [i \in 1..2 * N |-> f(i)]
  BY DEF Expand
<1> HIDE DEF S, q
<1>7. m \in Seq(S)
  BY <1>3, Listed
<1>8. \A x \in S : \E k \in 1..N : m[k] = x
  BY <1>3, ListedAll
<1> HIDE DEF m, N, f
<1>9. N \in Nat /\ \A k \in 1..N : m[k] \in S
  BY <1>7 DEF N
<1>10. Len(q) = 2 * N
  <2>1. 2 * N \in Nat
    BY <1>9
  <2> QED BY <1>6, <2>1
<1>11. ASSUME NEW k \in 1..N
       PROVE  /\ 2 * k - 1 \in 1..Len(q) /\ 2 * k \in 1..Len(q)
              /\ q[2 * k - 1].op = "clean" /\ q[2 * k - 1].x = m[k]
              /\ q[2 * k].op = "unlist" /\ q[2 * k].x = m[k]
  <2>1. 2 * k - 1 \in 1..2 * N /\ 2 * k \in 1..2 * N
    BY <1>9
  <2>2. /\ ((2 * k - 1) + 1) \div 2 = k /\ (2 * k - 1) % 2 = 1
        /\ (2 * k + 1) \div 2 = k /\ (2 * k) % 2 # 1
    BY <1>9
  <2>3. /\ f(2 * k - 1).op = "clean" /\ f(2 * k - 1).x = m[k]
        /\ f(2 * k).op = "unlist" /\ f(2 * k).x = m[k]
    BY <2>2 DEF f, Cmd
  <2>4. q[2 * k - 1] = f(2 * k - 1) /\ q[2 * k] = f(2 * k)
    BY <1>6, <2>1
  <2> QED BY <1>10, <2>1, <2>3, <2>4
<1>12. ASSUME NEW i \in 1..Len(q)
       PROVE  \E k \in 1..N : i = 2 * k - 1 \/ i = 2 * k
  <2>1. (i + 1) \div 2 \in 1..N /\ (i = 2 * ((i + 1) \div 2) - 1 \/ i = 2 * ((i + 1) \div 2))
    BY <1>9, <1>10
  <2> QED BY <2>1
<1>13. ASSUME NEW i \in 1..Len(q)
       PROVE  /\ Plain(q[i]) /\ Fits(q[i], r) /\ q[i].op \in {"clean", "unlist"}
              /\ q[i].op = "unlist" =>
                   \E j \in 1..Len(q) : j < i /\ Removes(q[j], q[i].x)
  <2>1. PICK k \in 1..N : i = 2 * k - 1 \/ i = 2 * k
    BY <1>12
  <2>2. m[k] \in Hook /\ RunOf(m[k]) = r
    BY <1>4, <1>9
  <2>3. q[i].op \in {"clean", "unlist"} /\ q[i].x = m[k]
    BY <1>11, <2>1
  <2>4. Plain(q[i]) /\ Fits(q[i], r)
    BY <2>2, <2>3 DEF Plain, Fits, Adding
  <2>5. ASSUME q[i].op = "unlist"
        PROVE  \E j \in 1..Len(q) : j < i /\ Removes(q[j], q[i].x)
    <3>1. i = 2 * k
      BY <1>11, <2>1, <2>5
    <3>2. Removes(q[2 * k - 1], m[k])
      BY <1>11 DEF Removes
    <3>3. 2 * k - 1 < i
      BY <1>9, <3>1
    <3> QED BY <1>11, <2>3, <3>2, <3>3
  <2> QED BY <2>3, <2>4, <2>5
<1>14. /\ Apt(q, r) /\ \A h : ~Open(q, h)
       /\ \A i \in 1..Len(q) : q[i].op \notin Adding
  BY <1>2, <1>13, PlainApt
<1>15. ASSUME NEW x \in Hook \union Wait, Removes(cmd, x), x \in d.byRun
       PROVE  \E i \in 1..Len(q) : Removes(q[i], x)
  <2>1. x \in Hook /\ RunOf(x) = r
    BY <1>1, <1>15 DEF Removes, TabOf
  <2>2. PICK k \in 1..N : m[k] = x
    BY <1>5, <1>8, <1>15, <2>1
  <2>3. 2 * k - 1 \in 1..Len(q) /\ Removes(q[2 * k - 1], x)
    BY <1>11, <2>2 DEF Removes
  <2> QED BY <2>3
<1>16. Becomes(d, cmd, q, r)
  BY <1>13, <1>14, <1>15 DEF Becomes
<1> QED BY <1>16 DEF q

LEMMA WaitsBecomes ==
  ASSUME layout \in {"keys", "rows"}, NEW d \in Data, NEW cmd \in Command, cmd.op = "waits",
         NEW r, Fits(cmd, r)
  PROVE  Becomes(d, cmd, Expand(d, cmd), r)
<1> DEFINE q == Expand(d, cmd)
           tab == "waits"
           rows == d[tab]
           m == Mine(d, tab, cmd.x)
           N == Len(m)
<1>1. cmd.x = r /\ r \in Run /\ d.waits \in Seq(WaitRow)
  BY Zenon DEF Command, Fits, Data
<1>2. q \in Seq(Command)
  BY ExpandCalm DEF Reading, CalmList
<1>3. rows = d.waits /\ rows \in Seq(WaitRow) /\ \A v \in WaitRow : v.x \in Wait \union {None}
  BY <1>1, Zenon DEF WaitRow
<1>4. q = [n \in DOMAIN m |-> Del("waits", m[n])]
  BY DEF Expand
<1> HIDE DEF tab
<1>5. /\ \A k \in 1..N :
           \E n \in DOMAIN rows : /\ m[k] = [at |-> n, row |-> rows[n]]
                                  /\ rows[n].x # None /\ RunOf(rows[n].x) = r
      /\ \A n \in DOMAIN rows : rows[n].x # None /\ RunOf(rows[n].x) = r =>
           \E k \in 1..N : m[k].row = rows[n]
  <2>1. Len(d[tab]) \in Nat /\ DOMAIN d[tab] = 1..Len(d[tab])
    BY <1>3
  <2>2. m = Mine(d, tab, r)
    BY <1>1
  <2>3. /\ \A k \in 1..Len(Mine(d, tab, r)) :
             \E n \in DOMAIN d[tab] :
               /\ Mine(d, tab, r)[k] = [at |-> n, row |-> d[tab][n]]
               /\ d[tab][n].x # None /\ RunOf(d[tab][n].x) = r
        /\ \A n \in DOMAIN d[tab] : d[tab][n].x # None /\ RunOf(d[tab][n].x) = r =>
             \E k \in 1..Len(Mine(d, tab, r)) : Mine(d, tab, r)[k].row = d[tab][n]
    BY <2>1, MineAll, SMTT(40)
  <2> QED BY <2>2, <2>3
<1>6. N \in Nat /\ DOMAIN m = 1..N
  BY <1>3, MineTyped, PolledStoreAssumption
<1> HIDE DEF q, m, N, rows
<1>7. Len(q) = N /\ \A i \in 1..N : q[i] = Del("waits", m[i])
  BY <1>6, <1>4
<1>8. ASSUME NEW i \in 1..Len(q)
      PROVE  /\ Plain(q[i]) /\ Fits(q[i], r)
             /\ q[i].op = "del" /\ q[i].x = "waits" /\ q[i].v.x = m[i].row.x
  <2>1. q[i].op = "del" /\ q[i].x = "waits" /\ q[i].v = m[i].row
    BY <1>7 DEF Del
  <2>2. m[i].row.x # None /\ RunOf(m[i].row.x) = r
    <3>1. PICK n \in DOMAIN rows : /\ m[i] = [at |-> n, row |-> rows[n]]
                                   /\ rows[n].x # None /\ RunOf(rows[n].x) = r
      BY <1>5, <1>7
    <3> QED BY <3>1
  <2> QED BY <2>1, <2>2 DEF Plain, Fits, Adding
<1>9. /\ Apt(q, r) /\ \A h : ~Open(q, h)
      /\ \A i \in 1..Len(q) : q[i].op \notin Adding
  BY <1>2, <1>8, PlainApt
<1>10. ASSUME NEW x \in Hook \union Wait, Removes(cmd, x), In(d[TabOf(x)], x)
       PROVE  \E i \in 1..Len(q) : Removes(q[i], x)
  <2>1. TabOf(x) = "waits" /\ RunOf(x) = r /\ x # None
    BY <1>1, <1>10, KindOf DEF Removes, TabOf
  <2>5. In(rows, x)
    <3>1. d[TabOf(x)] = d.waits
      BY <2>1
    <3> QED BY <1>3, <1>10, <3>1
  <2>2. PICK n \in DOMAIN rows : rows[n].x = x
    BY <2>5 DEF In
  <2>3. PICK k \in 1..N : m[k].row = rows[n]
    BY <1>5, <2>1, <2>2
  <2>4. k \in 1..Len(q) /\ Removes(q[k], x)
    BY <1>7, <1>8, <2>1, <2>2, <2>3 DEF Removes
  <2> QED BY <2>4
<1>11. Becomes(d, cmd, q, r)
  BY <1>8, <1>9, <1>10 DEF Becomes
<1> QED BY <1>11 DEF q

LEMMA ExpandBecomes ==
  ASSUME layout \in {"keys", "rows"}, NEW d \in Data, NEW cmd \in Command, cmd.op \in Reading,
         NEW r, Fits(cmd, r)
  PROVE  Becomes(d, cmd, Expand(d, cmd), r)
<1>1. cmd.op \in {"claim", "unclaim", "dispose", "clean", "hooks", "waits"}
  BY DEF Reading
<1> QED BY <1>1, ClaimBecomes, UnclaimBecomes, GoneBecomes, HooksInRows, HooksInKeys, WaitsBecomes

(* What a validated call goes on with.                                     *)
Begin(cmd, r) ==
  /\ Fits(cmd, r)
  /\ cmd.op \in {"run", "index", "unindex", "step", "append", "claim", "dispose", "hooks",
                 "waits", "put", "set"}
  /\ cmd.op = "put" => cmd.x = "waits"

Begins(cmds, r) ==
  /\ Apt(cmds, r) /\ \A h \in Hook : ~Open(cmds, h)
  /\ \A i \in 1..Len(cmds) : Begin(cmds[i], r)

LEMMA BeginApt ==
  ASSUME NEW r, NEW cmds \in Seq(Command), \A i \in 1..Len(cmds) : Begin(cmds[i], r),
         \A i \in 1..Len(cmds) :
           /\ cmds[i].op \in Adding => \A j \in 1..Len(cmds) : cmds[j].op \in Adding \union {"append"}
           /\ cmds[i].op = "run" /\ cmds[i].v \in RunTerminal =>
                \A op \in {"hooks", "waits"} : \E j \in 1..Len(cmds) : i < j /\ cmds[j].op = op
  PROVE  Begins(cmds, r)
<1>1. \A i \in 1..Len(cmds) : \A h : ~Opens(cmds[i], h) /\ ~Shuts(cmds[i], h)
  BY DEF Begin, Opens, Shuts
<1>2. Paired(cmds)
  BY <1>1 DEF Paired
<1>3. Proper(cmds)
  BY DEF Proper, Begin
<1>4. \A h : ~Open(cmds, h)
  BY <1>1 DEF Open
<1> QED BY <1>2, <1>3, <1>4 DEF Begins, Apt, Begin

LEMMA RecordBegins ==
  ASSUME NEW x \in Run \union Step \union Hook \union Wait, NEW type \in EventType, NEW r
  PROVE  /\ Begins(Record(type, x), r)
         /\ Len(Record(type, x)) = 1 /\ Record(type, x)[1].op = "append"
         /\ Begin(Record(type, x)[1], r) /\ Record(type, x) \in Seq(Command)
<1> DEFINE e == Record(type, x)
<1>1. Len(e) = 1 /\ e[1].op = "append" /\ Fits(e[1], r) /\ e \in Seq(Command)
  BY RecordApt, RecordTyped
<1> HIDE DEF e
<1>2. Begin(e[1], r)
  BY <1>1 DEF Begin
<1>3. \A i \in 1..Len(e) : i = 1
  BY <1>1
<1>4. Begins(e, r)
  BY <1>1, <1>2, <1>3, BeginApt DEF Adding
<1> QED BY <1>1, <1>2, <1>4 DEF e

LEMMA EmptyBegins ==
  ASSUME NEW r
  PROVE  Begins(<<>>, r)
<1> DEFINE q == <<>>
<1>1. q \in Seq(Command) /\ Len(q) = 0 /\ \A i \in 1..Len(q) : FALSE
  OBVIOUS
<1> HIDE DEF q
<1>2. Begins(q, r)
  BY <1>1, BeginApt
<1> QED BY <1>2 DEF q

(* A command and the event.                                                *)
LEMMA TwoBegins ==
  ASSUME NEW r, NEW a \in Command, Begin(a, r), a.op # "run",
         NEW x \in Run \union Step \union Hook \union Wait, NEW type \in EventType
  PROVE  LET w == <<a>> \o Record(type, x) IN
         /\ Begins(w, r) /\ Len(w) = 2 /\ w[1] = a /\ w[2].op = "append"
<1> DEFINE w == <<a>> \o Record(type, x)
<1>1. w \in Seq(Command) /\ Len(w) = 2 /\ w[1] = a /\ w[2] = Record(type, x)[1]
  <2> DEFINE u == <<a>>
             v == Record(type, x)
  <2>1. u \in Seq(Command) /\ Len(u) = 1 /\ u[1] = a
    OBVIOUS
  <2>2. v \in Seq(Command) /\ Len(v) = 1
    BY RecordBegins
  <2> HIDE DEF u, v
  <2>3. /\ u \o v \in Seq(Command) /\ Len(u \o v) = Len(u) + Len(v)
        /\ \A i \in 1..Len(u) : (u \o v)[i] = u[i]
        /\ \A i \in 1..Len(v) : (u \o v)[Len(u) + i] = v[i]
    BY <2>1, <2>2, JoinAt, SMTT(40)
  <2>4. u \o v \in Seq(Command) /\ Len(u \o v) = 2 /\ (u \o v)[1] = a /\ (u \o v)[2] = v[1]
    BY <2>1, <2>2, <2>3
  <2> QED BY <2>4 DEF u, v
<1>2. Begin(w[2], r) /\ w[2].op = "append"
  BY <1>1, RecordBegins
<1> HIDE DEF w
<1>3. \A i \in 1..Len(w) : i = 1 \/ i = 2
  BY <1>1
<1>4. Begins(w, r)
  BY <1>1, <1>2, <1>3, BeginApt DEF Adding
<1> QED BY <1>1, <1>2, <1>4 DEF w

(* The status of a run and what follows it.                                *)
LEMMA RunBegins ==
  ASSUME layout \in {"keys", "rows"}, NEW r \in Run, NEW from \in RunStatus,
         NEW to \in RunStatus \ {"none"}, NEW q \in Seq(Command),
         \A i \in 1..Len(q) : Begin(q[i], r) /\ q[i].op \notin Adding \union {"run"},
         to \in RunTerminal =>
           \A op \in {"hooks", "waits"} : \E j \in 1..Len(q) : q[j].op = op
  PROVE  /\ Begins(WriteRun(r, from, to) \o q, r)
         /\ \A i \in 1..Len(WriteRun(r, from, to) \o q) :
              (WriteRun(r, from, to) \o q)[i].op \notin Adding
<1> DEFINE w == WriteRun(r, from, to)
           s == w \o q
<1>1. PICK k \in Nat : Shape(w, k, r, from, to)
  BY WriteRunShape
<1> HIDE DEF w
<1>2. /\ w \in Seq(Command) /\ k \in 1..Len(w) /\ w[k].v = to
      /\ \A i \in 1..Len(w) : /\ w[i].op \in {"run", "index", "unindex"} /\ w[i].x = r
                              /\ w[i].op = "run" => i = k
  BY <1>1 DEF Shape, Cmd
<1>3. /\ s \in Seq(Command) /\ Len(s) = Len(w) + Len(q) /\ Len(w) \in Nat /\ Len(q) \in Nat
      /\ \A i \in 1..Len(w) : s[i] = w[i]
      /\ \A i \in 1..Len(q) : s[Len(w) + i] = q[i]
  BY <1>2, JoinAt
<1> HIDE DEF s
<1>4. \A i \in 1..Len(s) : i \in 1..Len(w) \/ \E j \in 1..Len(q) : i = Len(w) + j
  <2> SUFFICES ASSUME NEW i \in 1..Len(s), i \notin 1..Len(w)
               PROVE  \E j \in 1..Len(q) : i = Len(w) + j
    OBVIOUS
  <2>1. i - Len(w) \in 1..Len(q) /\ i = Len(w) + (i - Len(w))
    BY <1>3
  <2> QED BY <2>1
<1>5. \A i \in 1..Len(w) : /\ Begin(s[i], r) /\ s[i].op \notin Adding
                           /\ s[i].op = "run" => i = k
  BY <1>2, <1>3, ZenonT(40) DEF Begin, Fits, Adding
<1>6. \A j \in 1..Len(q) : /\ Begin(s[Len(w) + j], r)
                           /\ s[Len(w) + j].op \notin Adding \union {"run"}
  BY <1>3
<1>7. \A i \in 1..Len(s) : Begin(s[i], r) /\ s[i].op \notin Adding /\ (s[i].op = "run" => i = k)
  BY <1>4, <1>5, <1>6
<1>8. ASSUME NEW i \in 1..Len(s), s[i].op = "run", s[i].v \in RunTerminal,
             NEW op \in {"hooks", "waits"}
      PROVE  \E j \in 1..Len(s) : i < j /\ s[j].op = op
  <2>1. i = k /\ to \in RunTerminal
    BY <1>2, <1>3, <1>7, <1>8
  <2>2. PICK j \in 1..Len(q) : q[j].op = op
    BY <2>1
  <2>3. Len(w) + j \in 1..Len(s) /\ i < Len(w) + j /\ s[Len(w) + j] = q[j]
    BY <1>2, <1>3, <2>1
  <2> QED BY <2>2, <2>3
<1>9. Begins(s, r)
  BY <1>3, <1>7, <1>8, BeginApt
<1> QED BY <1>7, <1>9 DEF s, w

Validated(d, cmds, r) ==
  /\ Begins(cmds, r)
  /\ \A i \in 1..Len(cmds) :
       /\ cmds[i].op \in {"claim", "put"} => d.run[r] \notin RunTerminal
       /\ cmds[i].op = "put" => i = 1 /\ ~In(d.waits, cmds[i].v.x)
       /\ cmds[i].op = "set" => cmds[i].v.x \in Wait /\ In(d.waits, cmds[i].v.x)

LEMMA CalmlyValidated ==
  ASSUME NEW d, NEW cmds, NEW r, Begins(cmds, r),
         \A i \in 1..Len(cmds) : cmds[i].op \notin Adding
  PROVE  Validated(d, cmds, r)
BY DEF Validated, Adding

LEMMA RunValidated ==
  ASSUME layout \in {"keys", "rows"}, NEW d \in Data, NEW r \in Run, NEW type \in RunTypes,
         NEW cmds \in RunPlans(r, type, d.run[r])
  PROVE  Validated(d, cmds, r)
<1> DEFINE seen == d.run[r]
           to == EndStatus(type)
           e == Record(type, r)
<1>1. /\ e \in Seq(Command) /\ Len(e) = 1 /\ e[1].op = "append" /\ Begin(e[1], r)
      /\ Begins(e, r)
  BY RecordBegins DEF EventType
<1>2. seen \in RunStatus /\ {"none", "pending", "running"} \subseteq RunStatus
  BY DEF Data, RunStatus
<1>3. Validated(d, e, r) /\ Validated(d, <<>>, r)
  <2>1. \A i \in 1..Len(e) : e[i].op \notin Adding
    BY <1>1 DEF Adding
  <2>2. Validated(d, e, r)
    BY <1>1, <2>1, CalmlyValidated
  <2> DEFINE none == <<>>
  <2>3. Begins(none, r) /\ \A i \in 1..Len(none) : none[i].op \notin Adding
    BY EmptyBegins
  <2> HIDE DEF none
  <2>4. Validated(d, none, r)
    BY <2>3, CalmlyValidated
  <2> QED BY <2>2, <2>4 DEF none
<1> HIDE DEF e
<1>4. ASSUME NEW from \in RunStatus, NEW st \in {"pending", "running"}
      PROVE  Validated(d, WriteRun(r, from, st) \o e, r)
  <2> DEFINE s == WriteRun(r, from, st) \o e
  <2>1. /\ \A i \in 1..Len(e) : Begin(e[i], r) /\ e[i].op \notin Adding \union {"run"}
        /\ st \in RunStatus \ {"none"} /\ st \notin RunTerminal
    BY <1>1 DEF Adding, RunStatus, RunTerminal
  <2>2. Begins(s, r) /\ \A i \in 1..Len(s) : s[i].op \notin Adding
    BY <1>1, <2>1, RunBegins
  <2> HIDE DEF s
  <2>3. Validated(d, s, r)
    BY <2>2, CalmlyValidated
  <2> QED BY <2>3 DEF s
<1>5. CASE type = "run_created"
  <2>1. cmds = WriteRun(r, "none", "pending") \o e
    BY <1>5 DEF RunPlans, Accept, e
  <2> QED BY <1>2, <1>4, <2>1
<1>6. CASE type = "run_started"
  <2>1. cmds = e \/ cmds = <<>> \/ cmds = WriteRun(r, "pending", "running") \o e
    BY <1>6 DEF RunPlans, Accept, e
  <2> QED BY <1>2, <1>3, <1>4, <2>1
<1>7. CASE type \in {"run_completed", "run_failed", "run_cancelled"}
  <2> DEFINE two == <<Cmd("hooks", r, ""), Cmd("waits", r, "")>>
             w == WriteRun(r, seen, to)
  <2>1. to \in RunTerminal /\ to \in RunStatus \ {"none"}
    BY DEF EndStatus, RunTerminal, RunStatus
  <2>2. cmds = w \o two \o e \/ cmds = e
    <3>1. RunPlans(r, type, seen) =
            Accept(seen \in {"pending", "running"}, w \o two \o Record(type, r))
              \union Accept(\/ seen = "none" /\ to # "failed"
                            \/ seen = "cancelled" /\ to = "cancelled", Record(type, r))
      BY <1>7, Zenon DEF RunPlans
    <3> HIDE DEF two, to, w
    <3> QED BY <3>1 DEF Accept, e
  <2>3. CASE cmds = w \o two \o e
    <3>1. /\ two \in Seq(Command) /\ Len(two) = 2
          /\ two[1].op = "hooks" /\ two[1].x = r /\ two[2].op = "waits" /\ two[2].x = r
      <4> DEFINE a == Cmd("hooks", r, "")
                 b == Cmd("waits", r, "")
      <4>1. a \in Command /\ b \in Command /\ a.op = "hooks" /\ a.x = r /\ b.op = "waits" /\ b.x = r
        BY CmdTyped, Zenon DEF Cmd
      <4>2. two = <<a, b>>
        OBVIOUS
      <4> HIDE DEF a, b, two
      <4> QED BY <4>1, <4>2
    <3>2. w \in Seq(Command)
      <4>1. PICK k \in Nat : Shape(w, k, r, seen, to)
        BY <1>2, <2>1, WriteRunShape
      <4> QED BY <4>1 DEF Shape
    <3> DEFINE t == two \o e
    <3> HIDE DEF two, w
    <3>3. w \o two \o e = w \o t
      BY <1>1, <3>1, <3>2, ConcatAssociative, SMTT(40)
    <3>4. /\ t \in Seq(Command) /\ Len(t) = Len(two) + Len(e)
          /\ \A i \in 1..Len(two) : t[i] = two[i]
          /\ \A i \in 1..Len(e) : t[Len(two) + i] = e[i]
      BY <1>1, <3>1, JoinAt, SMTT(40)
    <3> HIDE DEF t
    <3>5. t \in Seq(Command) /\ Len(t) = 3 /\ t[1] = two[1] /\ t[2] = two[2] /\ t[3] = e[1]
      BY <1>1, <3>1, <3>4
    <3>6. \A i \in 1..Len(t) : i = 1 \/ i = 2 \/ i = 3
      BY <3>5
    <3>7. Begin(t[1], r) /\ Begin(t[2], r) /\ Begin(t[3], r)
      BY <1>1, <3>1, <3>5 DEF Begin, Fits
    <3>8. /\ \A i \in 1..Len(t) : Begin(t[i], r) /\ t[i].op \notin Adding \union {"run"}
          /\ \A op \in {"hooks", "waits"} : \E j \in 1..Len(t) : t[j].op = op
      <4>1. 1 \in 1..Len(t) /\ 2 \in 1..Len(t) /\ t[1].op = "hooks" /\ t[2].op = "waits"
        BY <3>1, <3>5
      <4> QED BY <1>1, <3>5, <3>6, <3>7, <4>1 DEF Adding
    <3> DEFINE s == w \o t
    <3>9. Begins(s, r) /\ \A i \in 1..Len(s) : s[i].op \notin Adding
      BY <1>2, <2>1, <3>5, <3>8, RunBegins DEF w
    <3> HIDE DEF s
    <3>10. Validated(d, s, r)
      BY <3>9, CalmlyValidated
    <3> QED BY <2>3, <3>3, <3>10, Zenon DEF s, w, two
  <2> QED BY <1>3, <2>2, <2>3, Zenon
<1> QED BY <1>5, <1>6, <1>7 DEF RunTypes

LEMMA TwoValidated ==
  ASSUME NEW d, NEW r, NEW a \in Command, Begin(a, r), a.op # "run",
         a.op \in {"claim", "put"} => d.run[r] \notin RunTerminal,
         a.op = "put" => ~In(d.waits, a.v.x),
         a.op = "set" => a.v.x \in Wait /\ In(d.waits, a.v.x),
         NEW x \in Run \union Step \union Hook \union Wait, NEW type \in EventType
  PROVE  Validated(d, <<a>> \o Record(type, x), r)
<1> DEFINE w == <<a>> \o Record(type, x)
<1>1. Begins(w, r) /\ Len(w) = 2 /\ w[1] = a /\ w[2].op = "append"
  BY TwoBegins
<1> HIDE DEF w
<1>2. \A i \in 1..Len(w) : i = 1 \/ i = 2
  BY <1>1
<1>3. Validated(d, w, r)
  BY <1>1, <1>2 DEF Validated
<1> QED BY <1>3 DEF w

LEMMA PlansValidated ==
  ASSUME layout \in {"keys", "rows"}, NEW d \in Data, NEW e \in Calls, NEW cmds \in Plans(e, d)
  PROVE  Validated(d, cmds, RunOf(e.x))
<1> DEFINE r == RunOf(e.x)
<1>1. CASE e.type \in RunTypes
  <2>1. e.x \in Run
    BY <1>1, CallTyped DEF RunTypes, StepTypes, HookTypes, WaitTypes
  <2>2. cmds \in RunPlans(e.x, e.type, d.run[e.x]) /\ RunOf(e.x) = e.x
    BY <1>1, <2>1, KindOf DEF Plans, RunTypes, StepTypes, HookTypes, WaitTypes
  <2> QED BY <1>1, <2>1, <2>2, RunValidated
<1>2. CASE e.type \in StepTypes
  <2>1. e.x \in Step /\ e.type \in EventType
    BY <1>2, CallTyped DEF RunTypes, StepTypes, HookTypes, WaitTypes, EventType
  <2>2. cmds \in StepPlans(e.x, e.type, d.run[RunOf(e.x)], d.step[e.x])
    BY <1>2 DEF Plans, RunTypes, StepTypes, HookTypes, WaitTypes
  <2>3. PICK st \in {"pending", "running", "completed", "failed"} :
          cmds = StepThenEvent(e.x, e.type, st)
    BY <1>2, <2>2 DEF StepPlans, Accept, StepTypes
  <2> DEFINE a == Cmd("step", e.x, st)
  <2>4. a \in Command /\ a.op = "step"
    BY <2>1 DEF Cmd, Command, StepStatus
  <2>5. cmds = <<a>> \o Record(e.type, e.x)
    BY <2>3 DEF StepThenEvent
  <2> HIDE DEF a
  <2>6. Begin(a, r)
    BY <2>4 DEF Begin, Fits
  <2> QED BY <2>1, <2>4, <2>5, <2>6, TwoValidated
<1>3. CASE e.type \in HookTypes
  <2>1. e.x \in Hook /\ e.type \in EventType
    BY <1>3, CallTyped DEF RunTypes, StepTypes, HookTypes, WaitTypes, EventType
  <2>2. cmds \in HookPlans(e.x, e.type, d.run[RunOf(e.x)], Has(d.hooks, e.x))
    BY <1>3 DEF Plans, RunTypes, StepTypes, HookTypes, WaitTypes
  <2> DEFINE a == Cmd("claim", e.x, "")
             b == Cmd("dispose", e.x, "")
  <2>3. a \in Command /\ b \in Command /\ a.op = "claim" /\ b.op = "dispose" /\ a.x = e.x /\ b.x = e.x
    BY <2>1, CmdTyped, Zenon DEF Cmd
  <2>4. \/ d.run[r] \notin RunTerminal /\ cmds = <<a>>
        \/ cmds = Record(e.type, e.x)
        \/ cmds = <<b>> \o Record(e.type, e.x)
    BY <1>3, <2>2, Zenon DEF HookPlans, Accept, HookTypes
  <2> HIDE DEF a, b
  <2>5. Begin(a, r) /\ Begin(b, r)
    BY <2>3 DEF Begin, Fits
  <2>6. CASE d.run[r] \notin RunTerminal /\ cmds = <<a>>
    <3>1. Len(cmds) = 1 /\ cmds[1] = a /\ cmds \in Seq(Command)
      BY <2>3, <2>6
    <3>2. \A i \in 1..Len(cmds) : i = 1
      BY <3>1
    <3>3. Begins(cmds, r)
      BY <2>3, <2>5, <3>1, <3>2, BeginApt DEF Adding
    <3> QED BY <2>3, <2>6, <3>1, <3>2, <3>3 DEF Validated
  <2>7. CASE cmds = Record(e.type, e.x)
    <3>1. Begins(cmds, r) /\ Len(cmds) = 1 /\ cmds[1].op = "append"
      BY <2>1, <2>7, RecordBegins
    <3>2. \A i \in 1..Len(cmds) : cmds[i].op \notin Adding
      BY <3>1 DEF Adding
    <3> QED BY <3>1, <3>2, CalmlyValidated
  <2>8. CASE cmds = <<b>> \o Record(e.type, e.x)
    BY <2>1, <2>3, <2>5, <2>8, TwoValidated
  <2> QED BY <2>4, <2>6, <2>7, <2>8
<1>4. CASE e.type \in WaitTypes
  <2>1. e.x \in Wait /\ e.type \in EventType /\ d.waits \in Seq(WaitRow)
    BY <1>4, CallTyped DEF RunTypes, StepTypes, HookTypes, WaitTypes, EventType, Data
  <2>2. cmds \in WaitPlans(e.x, e.type, d.run[RunOf(e.x)], Find(d.waits, e.x))
    BY <1>4 DEF Plans, RunTypes, StepTypes, HookTypes, WaitTypes
  <2>3. Has(d.waits, e.x) <=> In(d.waits, e.x)
    BY <2>1, Seen
  <2> DEFINE a == Put("waits", e.x, "waiting")
  <2>4. \/ /\ d.run[r] \notin RunTerminal /\ Find(d.waits, e.x) = {}
           /\ cmds = <<a>> \o Record(e.type, e.x)
        \/ \E j \in Find(d.waits, e.x) : cmds = <<Set("waits", j, "completed")>> \o Record(e.type, e.x)
    BY <2>2 DEF WaitPlans, Accept
  <2>5. CASE /\ d.run[r] \notin RunTerminal /\ Find(d.waits, e.x) = {}
             /\ cmds = <<a>> \o Record(e.type, e.x)
    <3>1. ~In(d.waits, e.x)
      BY <2>3, <2>5 DEF Has
    <3>2. a \in Command /\ a.op = "put" /\ a.x = "waits" /\ a.v.x = e.x
      BY <2>1, PutTyped DEF Put, Cmd, Entry
    <3> HIDE DEF a
    <3>3. Begin(a, r)
      BY <2>1, <3>2, KindOf DEF Begin, Fits
    <3> QED BY <2>1, <2>5, <3>1, <3>2, <3>3, TwoValidated
  <2>6. ASSUME NEW j \in Find(d.waits, e.x),
               cmds = <<Set("waits", j, "completed")>> \o Record(e.type, e.x)
        PROVE  Validated(d, cmds, r)
    <3> DEFINE b == Set("waits", j, "completed")
    <3>1. j \in Read(WaitRow, Wait) /\ j.row.x = e.x
      BY <2>1, FoundAll DEF Find
    <3>2. b \in Command /\ b.op = "set" /\ b.x = "waits" /\ b.v.x = e.x
      BY <3>1, SetTyped DEF Set, Entry
    <3>3. In(d.waits, e.x)
      BY <2>3 DEF Has
    <3> HIDE DEF b
    <3>4. Begin(b, r)
      BY <2>1, <3>2, KindOf DEF Begin, Fits
    <3>5. cmds = <<b>> \o Record(e.type, e.x)
      BY <2>6 DEF b
    <3> QED BY <2>1, <3>2, <3>3, <3>4, <3>5, TwoValidated
  <2> QED BY <2>4, <2>5, <2>6
<1> QED BY <1>1, <1>2, <1>3, <1>4, CallTyped

-----------------------------------------------------------------------------
(* What a write does to the tables.                                        *)
Alters(cmd, tab) == cmd.op \in {"put", "set", "del"} /\ cmd.x = tab

LEMMA TablesAfter ==
  ASSUME layout \in {"keys", "rows"}, NEW d \in Data, NEW cmd \in Command,
         cmd.op \notin Reading
  PROVE  LET D == Apply(d, cmd) IN
         /\ ~Alters(cmd, "hooks") => D.hooks = d.hooks
         /\ ~Alters(cmd, "tokens") => D.tokens = d.tokens
         /\ ~Alters(cmd, "waits") => D.waits = d.waits
         /\ D.byRun = IF cmd.op = "list" THEN d.byRun \union {cmd.x}
                      ELSE IF cmd.op = "unlist" THEN d.byRun \ {cmd.x} ELSE d.byRun
<1>1. CASE cmd.op \in {"put", "set", "del"}
  <2>1. cmd.x \in {"hooks", "tokens", "waits"}
    BY <1>1, Zenon DEF Command
  <2>2. \E new : Apply(d, cmd) = [d EXCEPT ![cmd.x] = new]
    <3>1. CASE layout = "rows"
      BY <1>1, <3>1 DEF Apply
    <3>2. CASE layout = "keys"
      BY <1>1, <3>2 DEF Apply
    <3> QED BY <3>1, <3>2
  <2> QED BY <1>1, <2>1, <2>2 DEF Alters, Data
<1>2. CASE cmd.op \notin {"put", "set", "del"}
  <2>1. cmd.op \in {"run", "index", "unindex", "step", "append", "list", "unlist"}
    BY <1>2, Zenon DEF Command, Reading
  <2> QED BY <2>1 DEF Apply, Alters, Data
<1> QED BY <1>1, <1>2

LEMMA AlteredRows ==
  ASSUME layout = "rows", NEW d \in Data, NEW cmd \in Command,
         NEW tab \in {"hooks", "tokens", "waits"}, Alters(cmd, tab)
  PROVE  LET D == Apply(d, cmd) IN
         /\ cmd.op = "put" => D[tab] = Append(d[tab], cmd.v)
         /\ cmd.op = "set" => D[tab] = updateRow(d[tab], cmd.at, cmd.v, Blank)
         /\ cmd.op = "del" => D[tab] = deleteRow(d[tab], cmd.at, Blank)
<1>1. CASE cmd.op = "put"
  <2>1. Apply(d, cmd) = [d EXCEPT ![cmd.x] = Append(d[cmd.x], cmd.v)]
    BY <1>1 DEF Apply
  <2> QED BY <1>1, <2>1 DEF Alters, Data
<1>2. CASE cmd.op = "set"
  <2>1. Apply(d, cmd) = [d EXCEPT ![cmd.x] = updateRow(d[cmd.x], cmd.at, cmd.v, Blank)]
    BY <1>2 DEF Apply
  <2> QED BY <1>2, <2>1 DEF Alters, Data
<1>3. CASE cmd.op = "del"
  <2>1. Apply(d, cmd) = [d EXCEPT ![cmd.x] = deleteRow(d[cmd.x], cmd.at, Blank)]
    BY <1>3 DEF Apply
  <2> QED BY <1>3, <2>1 DEF Alters, Data
<1> QED BY <1>1, <1>2, <1>3 DEF Alters

LEMMA AlteredKeys ==
  ASSUME layout = "keys", NEW d \in Data, NEW cmd \in Command,
         NEW tab \in {"hooks", "tokens", "waits"}, Alters(cmd, tab)
  PROVE  LET D == Apply(d, cmd) IN
         /\ cmd.op = "del" => D[tab] = Without(d, tab, cmd.v.x)
         /\ cmd.op # "del" => D[tab] = Append(Without(d, tab, cmd.v.x), cmd.v)
<1>1. CASE cmd.op = "del"
  <2>1. Apply(d, cmd) = [d EXCEPT ![cmd.x] = Without(d, cmd.x, cmd.v.x)]
    BY <1>1 DEF Apply
  <2> QED BY <1>1, <2>1 DEF Alters, Data
<1>2. CASE cmd.op # "del"
  <2>1. Apply(d, cmd) = [d EXCEPT ![cmd.x] = Append(Without(d, cmd.x, cmd.v.x), cmd.v)]
    BY <1>2 DEF Apply, Alters
  <2> QED BY <1>2, <2>1 DEF Alters, Data
<1> QED BY <1>1, <1>2

Rows(tab) == IF tab = "waits" THEN WaitRow ELSE HookRow

LEMMA TableOf ==
  ASSUME NEW d \in Data, NEW tab \in {"hooks", "tokens", "waits"}
  PROVE  d[tab] \in Seq(Rows(tab)) /\ Blank \in Rows(tab)
BY BlankTyped DEF Data, Rows

LEMMA CmdRow ==
  ASSUME NEW cmd \in Command, NEW tab, Alters(cmd, tab)
  PROVE  /\ tab \in {"hooks", "tokens", "waits"}
         /\ cmd.v \in Rows(tab) /\ cmd.at \in Nat /\ (cmd.op # "put" => cmd.at # 0)
         /\ cmd.v.x # None => cmd.v.x \in (IF tab = "waits" THEN Wait ELSE Hook)
BY Zenon DEF Alters, Command, Rows, HookRow, WaitRow

(* The row is the one that was read.                                       *)
Hits(d, cmd, tab) == cmd.at \in DOMAIN d[tab] /\ d[tab][cmd.at].x = cmd.v.x

LEMMA RowsEffect ==
  ASSUME layout = "rows", NEW d \in Data, NEW cmd \in Command, NEW tab, Alters(cmd, tab),
         cmd.v.x # None
  PROVE  LET old == d[tab]
             new == Apply(d, cmd)[tab] IN
         /\ cmd.op = "put" => \A g :
              /\ In(new, g) <=> In(old, g) \/ cmd.v.x = g
              /\ One(old, g) /\ (cmd.v.x = g => ~In(old, g)) => One(new, g)
         /\ cmd.op = "set" /\ Hits(d, cmd, tab) => \A g : g # None =>
              (In(new, g) <=> In(old, g)) /\ (One(new, g) <=> One(old, g))
         /\ cmd.op = "del" => \A g : g # None =>
              /\ In(new, g) => In(old, g)
              /\ One(old, g) => One(new, g)
         /\ cmd.op = "del" /\ Hits(d, cmd, tab) => \A g : g # None =>
              /\ g # cmd.v.x => (In(new, g) <=> In(old, g)) /\ (One(new, g) <=> One(old, g))
              /\ One(old, cmd.v.x) => ~In(new, cmd.v.x)
         /\ cmd.op = "del" => \E k : \A g : g # None /\ g # k =>
              (In(new, g) <=> In(old, g)) /\ (One(new, g) <=> One(old, g))
<1> DEFINE old == d[tab]
           new == Apply(d, cmd)[tab]
           v == cmd.v
           n == cmd.at
           S == Rows(tab)
<1>1. /\ tab \in {"hooks", "tokens", "waits"} /\ v \in S /\ n \in Nat /\ (cmd.op # "put" => n # 0)
      /\ old \in Seq(S) /\ Blank \in S
  BY CmdRow, TableOf
<1>2. /\ cmd.op = "put" => new = Append(old, v)
      /\ cmd.op = "set" => new = updateRow(old, n, v, Blank)
      /\ cmd.op = "del" => new = deleteRow(old, n, Blank)
  BY <1>1, AlteredRows
<1>3. Hits(d, cmd, tab) <=> n \in DOMAIN old /\ old[n].x = v.x
  BY DEF Hits
<1>4. v.x # None
  OBVIOUS
<1> HIDE DEF old, new, v, n, S
<1>5. ASSUME cmd.op = "put", NEW g
      PROVE  /\ In(new, g) <=> In(old, g) \/ v.x = g
             /\ One(old, g) /\ (v.x = g => ~In(old, g)) => One(new, g)
  BY <1>1, <1>2, <1>5, Appended
<1>6. ASSUME cmd.op = "set", Hits(d, cmd, tab), NEW g, g # None
      PROVE  (In(new, g) <=> In(old, g)) /\ (One(new, g) <=> One(old, g))
  BY <1>1, <1>2, <1>3, <1>6, RowSet
<1>7. ASSUME cmd.op = "del", NEW g, g # None
      PROVE  /\ In(new, g) => In(old, g)
             /\ One(old, g) => One(new, g)
             /\ ~(n \in DOMAIN old /\ old[n].x = g) =>
                  (In(new, g) <=> In(old, g)) /\ (One(new, g) <=> One(old, g))
             /\ n \in DOMAIN old /\ old[n].x = g /\ One(old, g) => ~In(new, g)
  <2>1. n \in Nat \ {0} /\ new = deleteRow(old, n, Blank)
    BY <1>1, <1>2, <1>7
  <2> QED BY <1>1, <1>7, <2>1, RowGone
<1>8. ASSUME cmd.op = "del", Hits(d, cmd, tab), NEW g, g # None
      PROVE  /\ g # v.x => (In(new, g) <=> In(old, g)) /\ (One(new, g) <=> One(old, g))
             /\ One(old, v.x) => ~In(new, v.x)
  BY <1>3, <1>4, <1>7, <1>8
<1>9. ASSUME cmd.op = "del"
      PROVE  \E k : \A g : g # None /\ g # k =>
               (In(new, g) <=> In(old, g)) /\ (One(new, g) <=> One(old, g))
  <2>1. \A g : g # None /\ g # old[n].x =>
          (In(new, g) <=> In(old, g)) /\ (One(new, g) <=> One(old, g))
    BY <1>7, <1>9
  <2> QED BY <2>1
<1> QED BY <1>5, <1>6, <1>7, <1>8, <1>9 DEF old, new, v

LEMMA KeysEffect ==
  ASSUME layout = "keys", NEW d \in Data, NEW cmd \in Command, NEW tab, Alters(cmd, tab),
         cmd.v.x # None, PerKey(d[tab], tab)
  PROVE  LET old == d[tab]
             new == Apply(d, cmd)[tab] IN
         /\ PerKey(new, tab)
         /\ cmd.op = "del" => \A g :
              In(new, g) <=> In(old, g) /\ Key(tab, g) # Key(tab, cmd.v.x)
         /\ cmd.op # "del" => \A g :
              In(new, g) <=> g = cmd.v.x \/ (In(old, g) /\ Key(tab, g) # Key(tab, cmd.v.x))
<1> DEFINE S == Rows(tab)
           v == cmd.v
           new == Apply(d, cmd)[tab]
<1>1. tab \in {"hooks", "tokens", "waits"} /\ v \in S /\ d[tab] \in Seq(S)
  BY CmdRow, TableOf
<1>2. /\ cmd.op = "del" => new = Without(d, tab, v.x)
      /\ cmd.op # "del" => new = Append(Without(d, tab, v.x), v)
  BY <1>1, AlteredKeys
<1>3. v.x # None
  OBVIOUS
<1> HIDE DEF S, v, new
<1>4. CASE cmd.op = "del"
  <2>1. PerKey(new, tab) /\ \A g : In(new, g) <=> In(d[tab], g) /\ Key(tab, g) # Key(tab, v.x)
    BY <1>1, <1>2, <1>4, KeyGone
  <2> QED BY <1>4, <2>1 DEF v, new
<1>5. CASE cmd.op # "del"
  <2>1. PerKey(new, tab) /\ \A g : In(new, g) <=> g = v.x \/ (In(d[tab], g) /\ Key(tab, g) # Key(tab, v.x))
    BY <1>1, <1>2, <1>3, <1>5, KeyPut
  <2> QED BY <1>5, <2>1 DEF v, new
<1> QED BY <1>4, <1>5

-----------------------------------------------------------------------------
(* Hooks with their claims.                                                *)

(* One row of each, or neither, but in the gap: then the claim alone.      *)
EvenIn(d, h, open) ==
  /\ One(d.hooks, h) /\ One(d.tokens, h)
  /\ In(d.tokens, h) <=> In(d.hooks, h) \/ open
  /\ In(d.hooks, h) => ~open
Odd(d, O) == {h \in Hook : ~EvenIn(d, h, h \in O)}

(* A hook whose rows stay as they are.                                     *)
LEMMA StaysEven ==
  ASSUME NEW d, NEW D, NEW h, NEW open, EvenIn(d, h, open),
         In(D.hooks, h) <=> In(d.hooks, h), One(d.hooks, h) => One(D.hooks, h),
         In(D.tokens, h) <=> In(d.tokens, h), One(d.tokens, h) => One(D.tokens, h)
  PROVE  EvenIn(D, h, open)
BY DEF EvenIn

(* The gap after a command.                                                *)
Gap(cmd, O, P) ==
  \A h \in Hook :
    /\ h \in P <=> Opens(cmd, h) \/ (h \in O /\ ~Shuts(cmd, h))
    /\ Shuts(cmd, h) => h \in O
    /\ Opens(cmd, h) => h \notin O

LEMMA OddCalm ==
  ASSUME layout \in {"keys", "rows"}, NEW d \in Data, NEW cmd \in Command,
         cmd.op \notin Reading, NEW O, NEW P, Gap(cmd, O, P),
         ~Alters(cmd, "hooks"), ~Alters(cmd, "tokens")
  PROVE  Odd(Apply(d, cmd), P) \subseteq Odd(d, O)
<1> DEFINE D == Apply(d, cmd)
<1>1. D.hooks = d.hooks /\ D.tokens = d.tokens
  BY TablesAfter
<1>2. \A h \in Hook : ~Opens(cmd, h) /\ ~Shuts(cmd, h)
  BY DEF Opens, Shuts, Alters, Reading
<1>3. \A h \in Hook : h \in P <=> h \in O
  BY <1>2 DEF Gap
<1> HIDE DEF D
<1>4. \A h \in Hook : EvenIn(d, h, h \in O) => EvenIn(D, h, h \in P)
  BY <1>1, <1>3 DEF EvenIn
<1> QED BY <1>4 DEF Odd, D

(* A command about h, in a table: what it does to h itself.                *)
LEMMA OddRows ==
  ASSUME layout = "rows", NEW d \in Data, NEW cmd \in Command,
         NEW tab \in {"hooks", "tokens"}, Alters(cmd, tab), cmd.v.x # None, cmd.op # "set",
         NEW O, NEW P, Gap(cmd, O, P)
  PROVE  IF Harms(d, cmd)
         THEN \E k : Odd(Apply(d, cmd), P) \subseteq Odd(d, O) \union {cmd.v.x, k}
         ELSE Odd(Apply(d, cmd), P) \subseteq Odd(d, O)
<1> DEFINE D == Apply(d, cmd)
           h == cmd.v.x
           old == d[tab]
           new == D[tab]
           V == Odd(D, P)
           U == Odd(d, O)
<1>1. h \in Hook /\ cmd.op \in {"put", "del"}
  BY CmdRow DEF Alters
<1>2. \A g \in Hook : g # h => (g \in P <=> g \in O)
  BY <1>1 DEF Gap, Opens, Shuts, Alters
<1>3. \A g \in Hook : g # None
  BY KindOf
<1>4. /\ tab = "hooks" => D.tokens = d.tokens /\ old = d.hooks /\ new = D.hooks
      /\ tab = "tokens" => D.hooks = d.hooks /\ old = d.tokens /\ new = D.tokens
  <2>1. cmd.op \notin Reading /\ (tab = "hooks" => ~Alters(cmd, "tokens"))
        /\ (tab = "tokens" => ~Alters(cmd, "hooks"))
    BY <1>1 DEF Alters, Reading
  <2> QED BY <2>1, TablesAfter
<1>5. /\ cmd.op = "put" => \A g :
           /\ In(new, g) <=> In(old, g) \/ h = g
           /\ One(old, g) /\ (h = g => ~In(old, g)) => One(new, g)
      /\ cmd.op = "del" /\ Hits(d, cmd, tab) => \A g : g # None =>
           /\ g # h => (In(new, g) <=> In(old, g)) /\ (One(new, g) <=> One(old, g))
           /\ One(old, h) => ~In(new, h)
      /\ cmd.op = "del" => \A g : g # None => (One(old, g) => One(new, g))
      /\ cmd.op = "del" => \E k : \A g : g # None /\ g # k =>
           (In(new, g) <=> In(old, g)) /\ (One(new, g) <=> One(old, g))
  BY RowsEffect
<1>6. Harms(d, cmd) <=> \/ cmd.op = "del" /\ ~Hits(d, cmd, tab)
                        \/ cmd.op = "put" /\ tab = "tokens" /\ Taken(d, h)
  BY <1>1 DEF Harms, Hits, Alters
<1>7. cmd.op = "del" /\ Hits(d, cmd, tab) => In(old, h)
  BY DEF Hits, In
<1>8. ASSUME In(d.tokens, h)
      PROVE  Taken(d, h)
  BY <1>1, <1>3, <1>8 DEF In, Taken
<1>9. h \in P <=> (tab = "hooks" /\ cmd.op = "del") \/ (tab = "tokens" /\ cmd.op = "put")
  BY <1>1 DEF Gap, Opens, Shuts, Alters
<1>10. h \in O <=> ~(h \in P)
  BY <1>1, <1>9 DEF Gap, Opens, Shuts, Alters
<1> HIDE DEF D, old, new, h
(* Others whose rows stay.                                                 *)
<1>11. ASSUME NEW g \in Hook, g # h, EvenIn(d, g, g \in O),
              In(new, g) <=> In(old, g), One(old, g) => One(new, g)
       PROVE  EvenIn(D, g, g \in P)
  BY <1>2, <1>4, <1>11 DEF EvenIn
<1>12. CASE ~Harms(d, cmd)
  <2>1. ASSUME NEW g \in Hook, EvenIn(d, g, g \in O), g # h
        PROVE  EvenIn(D, g, g \in P)
    <3>1. (In(new, g) <=> In(old, g)) /\ (One(old, g) => One(new, g))
      BY <1>1, <1>3, <1>5, <1>6, <1>12, <2>1
    <3> QED BY <1>11, <2>1, <3>1
  <2>2. ASSUME EvenIn(d, h, h \in O)
        PROVE  EvenIn(D, h, h \in P)
    <3>1. CASE cmd.op = "put" /\ tab = "hooks"
      <4>1. In(d.tokens, h) /\ ~In(d.hooks, h) /\ One(d.tokens, h) /\ One(d.hooks, h)
        BY <1>9, <1>10, <2>2, <3>1 DEF EvenIn
      <4>2. In(D.hooks, h) /\ One(D.hooks, h) /\ D.tokens = d.tokens
        BY <1>4, <1>5, <3>1, <4>1
      <4> QED BY <1>9, <3>1, <4>1, <4>2 DEF EvenIn
    <3>2. CASE cmd.op = "put" /\ tab = "tokens"
      <4>1. ~In(d.tokens, h) /\ ~In(d.hooks, h) /\ One(d.tokens, h) /\ One(d.hooks, h)
        BY <1>6, <1>8, <1>12, <2>2, <3>2 DEF EvenIn
      <4>2. In(D.tokens, h) /\ One(D.tokens, h) /\ D.hooks = d.hooks
        BY <1>4, <1>5, <3>2, <4>1
      <4> QED BY <1>9, <3>2, <4>1, <4>2 DEF EvenIn
    <3>3. CASE cmd.op = "del" /\ tab = "hooks"
      <4>1. Hits(d, cmd, tab)
        BY <1>6, <1>12, <3>3
      <4>2. In(d.tokens, h) /\ One(d.tokens, h) /\ One(d.hooks, h)
        BY <1>4, <1>7, <2>2, <3>3, <4>1 DEF EvenIn
      <4>3. ~In(D.hooks, h) /\ One(D.hooks, h) /\ D.tokens = d.tokens
        BY <1>1, <1>3, <1>4, <1>5, <3>3, <4>1, <4>2
      <4> QED BY <1>9, <3>3, <4>2, <4>3 DEF EvenIn
    <3>4. CASE cmd.op = "del" /\ tab = "tokens"
      <4>1. Hits(d, cmd, tab)
        BY <1>6, <1>12, <3>4
      <4>2. ~In(d.hooks, h) /\ One(d.tokens, h) /\ One(d.hooks, h)
        BY <1>9, <1>10, <2>2, <3>4 DEF EvenIn
      <4>3. ~In(D.tokens, h) /\ One(D.tokens, h) /\ D.hooks = d.hooks
        BY <1>1, <1>3, <1>4, <1>5, <3>4, <4>1, <4>2
      <4> QED BY <1>9, <3>4, <4>2, <4>3 DEF EvenIn
    <3> QED BY <1>1, <3>1, <3>2, <3>3, <3>4
  <2>3. V \subseteq U
    BY <2>1, <2>2 DEF Odd
  <2> QED BY <1>12, <2>3 DEF D
<1>13. CASE Harms(d, cmd)
  <2>1. PICK k : \A g \in Hook : g # h /\ g # k =>
                   (In(new, g) <=> In(old, g)) /\ (One(old, g) => One(new, g))
    <3>1. CASE cmd.op = "put"
      BY <1>5, <3>1
    <3>2. CASE cmd.op = "del"
      BY <1>3, <1>5, <3>2
    <3> QED BY <1>1, <3>1, <3>2
  <2>2. \A g \in Hook : g # h /\ g # k /\ EvenIn(d, g, g \in O) => EvenIn(D, g, g \in P)
    BY <1>11, <2>1
  <2>3. V \subseteq U \union {h, k}
    BY <2>2 DEF Odd
  <2> QED BY <1>13, <2>3 DEF D, h
<1> QED BY <1>12, <1>13

LEMMA OddKeys ==
  ASSUME layout = "keys", NEW d \in Data, NEW cmd \in Command,
         NEW tab \in {"hooks", "tokens"}, Alters(cmd, tab), cmd.v.x # None, cmd.op # "set",
         PerKey(d.hooks, "hooks"), PerKey(d.tokens, "tokens"),
         cmd.op = "del" => (tab = "hooks" <=> In(d.hooks, cmd.v.x)),
         NEW O, NEW P, Gap(cmd, O, P)
  PROVE  LET V == Odd(Apply(d, cmd), P)
             U == Odd(d, O) IN
         \/ V \subseteq U
         \/ Harms(d, cmd) /\ \E k : V \subseteq U \union {k}
         \/ \E h \in U : \E k : V \subseteq (U \ {h}) \union {k}
<1> DEFINE D == Apply(d, cmd)
           h == cmd.v.x
           old == d[tab]
           new == D[tab]
           V == Odd(D, P)
           U == Odd(d, O)
<1>1. h \in Hook /\ cmd.op \in {"put", "del"}
  BY CmdRow DEF Alters
<1>2. \A g \in Hook : g # h => (g \in P <=> g \in O)
  BY <1>1 DEF Gap, Opens, Shuts, Alters
<1>3. \A g \in Hook : g # None
  BY KindOf
<1>4. /\ tab = "hooks" => D.tokens = d.tokens /\ old = d.hooks /\ new = D.hooks
      /\ tab = "tokens" => D.hooks = d.hooks /\ old = d.tokens /\ new = D.tokens
  <2>1. cmd.op \notin Reading /\ (tab = "hooks" => ~Alters(cmd, "tokens"))
        /\ (tab = "tokens" => ~Alters(cmd, "hooks"))
    BY <1>1 DEF Alters, Reading
  <2> QED BY <2>1, TablesAfter
<1>5. /\ PerKey(new, tab)
      /\ cmd.op = "del" => \A g : In(new, g) <=> In(old, g) /\ Key(tab, g) # Key(tab, h)
      /\ cmd.op # "del" => \A g : In(new, g) <=> g = h \/ (In(old, g) /\ Key(tab, g) # Key(tab, h))
  <2>1. PerKey(old, tab)
    BY <1>4
  <2> QED BY <2>1, KeysEffect
<1>6. Harms(d, cmd) <=> cmd.op = "put" /\ tab = "tokens" /\ Taken(d, h)
  BY <1>1 DEF Harms, Alters
<1>8. ASSUME NEW g \in Hook, In(d.tokens, g), HookToken[g] = HookToken[h]
      PROVE  Taken(d, h)
  BY <1>3, <1>8 DEF In, Taken
<1>9. h \in P <=> (tab = "hooks" /\ cmd.op = "del") \/ (tab = "tokens" /\ cmd.op = "put")
  BY <1>1 DEF Gap, Opens, Shuts, Alters
<1>10. h \in O <=> ~(h \in P)
  BY <1>1, <1>9 DEF Gap, Opens, Shuts, Alters
<1>14. /\ \A g : Key("hooks", g) = g
       /\ \A g \in Hook : Key("tokens", g) = HookToken[g]
  BY <1>3 DEF Key
<1>15. /\ \A g : One(d.hooks, g) /\ One(d.tokens, g)
       /\ \A g : One(D.hooks, g) /\ One(D.tokens, g)
  BY <1>4, <1>5, KeyOne
(* At most one claim per token.                                            *)
<1>16. \A f, g \in Hook : In(d.tokens, f) /\ In(d.tokens, g) /\ HookToken[f] = HookToken[g] => f = g
  BY <1>14 DEF In, PerKey
<1>17. cmd.op = "del" => (tab = "hooks" <=> In(d.hooks, h))
  OBVIOUS
<1> HIDE DEF D, old, new, h
<1>11. ASSUME NEW g \in Hook, g # h, EvenIn(d, g, g \in O), In(new, g) <=> In(old, g)
       PROVE  EvenIn(D, g, g \in P)
  BY <1>2, <1>4, <1>11, <1>15 DEF EvenIn
<1>12. CASE tab = "hooks"
  <2>1. \A g \in Hook : g # h => (In(new, g) <=> In(old, g))
    BY <1>1, <1>5, <1>12, <1>14
  <2>2. ASSUME EvenIn(d, h, h \in O)
        PROVE  EvenIn(D, h, h \in P)
    <3>1. CASE cmd.op = "put"
      <4>1. In(d.tokens, h) /\ In(D.hooks, h) /\ D.tokens = d.tokens
        BY <1>4, <1>5, <1>9, <1>10, <1>12, <2>2, <3>1 DEF EvenIn
      <4> QED BY <1>9, <1>12, <1>15, <3>1, <4>1 DEF EvenIn
    <3>2. CASE cmd.op = "del"
      <4>1. In(d.tokens, h) /\ ~In(D.hooks, h) /\ D.tokens = d.tokens
        BY <1>4, <1>5, <1>12, <1>17, <2>2, <3>2 DEF EvenIn
      <4> QED BY <1>9, <1>12, <1>15, <3>2, <4>1 DEF EvenIn
    <3> QED BY <1>1, <3>1, <3>2
  <2>3. V \subseteq U
    BY <1>11, <2>1, <2>2 DEF Odd
  <2> QED BY <2>3 DEF D
<1>13. CASE tab = "tokens"
  <2>1. \A g \in Hook : g # h => (In(new, g) <=> In(old, g) /\ HookToken[g] # HookToken[h])
    BY <1>1, <1>5, <1>13, <1>14
  <2>2. D.hooks = d.hooks /\ old = d.tokens /\ new = D.tokens
    BY <1>4, <1>13
  <2>3. CASE \E k \in Hook : k # h /\ In(d.tokens, k) /\ HookToken[k] = HookToken[h]
    <3>1. PICK k \in Hook : k # h /\ In(d.tokens, k) /\ HookToken[k] = HookToken[h]
      BY <2>3
    <3>2. \A g \in Hook : In(d.tokens, g) /\ HookToken[g] = HookToken[h] => g = k
      BY <1>16, <3>1
    <3>3. ~In(d.tokens, h)
      BY <1>1, <3>1, <3>2 DEF h
    <3>4. \A g \in Hook : g # h /\ g # k => (In(new, g) <=> In(old, g))
      BY <2>1, <2>2, <3>2
    <3>5. CASE cmd.op = "put"
      <4>1. Harms(d, cmd)
        BY <1>6, <1>8, <1>13, <3>1, <3>5
      <4>2. ASSUME EvenIn(d, h, h \in O)
            PROVE  EvenIn(D, h, h \in P)
        <5>1. ~In(D.hooks, h) /\ In(D.tokens, h)
          BY <1>5, <2>2, <3>3, <3>5, <4>2 DEF EvenIn
        <5> QED BY <1>9, <1>13, <1>15, <3>5, <5>1 DEF EvenIn
      <4>3. V \subseteq U \union {k}
        BY <1>11, <3>4, <4>2 DEF Odd
      <4> QED BY <4>1, <4>3 DEF D
    <3>6. CASE cmd.op = "del"
      <4>1. ~In(D.hooks, h) /\ ~In(D.tokens, h)
        BY <1>5, <1>13, <1>17, <2>2, <3>6
      <4>2. EvenIn(D, h, h \in P)
        BY <1>9, <1>13, <1>15, <3>6, <4>1 DEF EvenIn
      <4>3. ~EvenIn(d, h, h \in O)
        BY <1>9, <1>10, <1>13, <3>3, <3>6 DEF EvenIn
      <4>4. V \subseteq (U \ {h}) \union {k}
        BY <1>11, <3>4, <4>2 DEF Odd
      <4>5. h \in U
        BY <1>1, <4>3 DEF Odd, h
      <4> QED BY <4>4, <4>5 DEF D
    <3> QED BY <1>1, <3>5, <3>6
  <2>4. CASE ~\E k \in Hook : k # h /\ In(d.tokens, k) /\ HookToken[k] = HookToken[h]
    <3>1. \A g \in Hook : g # h => (In(new, g) <=> In(old, g))
      BY <2>1, <2>2, <2>4
    <3>2. \A g \in Hook : g # h /\ EvenIn(d, g, g \in O) => EvenIn(D, g, g \in P)
      BY <1>11, <3>1
    <3>3. CASE cmd.op = "put" /\ Harms(d, cmd)
      <4>1. V \subseteq U \union {h}
        BY <3>2 DEF Odd
      <4> QED BY <3>3, <4>1 DEF D
    <3>4. CASE cmd.op = "put" /\ ~Harms(d, cmd)
      <4>1. ~In(d.tokens, h)
        BY <1>1, <1>6, <1>8, <1>13, <3>4 DEF h
      <4>2. ASSUME EvenIn(d, h, h \in O)
            PROVE  EvenIn(D, h, h \in P)
        <5>1. ~In(D.hooks, h) /\ In(D.tokens, h)
          BY <1>5, <2>2, <4>1, <3>4, <4>2 DEF EvenIn
        <5> QED BY <1>9, <1>13, <1>15, <3>4, <5>1 DEF EvenIn
      <4>3. V \subseteq U
        BY <3>2, <4>2 DEF Odd
      <4> QED BY <4>3 DEF D
    <3>5. CASE cmd.op = "del"
      <4>1. ~In(D.hooks, h) /\ ~In(D.tokens, h)
        BY <1>5, <1>13, <1>17, <2>2, <3>5
      <4>2. EvenIn(D, h, h \in P)
        BY <1>9, <1>13, <1>15, <3>5, <4>1 DEF EvenIn
      <4>3. V \subseteq U
        BY <3>2, <4>2 DEF Odd
      <4> QED BY <4>3 DEF D
    <3> QED BY <1>1, <3>3, <3>4, <3>5
  <2> QED BY <2>3, <2>4
<1> QED BY <1>12, <1>13

(* Hooks one fault may unpair: a stray write hits a row of another too.    *)
Allowed == IF layout = "keys" THEN 1 ELSE 2

LEMMA Smaller ==
  ASSUME NEW U, IsFiniteSet(U), NEW V, V \subseteq U
  PROVE  /\ IsFiniteSet(V) /\ Cardinality(V) \in Nat /\ Cardinality(U) \in Nat
         /\ Cardinality(V) <= Cardinality(U)
<1>1. IsFiniteSet(V) /\ Cardinality(V) <= Cardinality(U)
  BY FS_Subset
<1>2. Cardinality(V) \in Nat /\ Cardinality(U) \in Nat
  BY <1>1, FS_CardinalityType
<1> QED BY <1>1, <1>2

LEMMA OneMore ==
  ASSUME NEW U, IsFiniteSet(U), NEW V, NEW k, V \subseteq U \union {k}
  PROVE  Cardinality(V) <= Cardinality(U) + 1
<1>1. /\ IsFiniteSet(U \union {k})
      /\ Cardinality(U \union {k}) = IF k \in U THEN Cardinality(U) ELSE Cardinality(U) + 1
  BY FS_AddElement
<1>2. /\ Cardinality(V) \in Nat /\ Cardinality(U \union {k}) \in Nat
      /\ Cardinality(V) <= Cardinality(U \union {k})
  BY <1>1, Smaller
<1>3. Cardinality(U) \in Nat
  BY FS_CardinalityType
<1>4. Cardinality(U \union {k}) <= Cardinality(U) + 1
  BY <1>1, <1>3
<1> QED BY <1>2, <1>3, <1>4

LEMMA TwoMore ==
  ASSUME NEW U, IsFiniteSet(U), NEW V, NEW h, NEW k, V \subseteq U \union {h, k}
  PROVE  Cardinality(V) <= Cardinality(U) + 2
<1> DEFINE W == U \union {h}
<1>1. IsFiniteSet(W) /\ Cardinality(W) <= Cardinality(U) + 1
  BY FS_AddElement, OneMore
<1>2. V \subseteq W \union {k}
  OBVIOUS
<1>3. Cardinality(V) <= Cardinality(W) + 1
  BY <1>1, <1>2, OneMore
<1>4. IsFiniteSet(V)
  <2>1. IsFiniteSet(W \union {k})
    BY <1>1, FS_AddElement
  <2> QED BY <1>2, <2>1, FS_Subset
<1> HIDE DEF W
<1>5. Cardinality(V) \in Nat /\ Cardinality(W) \in Nat /\ Cardinality(U) \in Nat
  BY <1>1, <1>4, FS_CardinalityType
<1> QED BY <1>1, <1>3, <1>5

LEMMA Swapped ==
  ASSUME NEW U, IsFiniteSet(U), NEW V, NEW h \in U, NEW k, V \subseteq (U \ {h}) \union {k}
  PROVE  Cardinality(V) <= Cardinality(U)
<1> DEFINE W == U \ {h}
<1>1. IsFiniteSet(W) /\ Cardinality(W) = Cardinality(U) - 1
  BY FS_RemoveElement
<1>2. Cardinality(V) <= Cardinality(W) + 1
  BY <1>1, OneMore
<1>3. IsFiniteSet(V)
  <2>1. IsFiniteSet(W \union {k})
    BY <1>1, FS_AddElement
  <2> QED BY <2>1, FS_Subset
<1> HIDE DEF W
<1>4. Cardinality(V) \in Nat /\ Cardinality(W) \in Nat /\ Cardinality(U) \in Nat
  BY <1>1, <1>3, FS_CardinalityType
<1> QED BY <1>1, <1>2, <1>4

LEMMA OddFinite ==
  \A d, O : IsFiniteSet(Odd(d, O)) /\ Cardinality(Odd(d, O)) \in Nat
<1> SUFFICES ASSUME NEW d, NEW O
             PROVE  IsFiniteSet(Odd(d, O)) /\ Cardinality(Odd(d, O)) \in Nat
  OBVIOUS
<1>1. Odd(d, O) \subseteq Hook /\ IsFiniteSet(Hook)
  BY PolledStoreAssumption DEF Odd
<1> QED BY <1>1, Smaller

(* One write sets as many hooks at odds with their claims as it may.       *)
LEMMA OddAfter ==
  ASSUME layout \in {"keys", "rows"}, NEW d \in Data, NEW cmd \in Command,
         cmd.op \notin Reading, NEW r, Fits(cmd, r),
         layout = "keys" =>
           /\ PerKey(d.hooks, "hooks") /\ PerKey(d.tokens, "tokens")
           /\ cmd.op = "del" /\ cmd.x = "hooks" => In(d.hooks, cmd.v.x)
           /\ cmd.op = "del" /\ cmd.x = "tokens" => ~In(d.hooks, cmd.v.x),
         NEW O, NEW P, Gap(cmd, O, P)
  PROVE  Cardinality(Odd(Apply(d, cmd), P)) <=
           Cardinality(Odd(d, O)) + (IF Harms(d, cmd) THEN Allowed ELSE 0)
<1> DEFINE V == Odd(Apply(d, cmd), P)
           U == Odd(d, O)
           more == IF Harms(d, cmd) THEN Allowed ELSE 0
<1>1. /\ IsFiniteSet(U) /\ IsFiniteSet(V)
      /\ Cardinality(U) \in Nat /\ Cardinality(V) \in Nat
  BY OddFinite
<1>2. more \in Nat
  BY DEF Allowed
<1>3. ASSUME V \subseteq U
      PROVE  Cardinality(V) <= Cardinality(U) + more
  <2>1. Cardinality(V) <= Cardinality(U)
    BY <1>1, <1>3, Smaller
  <2> HIDE DEF U, V, more
  <2> QED BY <1>1, <1>2, <2>1
<1>4. CASE ~Alters(cmd, "hooks") /\ ~Alters(cmd, "tokens")
  BY <1>3, <1>4, OddCalm
<1>5. ASSUME NEW tab \in {"hooks", "tokens"}, Alters(cmd, tab)
      PROVE  Cardinality(V) <= Cardinality(U) + more
  <2>1. cmd.v.x # None /\ cmd.op # "set" /\ cmd.x = tab
    BY <1>5 DEF Fits, Alters
  <2>2. CASE layout = "rows"
    <3>1. IF Harms(d, cmd) THEN \E k : V \subseteq U \union {cmd.v.x, k} ELSE V \subseteq U
      BY <1>5, <2>1, <2>2, OddRows
    <3>2. CASE Harms(d, cmd)
      <4>1. PICK k : V \subseteq U \union {cmd.v.x, k}
        BY <3>1, <3>2
      <4>2. Cardinality(V) <= Cardinality(U) + 2
        BY <1>1, <4>1, TwoMore
      <4>3. more = 2
        BY <2>2, <3>2 DEF Allowed
      <4> QED BY <4>2, <4>3
    <3>3. CASE ~Harms(d, cmd)
      BY <1>3, <3>1, <3>3
    <3> QED BY <3>2, <3>3
  <2>3. CASE layout = "keys"
    <3>0. cmd.op = "del" => (tab = "hooks" <=> In(d.hooks, cmd.v.x))
      BY <2>1, <2>3
    <3>1. \/ V \subseteq U
          \/ Harms(d, cmd) /\ \E k : V \subseteq U \union {k}
          \/ \E h \in U : \E k : V \subseteq (U \ {h}) \union {k}
      BY <1>5, <2>1, <2>3, <3>0, OddKeys, SMTT(40)
    <3>2. CASE V \subseteq U
      BY <1>3, <3>2
    <3>3. CASE Harms(d, cmd) /\ \E k : V \subseteq U \union {k}
      <4>1. PICK k : V \subseteq U \union {k}
        BY <3>3
      <4>2. Cardinality(V) <= Cardinality(U) + 1
        BY <1>1, <4>1, OneMore
      <4>3. more = 1
        BY <2>3, <3>3 DEF Allowed
      <4> QED BY <4>2, <4>3
    <3>4. CASE \E h \in U : \E k : V \subseteq (U \ {h}) \union {k}
      <4>1. PICK h \in U : \E k : V \subseteq (U \ {h}) \union {k}
        BY <3>4
      <4>2. PICK k : V \subseteq (U \ {h}) \union {k}
        BY <4>1
      <4>3. Cardinality(V) <= Cardinality(U)
        BY <1>1, <4>2, Swapped
      <4> HIDE DEF U, V, more
      <4> QED BY <1>1, <1>2, <4>3
    <3> QED BY <3>1, <3>2, <3>3, <3>4
  <2> QED BY <2>2, <2>3
<1> QED BY <1>4, <1>5

(* A table after a write that hits what it is meant for.                   *)
LEMMA TableAfter ==
  ASSUME layout \in {"keys", "rows"}, NEW d \in Data, NEW cmd \in Command,
         cmd.op \notin Reading, NEW r, Fits(cmd, r),
         NEW tab \in {"hooks", "waits"}, NEW x \in Hook \union Wait,
         layout = "rows" => ~Harms(d, cmd),
         layout = "keys" => PerKey(d[tab], tab)
  PROVE  LET old == d[tab]
             new == Apply(d, cmd)[tab]
             hit == Alters(cmd, tab) /\ cmd.v.x = x IN
         /\ In(new, x) => In(old, x) \/ (hit /\ cmd.op \in {"put", "set"})
         /\ In(old, x) => In(new, x) \/ (hit /\ cmd.op = "del")
         /\ hit /\ cmd.op = "del" /\ One(old, x) => ~In(new, x)
         /\ One(old, x) /\ (hit /\ cmd.op = "put" => ~In(old, x)) => One(new, x)
         /\ layout = "keys" => PerKey(new, tab)
<1> DEFINE old == d[tab]
           new == Apply(d, cmd)[tab]
<1>1. x # None
  BY KindOf
<1>2. CASE ~Alters(cmd, tab)
  <2>1. new = old
    <3>1. CASE tab = "hooks"
      BY <1>2, <3>1, TablesAfter
    <3>2. CASE tab = "waits"
      BY <1>2, <3>2, TablesAfter
    <3> QED BY <3>1, <3>2
  <2> HIDE DEF old, new
  <2> QED BY <1>2, <2>1 DEF old, new
<1>3. CASE Alters(cmd, tab)
  <2>1. cmd.v.x # None /\ cmd.op \in {"put", "set", "del"} /\ cmd.x = tab
    BY <1>3 DEF Fits, Alters
  <2>2. CASE layout = "rows"
    <3>1. cmd.op # "put" => Hits(d, cmd, tab)
      BY <2>1, <2>2 DEF Harms, Hits
    <3>2. /\ cmd.op = "put" => \A g :
               /\ In(new, g) <=> In(old, g) \/ cmd.v.x = g
               /\ One(old, g) /\ (cmd.v.x = g => ~In(old, g)) => One(new, g)
          /\ cmd.op = "set" /\ Hits(d, cmd, tab) => \A g : g # None =>
               (In(new, g) <=> In(old, g)) /\ (One(new, g) <=> One(old, g))
          /\ cmd.op = "del" => \A g : g # None =>
               /\ In(new, g) => In(old, g)
               /\ One(old, g) => One(new, g)
          /\ cmd.op = "del" /\ Hits(d, cmd, tab) => \A g : g # None =>
               /\ g # cmd.v.x => (In(new, g) <=> In(old, g)) /\ (One(new, g) <=> One(old, g))
               /\ One(old, cmd.v.x) => ~In(new, cmd.v.x)
      BY <1>3, <2>1, <2>2, RowsEffect
    <3> HIDE DEF old, new
    <3>3. CASE cmd.op = "put"
      BY <2>2, <3>2, <3>3, <1>3 DEF old, new
    <3>4. CASE cmd.op = "set"
      BY <1>1, <2>2, <3>1, <3>2, <3>4, <1>3 DEF old, new
    <3>5. CASE cmd.op = "del"
      BY <1>1, <2>2, <3>1, <3>2, <3>5, <1>3 DEF old, new
    <3> QED BY <2>1, <3>3, <3>4, <3>5
  <2>3. CASE layout = "keys"
    <3>1. /\ PerKey(new, tab)
          /\ cmd.op = "del" => \A g : In(new, g) <=> In(old, g) /\ Key(tab, g) # Key(tab, cmd.v.x)
          /\ cmd.op # "del" => \A g :
               In(new, g) <=> g = cmd.v.x \/ (In(old, g) /\ Key(tab, g) # Key(tab, cmd.v.x))
      BY <1>3, <2>1, <2>3, KeysEffect
    <3>2. One(new, x)
      BY <3>1, KeyOne
    <3>3. \A g : Key(tab, g) = g
      BY DEF Key
    <3> HIDE DEF old, new
    <3> QED BY <1>3, <2>1, <2>3, <3>1, <3>2, <3>3 DEF old, new
  <2> QED BY <2>2, <2>3
<1> QED BY <1>2, <1>3

(* The next but for the listing of a hook releases its claim.              *)
Freeing(cmds, h) ==
  \E j \in 1..Len(cmds) :
    /\ cmds[j].op = "del" /\ cmds[j].x = "tokens" /\ cmds[j].v.x = h
    /\ Unlists(cmds, 0, j)

(* The key-value store deletes only hooks that are there, and claims of    *)
(* hooks that are not.                                                     *)
Keyed(cmds, d) ==
  /\ \A i \in 1..Len(cmds) :
       cmds[i].op = "del" /\ cmds[i].x = "hooks" => i = 1 /\ In(d.hooks, cmds[i].v.x)
  /\ \A h \in Hook : Freeing(cmds, h) => ~In(d.hooks, h)

LEMMA FreeingOpen ==
  ASSUME NEW cmds, NEW h, Freeing(cmds, h)
  PROVE  Open(cmds, h)
BY DEF Freeing, Open, Shuts

LEMMA FreeingTail ==
  ASSUME NEW cmds, NEW r, Apt(cmds, r), cmds # <<>>, NEW h \in Hook, Freeing(Tail(cmds), h)
  PROVE  \/ Freeing(cmds, h) /\ Head(cmds).op = "unlist"
         \/ Head(cmds).op = "del" /\ Head(cmds).x = "hooks" /\ Head(cmds).v.x = h
<1> DEFINE t == Tail(cmds)
<1>1. /\ t \in Seq(Command) /\ Len(t) = Len(cmds) - 1 /\ Len(cmds) \in Nat \ {0}
      /\ \A i \in 1..Len(t) : t[i] = cmds[i + 1]
      /\ Head(cmds) = cmds[1]
  BY TailAt DEF Apt
<1>2. PICK j \in 1..Len(t) : /\ t[j].op = "del" /\ t[j].x = "tokens" /\ t[j].v.x = h
                             /\ Unlists(t, 0, j)
  BY DEF Freeing
<1> HIDE DEF t
<1> DEFINE i == j + 1
<1>3. i \in 1..Len(cmds) /\ 1 \in 1..Len(cmds) /\ 1 < i /\ t[j] = cmds[i]
  BY <1>1, <1>2
<1>4. \A k \in 1..Len(cmds) : 1 < k /\ k < i => cmds[k].op = "unlist"
  <2> SUFFICES ASSUME NEW k \in 1..Len(cmds), 1 < k, k < i
               PROVE  cmds[k].op = "unlist"
    OBVIOUS
  <2>1. k - 1 \in 1..Len(t) /\ 0 < k - 1 /\ k - 1 < j /\ t[k - 1] = cmds[k]
    BY <1>1, <1>2
  <2> QED BY <1>2, <2>1 DEF Unlists
<1> HIDE DEF i
<1>5. Shuts(cmds[i], h)
  BY <1>2, <1>3 DEF Shuts
<1>6. \/ Unlists(cmds, 0, i)
      \/ \E k \in 1..Len(cmds) : k < i /\ Opens(cmds[k], h) /\ Unlists(cmds, k, i)
  BY <1>3, <1>5 DEF Apt, Paired
<1>7. CASE Unlists(cmds, 0, i)
  <2>1. cmds[1].op = "unlist"
    BY <1>3, <1>7 DEF Unlists
  <2>2. Freeing(cmds, h)
    BY <1>2, <1>3, <1>7 DEF Freeing
  <2> QED BY <1>1, <2>1, <2>2
<1>8. CASE \E k \in 1..Len(cmds) : k < i /\ Opens(cmds[k], h) /\ Unlists(cmds, k, i)
  <2>1. PICK k \in 1..Len(cmds) : k < i /\ Opens(cmds[k], h)
    BY <1>8
  <2>2. cmds[k].op # "unlist"
    BY <2>1, Kinds
  <2>3. k = 1
    BY <1>1, <1>4, <2>1, <2>2
  <2>4. cmds[1].op # "put"
    <3>1. ASSUME cmds[1].op = "put"
          PROVE  cmds[i].op \in Adding \union {"append"}
      BY <1>3, <3>1 DEF Apt, Proper, Adding
    <3> QED BY <1>2, <1>3, <3>1 DEF Adding
  <2> QED BY <1>1, <2>1, <2>3, <2>4 DEF Opens
<1> QED BY <1>6, <1>7, <1>8

LEMMA KeyedTail ==
  ASSUME layout = "keys", NEW d \in Data, NEW r, NEW cmds, Apt(cmds, r), cmds # <<>>,
         Head(cmds).op \notin Reading, Keyed(cmds, d), PerKey(d.hooks, "hooks")
  PROVE  Keyed(Tail(cmds), Apply(d, Head(cmds)))
<1> DEFINE t == Tail(cmds)
           cmd == Head(cmds)
           D == Apply(d, cmd)
<1>1. /\ t \in Seq(Command) /\ Len(t) = Len(cmds) - 1 /\ Len(cmds) \in Nat \ {0}
      /\ \A i \in 1..Len(t) : t[i] = cmds[i + 1]
      /\ cmd = cmds[1] /\ cmd \in Command /\ Fits(cmd, r)
  BY TailAt, AptTail DEF Apt
<1>2. \A x \in Hook :
        /\ In(D.hooks, x) => \/ In(d.hooks, x)
                             \/ Alters(cmd, "hooks") /\ cmd.v.x = x /\ cmd.op \in {"put", "set"}
        /\ Alters(cmd, "hooks") /\ cmd.v.x = x /\ cmd.op = "del" /\ One(d.hooks, x) =>
             ~In(D.hooks, x)
  <2> DEFINE tab == "hooks"
  <2>1. d[tab] = d.hooks /\ D[tab] = D.hooks /\ PerKey(d[tab], tab)
    OBVIOUS
  <2> HIDE DEF tab, D
  <2>2. tab \in {"hooks", "waits"} /\ tab = "hooks"
    BY DEF tab
  <2>3. \A x \in Hook :
          /\ In(D[tab], x) => \/ In(d[tab], x)
                              \/ Alters(cmd, tab) /\ cmd.v.x = x /\ cmd.op \in {"put", "set"}
          /\ Alters(cmd, tab) /\ cmd.v.x = x /\ cmd.op = "del" /\ One(d[tab], x) =>
               ~In(D[tab], x)
    BY <1>1, <2>1, <2>2, TableAfter DEF D
  <2> QED BY <2>1, <2>2, <2>3
<1>3. ASSUME NEW i \in 1..Len(t), t[i].op = "del", t[i].x = "hooks"
      PROVE  FALSE
  <2>1. i + 1 \in 1..Len(cmds) /\ t[i] = cmds[i + 1] /\ i + 1 # 1
    BY <1>1
  <2> QED BY <1>3, <2>1 DEF Keyed
<1>4. ASSUME NEW h \in Hook, Freeing(t, h)
      PROVE  ~In(D.hooks, h)
  <2>1. CASE cmd.op = "del" /\ cmd.x = "hooks" /\ cmd.v.x = h
    BY <1>2, <2>1, KeyOne DEF Alters
  <2>2. CASE Freeing(cmds, h) /\ cmd.op = "unlist"
    BY <1>2, <2>2 DEF Keyed
  <2> QED BY <1>4, <2>1, <2>2, FreeingTail
<1> QED BY <1>3, <1>4 DEF Keyed

(* What is to be written by a call of another run.                         *)
LEMMA OpenFits ==
  ASSUME NEW cmds, NEW r, Apt(cmds, r), NEW h \in Hook, Open(cmds, h)
  PROVE  RunOf(h) = r /\ cmds # <<>>
<1>1. PICK j \in 1..Len(cmds) : Shuts(cmds[j], h)
  BY DEF Open
<1>2. Fits(cmds[j], r) /\ cmds \in Seq(Command)
  BY DEF Apt
<1>3. RunOf(h) = r
  BY <1>1, <1>2 DEF Shuts, Fits
<1> QED BY <1>1, <1>2, <1>3

LEMMA KeyedOther ==
  ASSUME layout = "keys", NEW d \in Data, NEW cmd \in Command, cmd.op \notin Reading,
         NEW q, Fits(cmd, q), PerKey(d.hooks, "hooks"),
         NEW r, r # q, NEW cmds, Apt(cmds, r), Keyed(cmds, d)
  PROVE  Keyed(cmds, Apply(d, cmd))
<1> DEFINE D == Apply(d, cmd)
<1>1. \A x \in Hook : RunOf(x) = r => (In(D.hooks, x) <=> In(d.hooks, x))
  <2> DEFINE tab == "hooks"
  <2>1. d[tab] = d.hooks /\ D[tab] = D.hooks /\ PerKey(d[tab], tab)
    OBVIOUS
  <2> HIDE DEF tab, D
  <2>2. tab \in {"hooks", "waits"} /\ tab = "hooks"
    BY DEF tab
  <2>3. \A x \in Hook :
          /\ In(D[tab], x) => \/ In(d[tab], x)
                              \/ Alters(cmd, tab) /\ cmd.v.x = x
          /\ In(d[tab], x) => \/ In(D[tab], x)
                              \/ Alters(cmd, tab) /\ cmd.v.x = x
    BY <2>1, <2>2, TableAfter DEF D
  <2>4. Alters(cmd, tab) => RunOf(cmd.v.x) = q
    BY DEF Alters, Fits
  <2> QED BY <2>1, <2>3, <2>4
<1>2. ASSUME NEW i \in 1..Len(cmds), cmds[i].op = "del", cmds[i].x = "hooks"
      PROVE  i = 1 /\ In(D.hooks, cmds[i].v.x)
  <2>1. i = 1 /\ In(d.hooks, cmds[i].v.x) /\ RunOf(cmds[i].v.x) = r
    BY <1>2 DEF Keyed, Apt, Fits
  <2>2. cmds[i].v.x \in Hook
    <3>1. cmds[i] \in Command /\ Alters(cmds[i], "hooks") /\ cmds[i].v.x # None
      BY <1>2 DEF Apt, Alters, Fits
    <3> QED BY <3>1, CmdRow
  <2> QED BY <1>1, <2>1, <2>2
<1>3. ASSUME NEW h \in Hook, Freeing(cmds, h)
      PROVE  ~In(D.hooks, h)
  <2>1. RunOf(h) = r
    BY <1>3, FreeingOpen, OpenFits
  <2> QED BY <1>1, <1>3, <2>1 DEF Keyed
<1> QED BY <1>2, <1>3 DEF Keyed

-----------------------------------------------------------------------------
(* Without a fault.                                                        *)

Removing(cmds, x) == \E i \in 1..Len(cmds) : Removes(cmds[i], x)
Listing(cmds, h) == \E i \in 1..Len(cmds) : cmds[i].op = "list" /\ cmds[i].x = h

(* What adds to the tables is for a run that has not ended, what adds a    *)
(* wait comes first, and no hook leaves the list before its table.         *)
Tidy(cmds, r, d) ==
  \A i \in 1..Len(cmds) :
    /\ cmds[i].op \in Adding => d.run[r] \notin RunTerminal
    /\ cmds[i].op = "put" /\ cmds[i].x = "waits" => i = 1 /\ ~In(d.waits, cmds[i].v.x)
    /\ cmds[i].op = "unlist" /\ In(d.hooks, cmds[i].x) =>
         \E j \in 1..Len(cmds) : j < i /\ Removes(cmds[j], cmds[i].x)

LEMMA RemovesFits ==
  ASSUME NEW cmd, NEW r, Fits(cmd, r), NEW x \in Hook \union Wait, Removes(cmd, x)
  PROVE  RunOf(x) = r
BY DEF Fits, Removes, TabOf

LEMMA TailShows ==
  ASSUME NEW S, NEW cmds \in Seq(S), cmds # <<>>, NEW x
  PROVE  /\ Removing(cmds, x) => Removes(Head(cmds), x) \/ Removing(Tail(cmds), x)
         /\ Listing(cmds, x) => \/ Head(cmds).op = "list" /\ Head(cmds).x = x
                                \/ Listing(Tail(cmds), x)
<1> DEFINE t == Tail(cmds)
<1>1. /\ Len(t) = Len(cmds) - 1 /\ Len(cmds) \in Nat \ {0}
      /\ \A i \in 1..Len(t) : t[i] = cmds[i + 1]
      /\ Head(cmds) = cmds[1]
  BY TailAt
<1> HIDE DEF t
<1>2. ASSUME NEW i \in 1..Len(cmds), i # 1
      PROVE  i - 1 \in 1..Len(t) /\ t[i - 1] = cmds[i]
  BY <1>1, <1>2
<1>3. ASSUME Removing(cmds, x)
      PROVE  Removes(Head(cmds), x) \/ Removing(t, x)
  BY <1>1, <1>2, <1>3 DEF Removing
<1>4. ASSUME Listing(cmds, x)
      PROVE  (Head(cmds).op = "list" /\ Head(cmds).x = x) \/ Listing(t, x)
  BY <1>1, <1>2, <1>4 DEF Listing
<1> QED BY <1>3, <1>4 DEF t

LEMMA RunAfter ==
  ASSUME layout \in {"keys", "rows"}, NEW d \in Data, NEW cmd \in Command, cmd.op \notin Reading,
         NEW r \in Run
  PROVE  Apply(d, cmd).run[r] = IF cmd.op = "run" /\ cmd.x = r THEN cmd.v ELSE d.run[r]
BY IndexedAfter

(* A write that hits what it is meant for, of one call ...                 *)
Apart(d, cmds, r) ==
  /\ d \in Data /\ r \in Run /\ Apt(cmds, r) /\ cmds # <<>> /\ Head(cmds).op \notin Reading
  /\ layout = "rows" => ~Harms(d, Head(cmds))
  /\ layout = "keys" => PerKey(d.hooks, "hooks") /\ PerKey(d.waits, "waits")
  /\ \A h \in Hook : One(d.hooks, h)
  /\ \A w \in Wait : One(d.waits, w)

(* ... does this to the table of a hook or a wait.                         *)
LEMMA ThingAfter ==
  ASSUME layout \in {"keys", "rows"}, NEW d, NEW cmds, NEW r, Apart(d, cmds, r),
         NEW x \in Hook \union Wait
  PROVE  LET cmd == Head(cmds)
             tab == TabOf(x)
             old == d[tab]
             new == Apply(d, cmd)[tab]
             hit == Alters(cmd, tab) /\ cmd.v.x = x IN
         /\ In(new, x) => In(old, x) \/ (hit /\ cmd.op \in {"put", "set"})
         /\ hit /\ cmd.op = "del" => ~In(new, x)
         /\ (hit /\ cmd.op = "put" => ~In(old, x)) => One(new, x)
         /\ cmd \in Command /\ Fits(cmd, r) /\ (hit => RunOf(x) = r)
<1> DEFINE cmd == Head(cmds)
           tab == TabOf(x)
<1>1. cmd \in Command /\ Fits(cmd, r) /\ d \in Data /\ cmd.op \notin Reading
  BY AptTail DEF Apart
<1>2. tab \in {"hooks", "waits"} /\ One(d[tab], x)
      /\ (layout = "keys" => PerKey(d[tab], tab)) /\ (layout = "rows" => ~Harms(d, cmd))
  <2>1. CASE x \in Hook
    <3>1. tab = "hooks" /\ d[tab] = d.hooks
      BY <2>1 DEF TabOf
    <3> QED BY <2>1, <3>1 DEF Apart
  <2>2. CASE x \notin Hook
    <3>1. tab = "waits" /\ d[tab] = d.waits
      BY <2>2 DEF TabOf
    <3> QED BY <2>2, <3>1 DEF Apart
  <2> QED BY <2>1, <2>2
<1>3. Alters(cmd, tab) => RunOf(cmd.v.x) = r
  BY <1>1 DEF Alters, Fits
<1> HIDE DEF cmd, tab
<1>4. LET old == d[tab]
          new == Apply(d, cmd)[tab]
          hit == Alters(cmd, tab) /\ cmd.v.x = x IN
      /\ In(new, x) => In(old, x) \/ (hit /\ cmd.op \in {"put", "set"})
      /\ In(old, x) => In(new, x) \/ (hit /\ cmd.op = "del")
      /\ hit /\ cmd.op = "del" /\ One(old, x) => ~In(new, x)
      /\ One(old, x) /\ (hit /\ cmd.op = "put" => ~In(old, x)) => One(new, x)
      /\ layout = "keys" => PerKey(new, tab)
  BY <1>1, <1>2, TableAfter
<1> QED BY <1>1, <1>2, <1>3, <1>4 DEF cmd, tab

LEMMA HookAfter ==
  ASSUME layout \in {"keys", "rows"}, NEW d, NEW cmds, NEW r, Apart(d, cmds, r)
  PROVE  LET cmd == Head(cmds)
             D == Apply(d, cmd) IN
         /\ \A h \in Hook :
              /\ In(D.hooks, h) => \/ In(d.hooks, h)
                                   \/ cmd.op = "put" /\ cmd.x = "hooks" /\ cmd.v.x = h
              /\ cmd.op = "del" /\ cmd.x = "hooks" /\ cmd.v.x = h => ~In(D.hooks, h)
         /\ \A w \in Wait :
              /\ In(D.waits, w) => \/ In(d.waits, w)
                                   \/ cmd.op \in {"put", "set"} /\ cmd.x = "waits" /\ cmd.v.x = w
              /\ (cmd.op = "put" /\ cmd.x = "waits" /\ cmd.v.x = w => ~In(d.waits, w)) =>
                   One(D.waits, w)
         /\ cmd \in Command /\ Fits(cmd, r)
<1> DEFINE cmd == Head(cmds)
           D == Apply(d, cmd)
<1>1. cmd \in Command /\ Fits(cmd, r)
  BY AptTail DEF Apart
<1> HIDE DEF D, cmd
<1>2. ASSUME NEW h \in Hook
      PROVE  /\ In(D.hooks, h) => \/ In(d.hooks, h)
                                  \/ cmd.op = "put" /\ cmd.x = "hooks" /\ cmd.v.x = h
             /\ cmd.op = "del" /\ cmd.x = "hooks" /\ cmd.v.x = h => ~In(D.hooks, h)
  <2>1. TabOf(h) = "hooks"
    BY DEF TabOf
  <2> DEFINE tab == TabOf(h)
  <2>2. D[tab] = D.hooks /\ d[tab] = d.hooks /\ tab = "hooks"
    BY <2>1
  <2>3. /\ In(D[tab], h) => \/ In(d[tab], h)
                            \/ Alters(cmd, tab) /\ cmd.v.x = h /\ cmd.op \in {"put", "set"}
        /\ Alters(cmd, tab) /\ cmd.v.x = h /\ cmd.op = "del" => ~In(D[tab], h)
    BY ThingAfter DEF D, cmd
  <2> HIDE DEF tab
  <2> QED BY <1>1, <2>2, <2>3 DEF Alters, Fits
<1>3. ASSUME NEW w \in Wait
      PROVE  /\ In(D.waits, w) => \/ In(d.waits, w)
                                  \/ cmd.op \in {"put", "set"} /\ cmd.x = "waits" /\ cmd.v.x = w
             /\ (cmd.op = "put" /\ cmd.x = "waits" /\ cmd.v.x = w => ~In(d.waits, w)) =>
                  One(D.waits, w)
  <2>1. TabOf(w) = "waits"
    BY KindOf DEF TabOf
  <2> DEFINE tab == TabOf(w)
  <2>2. D[tab] = D.waits /\ d[tab] = d.waits /\ tab = "waits"
    BY <2>1
  <2>3. /\ In(D[tab], w) => \/ In(d[tab], w)
                            \/ Alters(cmd, tab) /\ cmd.v.x = w /\ cmd.op \in {"put", "set"}
        /\ (Alters(cmd, tab) /\ cmd.v.x = w /\ cmd.op = "put" => ~In(d[tab], w)) => One(D[tab], w)
    BY ThingAfter DEF D, cmd
  <2> HIDE DEF tab
  <2> QED BY <2>2, <2>3 DEF Alters
<1> QED BY <1>1, <1>2, <1>3 DEF D, cmd

LEMMA TidyTail ==
  ASSUME layout \in {"keys", "rows"}, NEW d, NEW cmds, NEW r, Apart(d, cmds, r),
         Tidy(cmds, r, d)
  PROVE  Tidy(Tail(cmds), r, Apply(d, Head(cmds)))
<1> DEFINE t == Tail(cmds)
           cmd == Head(cmds)
           D == Apply(d, cmd)
<1>1. /\ t \in Seq(Command) /\ Len(t) = Len(cmds) - 1 /\ Len(cmds) \in Nat \ {0}
      /\ \A i \in 1..Len(t) : t[i] = cmds[i + 1]
      /\ cmd = cmds[1] /\ cmd \in Command /\ cmd.op \notin Reading /\ r \in Run /\ d \in Data
  BY TailAt DEF Apt, Apart
<1>2. \A h \in Hook :
        /\ In(D.hooks, h) => \/ In(d.hooks, h)
                             \/ cmd.op = "put" /\ cmd.x = "hooks" /\ cmd.v.x = h
        /\ cmd.op = "del" /\ cmd.x = "hooks" /\ cmd.v.x = h => ~In(D.hooks, h)
  BY HookAfter
<1>3. D.run[r] = IF cmd.op = "run" /\ cmd.x = r THEN cmd.v ELSE d.run[r]
  BY <1>1, RunAfter
<1> HIDE DEF D, t, cmd
<1>4. ASSUME NEW i \in 1..Len(t)
      PROVE  i + 1 \in 1..Len(cmds) /\ t[i] = cmds[i + 1] /\ 1 \in 1..Len(cmds)
  BY <1>1
(* Nothing is added by a call that also does anything else.                *)
<1>5. ASSUME NEW i \in 1..Len(cmds), cmds[i].op \in Adding
      PROVE  \A j \in 1..Len(cmds) : cmds[j].op \in Adding \union {"append"}
  BY <1>5 DEF Apart, Apt, Proper
<1>6. ASSUME NEW i \in 1..Len(t), t[i].op \in Adding
      PROVE  D.run[r] \notin RunTerminal
  <2>1. cmd.op \in Adding \union {"append"} /\ d.run[r] \notin RunTerminal
    BY <1>1, <1>4, <1>5, <1>6 DEF Tidy
  <2> QED BY <1>3, <2>1 DEF Adding
<1>7. ASSUME NEW i \in 1..Len(t), t[i].op = "put", t[i].x = "waits"
      PROVE  FALSE
  <2>1. i + 1 = 1
    BY <1>4, <1>7 DEF Tidy
  <2> QED BY <2>1
<1>8. ASSUME NEW i \in 1..Len(t), t[i].op = "unlist", In(D.hooks, t[i].x)
      PROVE  \E j \in 1..Len(t) : j < i /\ Removes(t[j], t[i].x)
  <2> DEFINE x == t[i].x
  <2>1. x \in Hook
    <3>1. t[i] \in Command
      BY <1>1
    <3> HIDE DEF t
    <3> QED BY <1>8, <3>1, Zenon DEF Command
  <2>2. cmd.op # "put"
    <3>1. cmd.op = "put" => cmds[1].op \in Adding
      BY <1>1 DEF Adding
    <3> QED BY <1>4, <1>5, <1>8, <3>1 DEF Adding
  <2>3. In(d.hooks, x)
    BY <1>2, <1>8, <2>1, <2>2
  <2>4. PICK k \in 1..Len(cmds) : k < i + 1 /\ Removes(cmds[k], x)
    BY <1>4, <1>8, <2>3 DEF Tidy
  <2>5. k # 1
    <3>1. Removes(cmd, x) => cmd.op = "del" /\ cmd.x = "hooks" /\ cmd.v.x = x
      BY <1>1, <2>1 DEF Removes, TabOf, Reading
    <3> QED BY <1>1, <1>2, <1>8, <2>1, <2>4, <3>1
  <2>6. k - 1 \in 1..Len(t) /\ k - 1 < i /\ t[k - 1] = cmds[k]
    BY <1>1, <2>4, <2>5
  <2> QED BY <2>4, <2>6
<1>9. Tidy(t, r, D)
  BY <1>6, <1>7, <1>8 DEF Tidy
<1> QED BY <1>9 DEF t, D, cmd

LEMMA TidyOther ==
  ASSUME layout \in {"keys", "rows"}, NEW d, NEW cmds, NEW r, Apart(d, cmds, r),
         NEW q \in Run, q # r, NEW others, Apt(others, q), Tidy(others, q, d)
  PROVE  Tidy(others, q, Apply(d, Head(cmds)))
<1> DEFINE cmd == Head(cmds)
           D == Apply(d, cmd)
<1>1. /\ \A h \in Hook : In(D.hooks, h) => \/ In(d.hooks, h)
                                           \/ cmd.op = "put" /\ cmd.x = "hooks" /\ cmd.v.x = h
      /\ \A w \in Wait : In(D.waits, w) => \/ In(d.waits, w)
                                           \/ cmd.op \in {"put", "set"} /\ cmd.v.x = w
      /\ cmd \in Command /\ Fits(cmd, r)
  BY HookAfter
<1>2. D.run[q] = d.run[q]
  <2>1. D.run[q] = IF cmd.op = "run" /\ cmd.x = q THEN cmd.v ELSE d.run[q]
    BY RunAfter, <1>1 DEF Apart
  <2> QED BY <1>1, <2>1 DEF Fits
<1> HIDE DEF D, cmd
<1>3. cmd.op \in {"put", "set"} => RunOf(cmd.v.x) = r
  BY <1>1 DEF Fits
<1>4. ASSUME NEW i \in 1..Len(others)
      PROVE  /\ others[i].op = "unlist" => others[i].x \in Hook /\ RunOf(others[i].x) = q
             /\ others[i].op = "put" /\ others[i].x = "waits" =>
                  others[i].v.x \in Wait /\ RunOf(others[i].v.x) = q
  <2>1. others[i] \in Command /\ Fits(others[i], q)
    BY DEF Apt
  <2>2. others[i].op = "unlist" => others[i].x \in Hook /\ RunOf(others[i].x) = q
    BY <2>1, Zenon DEF Command, Fits
  <2>3. ASSUME others[i].op = "put", others[i].x = "waits"
        PROVE  others[i].v.x \in Wait /\ RunOf(others[i].v.x) = q
    <3>1. Alters(others[i], "waits") /\ others[i].v.x # None /\ RunOf(others[i].v.x) = q
      BY <2>1, <2>3 DEF Alters, Fits
    <3> QED BY <2>1, <3>1, CmdRow
  <2> QED BY <2>2, <2>3
<1>5. ASSUME NEW i \in 1..Len(others), others[i].op = "put", others[i].x = "waits"
      PROVE  i = 1 /\ ~In(D.waits, others[i].v.x)
  <2>1. others[i].v.x \in Wait /\ RunOf(others[i].v.x) = q
    BY <1>4, <1>5
  <2>2. i = 1 /\ ~In(d.waits, others[i].v.x)
    BY <1>5 DEF Tidy
  <2> QED BY <1>1, <1>3, <2>1, <2>2
<1>6. ASSUME NEW i \in 1..Len(others), others[i].op = "unlist", In(D.hooks, others[i].x)
      PROVE  \E j \in 1..Len(others) : j < i /\ Removes(others[j], others[i].x)
  <2>1. others[i].x \in Hook /\ RunOf(others[i].x) = q
    BY <1>4, <1>6
  <2>2. In(d.hooks, others[i].x)
    BY <1>1, <1>3, <1>6, <2>1
  <2> QED BY <1>6, <2>2 DEF Tidy
<1>7. \A i \in 1..Len(others) : others[i].op \in Adding => D.run[q] \notin RunTerminal
  BY <1>2 DEF Tidy
<1>8. Tidy(others, q, D)
  BY <1>5, <1>6, <1>7 DEF Tidy
<1> QED BY <1>8 DEF D, cmd

(* A thing that is left of a run that has ended is still to be removed.    *)
LEMMA LeftAfter ==
  ASSUME layout \in {"keys", "rows"}, NEW d, NEW cmds, NEW r, Apart(d, cmds, r),
         Tidy(cmds, r, d), NEW x \in Hook \union Wait,
         Apply(d, Head(cmds)).run[RunOf(x)] \in RunTerminal,
         In(Apply(d, Head(cmds))[TabOf(x)], x)
  PROVE  \/ Removing(Tail(cmds), x)
         \/ /\ d.run[RunOf(x)] \in RunTerminal /\ In(d[TabOf(x)], x)
            /\ ~Removes(Head(cmds), x)
<1> DEFINE t == Tail(cmds)
           cmd == Head(cmds)
           D == Apply(d, cmd)
           tab == TabOf(x)
<1>1. /\ Len(t) = Len(cmds) - 1 /\ Len(cmds) \in Nat \ {0}
      /\ \A i \in 1..Len(t) : t[i] = cmds[i + 1]
      /\ cmd = cmds[1] /\ cmd \in Command /\ cmd.op \notin Reading /\ d \in Data
  BY TailAt DEF Apt, Apart
<1>2. /\ In(D[tab], x) => \/ In(d[tab], x)
                          \/ Alters(cmd, tab) /\ cmd.v.x = x /\ cmd.op \in {"put", "set"}
      /\ Alters(cmd, tab) /\ cmd.v.x = x /\ cmd.op = "del" => ~In(D[tab], x)
      /\ Alters(cmd, tab) /\ cmd.v.x = x => RunOf(x) = r
      /\ Fits(cmd, r)
  BY ThingAfter
<1>3. RunOf(x) \in Run /\ tab \in {"hooks", "waits"}
  BY RunOfTyped DEF TabOf
<1>4. D.run[RunOf(x)] = IF cmd.op = "run" /\ cmd.x = RunOf(x) THEN cmd.v ELSE d.run[RunOf(x)]
  BY <1>1, <1>3, RunAfter
<1>5. 1 \in 1..Len(cmds)
  BY <1>1
<1> HIDE DEF D, cmd, t, tab
<1>6. CASE cmd.op = "run" /\ cmd.x = RunOf(x)
  <2>1. cmd.v \in RunTerminal /\ r = RunOf(x)
    BY <1>2, <1>4, <1>6 DEF D, cmd, Fits
  <2>2. PICK j \in 1..Len(cmds) : 1 < j /\ cmds[j].op = tab
    BY <1>1, <1>3, <1>5, <1>6, <2>1 DEF Apart, Apt, Proper
  <2>3. cmds[j].x = r
    BY <1>3, <2>2 DEF Apart, Apt, Fits
  <2>4. Removes(cmds[j], x)
    BY <2>1, <2>2, <2>3 DEF Removes, tab
  <2>5. j - 1 \in 1..Len(t) /\ t[j - 1] = cmds[j]
    BY <1>1, <2>2
  <2>6. Removing(t, x)
    BY <2>4, <2>5 DEF Removing
  <2> QED BY <2>6 DEF t
<1>7. CASE ~(cmd.op = "run" /\ cmd.x = RunOf(x))
  <2>1. d.run[RunOf(x)] \in RunTerminal
    BY <1>4, <1>7 DEF D, cmd
  <2>2. In(D[tab], x)
    BY DEF D, cmd, tab
  <2>3. ~(Alters(cmd, tab) /\ cmd.v.x = x /\ cmd.op \in {"put", "set"})
    <3>1. cmd.op \in {"put", "set"} => d.run[r] \notin RunTerminal
      BY <1>1, <1>5 DEF Tidy, Adding
    <3> QED BY <1>2, <2>1, <3>1
  <2>4. In(d[tab], x)
    BY <1>2, <2>2, <2>3
  <2>5. ~Removes(cmd, x)
    <3>1. Removes(cmd, x) => cmd.op = "del" /\ cmd.x = tab /\ cmd.v.x = x
      BY <1>1, <1>3 DEF Removes, Reading, tab
    <3> QED BY <1>2, <2>2, <3>1 DEF Alters
  <2> QED BY <2>1, <2>4, <2>5 DEF cmd, tab
<1> QED BY <1>6, <1>7

(* A hook of the key-value store is in the list of its run, or to be put   *)
(* there.                                                                  *)
LEMMA ListedAfter ==
  ASSUME layout = "keys", NEW d, NEW cmds, NEW r, Apart(d, cmds, r),
         Tidy(cmds, r, d), NEW h \in Hook, In(Apply(d, Head(cmds)).hooks, h)
  PROVE  \/ h \in Apply(d, Head(cmds)).byRun \/ Listing(Tail(cmds), h)
         \/ In(d.hooks, h) /\ h \notin d.byRun /\ ~Listing(cmds, h)
<1> DEFINE t == Tail(cmds)
           cmd == Head(cmds)
           D == Apply(d, cmd)
<1>1. /\ Len(t) = Len(cmds) - 1 /\ Len(cmds) \in Nat \ {0}
      /\ \A i \in 1..Len(t) : t[i] = cmds[i + 1]
      /\ cmd = cmds[1] /\ cmd \in Command /\ cmd.op \notin Reading /\ d \in Data
  BY TailAt DEF Apt, Apart
<1>2. In(d.hooks, h) \/ (cmd.op = "put" /\ cmd.x = "hooks" /\ cmd.v.x = h)
  BY HookAfter
<1>3. D.byRun = IF cmd.op = "list" THEN d.byRun \union {cmd.x}
                ELSE IF cmd.op = "unlist" THEN d.byRun \ {cmd.x} ELSE d.byRun
  BY <1>1, TablesAfter
<1>4. 1 \in 1..Len(cmds)
  BY <1>1
<1>5. Listing(cmds, h) => (cmd.op = "list" /\ cmd.x = h) \/ Listing(t, h)
  BY TailShows DEF Apart, Apt
<1> HIDE DEF D, cmd, t
<1>6. CASE cmd.op = "put" /\ cmd.x = "hooks" /\ cmd.v.x = h
  <2>1. PICK j \in 1..Len(cmds) : 1 < j /\ cmds[j].op = "list" /\ cmds[j].x = h
    BY <1>1, <1>4, <1>6 DEF Apart, Apt, Proper
  <2>2. j - 1 \in 1..Len(t) /\ t[j - 1] = cmds[j]
    BY <1>1, <2>1
  <2>3. Listing(t, h)
    BY <2>1, <2>2 DEF Listing
  <2> QED BY <2>3 DEF t
<1>7. CASE In(d.hooks, h)
  <2>1. ~(cmd.op = "unlist" /\ cmd.x = h)
    <3>1. ASSUME cmd.op = "unlist", cmd.x = h
          PROVE  FALSE
      <4>1. PICK j \in 1..Len(cmds) : j < 1
        BY <1>1, <1>4, <1>7, <3>1 DEF Tidy
      <4> QED BY <4>1
    <3> QED BY <3>1
  <2>2. h \in d.byRun => h \in D.byRun
    BY <1>3, <2>1
  <2>3. cmd.op = "list" /\ cmd.x = h => h \in D.byRun
    BY <1>3
  <2> QED BY <1>5, <1>7, <2>2, <2>3 DEF D, cmd, t
<1> QED BY <1>2, <1>6, <1>7

-----------------------------------------------------------------------------
(* The invariants.                                                         *)

Opened(h) == \E c \in Caller : Open(todo[c], h)
Gapped == {h \in Hook : Opened(h)}
Uneven == Odd(db, Gapped)

(* What the calls still write keeps pairs in pairs, a key has one row, and *)
(* the hooks that are not paired are paid for by the faults.               *)
PairInv ==
  /\ \A c \in Caller : Apt(todo[c], RunOf(call[c].x))
  /\ layout = "keys" =>
       /\ PerKey(db.hooks, "hooks") /\ PerKey(db.tokens, "tokens") /\ PerKey(db.waits, "waits")
       /\ \A c \in Caller : Keyed(todo[c], db)
  /\ Cardinality(Uneven) <= Allowed * faults

(* Without a fault nothing is there twice, and what is left of a run that  *)
(* has ended is about to be removed.                                       *)
TidyInv ==
  faults = 0 =>
    /\ \A w \in Wait : One(db.waits, w)
    /\ \A x \in Hook \union Wait : db.run[RunOf(x)] \in RunTerminal /\ In(db[TabOf(x)], x) =>
         \E c \in Caller : Removing(todo[c], x)
    /\ \A c \in Caller : Tidy(todo[c], RunOf(call[c].x), db)
    /\ layout = "keys" => \A h \in Hook : In(db.hooks, h) =>
         h \in db.byRun \/ \E c \in Caller : Listing(todo[c], h)

SInv == IInv /\ PairInv /\ TidyInv

LEMMA SameLayout ==
  ASSUME layout' = layout
  PROVE  /\ \A cmds, r : Apt(cmds, r)' <=> Apt(cmds, r)
         /\ \A rows, tab : PerKey(rows, tab)' <=> PerKey(rows, tab)
         /\ Allowed' = Allowed
BY DEF Apt, Fits, Proper, PerKey, Key, Allowed

LEMMA PairStep ==
  ASSUME PairInv, NEW c \in Caller, layout' = layout, db' = db,
         \A a \in Caller : a # c => todo'[a] = todo[a] /\ call'[a] = call[a],
         Apt(todo'[c], RunOf(call'[c].x)), layout = "keys" => Keyed(todo'[c], db),
         Cardinality(Uneven') <= Allowed * faults'
  PROVE  PairInv'
<1>1. \A a \in Caller : Apt(todo'[a], RunOf(call'[a].x))
  BY DEF PairInv
<1>2. layout = "keys" => \A a \in Caller : Keyed(todo'[a], db)
  BY DEF PairInv
<1> QED BY <1>1, <1>2, SameLayout DEF PairInv

LEMMA TidyStep ==
  ASSUME TidyInv, NEW c \in Caller, layout' = layout, db' = db, faults' = faults,
         \A a \in Caller : a # c => todo'[a] = todo[a] /\ call'[a] = call[a],
         faults = 0 =>
           /\ Tidy(todo'[c], RunOf(call'[c].x), db)
           /\ \A x \in Hook \union Wait : In(db[TabOf(x)], x) /\ Removing(todo[c], x) =>
                Removing(todo'[c], x)
           /\ \A h \in Hook : Listing(todo[c], h) => Listing(todo'[c], h)
  PROVE  TidyInv'
<1>1. SUFFICES ASSUME faults = 0
               PROVE  TidyInv'
  BY DEF TidyInv
<1>2. ASSUME NEW x \in Hook \union Wait, db.run[RunOf(x)] \in RunTerminal, In(db[TabOf(x)], x)
      PROVE  \E a \in Caller : Removing(todo'[a], x)
  <2>1. PICK a \in Caller : Removing(todo[a], x)
    BY <1>1, <1>2 DEF TidyInv
  <2> QED BY <1>1, <1>2, <2>1
<1>3. ASSUME NEW h \in Hook, layout = "keys", In(db.hooks, h)
      PROVE  h \in db.byRun \/ \E a \in Caller : Listing(todo'[a], h)
  <2>1. h \in db.byRun \/ \E a \in Caller : Listing(todo[a], h)
    BY <1>1, <1>3 DEF TidyInv
  <2> QED BY <1>1, <2>1
<1>4. \A a \in Caller : Tidy(todo'[a], RunOf(call'[a].x), db)
  BY <1>1 DEF TidyInv
<1> QED BY <1>1, <1>2, <1>3, <1>4 DEF TidyInv

LEMMA NothingLeft ==
  /\ \A r : Apt(<<>>, r)
  /\ \A h : ~Open(<<>>, h)
  /\ \A d : Keyed(<<>>, d)
  /\ \A r, d : Tidy(<<>>, r, d)
  /\ \A x : ~Removing(<<>>, x) /\ ~Listing(<<>>, x)
<1> DEFINE none == <<>>
<1>1. none \in Seq(Command) /\ Len(none) = 0 /\ \A i \in 1..Len(none) : FALSE
  OBVIOUS
<1> HIDE DEF none
<1>2. \A r : Apt(none, r)
  BY <1>1 DEF Apt, Paired, Proper
<1>3. \A h : ~Open(none, h) /\ ~Freeing(none, h) /\ ~Removing(none, h) /\ ~Listing(none, h)
  BY <1>1 DEF Open, Freeing, Removing, Listing
<1>4. \A d : Keyed(none, d)
  BY <1>1, <1>3 DEF Keyed
<1>5. \A r, d : Tidy(none, r, d)
  BY <1>1 DEF Tidy
<1> QED BY <1>2, <1>3, <1>4, <1>5 DEF none

LEMMA UnevenFinite ==
  /\ IsFiniteSet(Uneven) /\ Cardinality(Uneven) \in Nat
  /\ IsFiniteSet(Uneven') /\ Cardinality(Uneven') \in Nat
BY OddFinite DEF Uneven

(* Nothing to write, before and after.                                     *)
LEMMA EmptyKeeps ==
  ASSUME SInv, NEW c \in Caller, todo[c] = <<>>, todo'[c] = <<>>,
         layout' = layout, db' = db, faults' = faults,
         \A a \in Caller : a # c => todo'[a] = todo[a] /\ call'[a] = call[a]
  PROVE  PairInv' /\ TidyInv'
<1>1. Gapped' = Gapped
  <2>1. \A a \in Caller : todo'[a] = todo[a]
    OBVIOUS
  <2>2. \A h : Opened(h)' <=> Opened(h)
    BY <2>1 DEF Opened
  <2> QED BY <2>2 DEF Gapped
<1>2. Uneven' = Uneven
  BY <1>1 DEF Uneven
<1>3. PairInv'
  BY <1>2, NothingLeft, PairStep DEF SInv, PairInv
<1>4. TidyInv'
  BY NothingLeft, TidyStep DEF SInv
<1> QED BY <1>3, <1>4

(* The call that is cut short leaves at most one hook in the gap.          *)
LEMMA FailKeeps ==
  ASSUME SInv, NEW c \in Caller, Fail(c)
  PROVE  PairInv' /\ TidyInv'
<1>1. /\ todo'[c] = <<>> /\ layout' = layout /\ db' = db /\ faults' = faults + 1
      /\ \A a \in Caller : a # c => todo'[a] = todo[a] /\ call'[a] = call[a]
  BY DEF Fail, Reset, OneFault, SInv, IInv, CallInv
<1>2. layout \in {"keys", "rows"} /\ faults \in Nat /\ todo[c] \in Seq(Command)
  BY DEF SInv, IInv, CallInv
<1>3. ASSUME NEW h \in Hook, Opened(h)
      PROVE  h \in Gapped' \/ Open(todo[c], h)
  <2>1. PICK a \in Caller : Open(todo[a], h)
    BY <1>3 DEF Opened
  <2>2. a # c => Open(todo'[a], h)
    BY <1>1, <2>1
  <2>3. a # c => h \in Gapped'
    BY <2>2 DEF Gapped, Opened
  <2> QED BY <2>1, <2>3
<1>4. Gapped' \subseteq Gapped
  <2>1. ASSUME NEW h \in Hook, NEW a \in Caller, Open(todo'[a], h)
        PROVE  Open(todo[a], h)
    BY <1>1, <2>1, NothingLeft
  <2> QED BY <2>1 DEF Gapped, Opened
<1>5. \E k : \A h \in Hook : Open(todo[c], h) => h = k
  <2>1. CASE \E k \in Hook : Open(todo[c], k)
    BY <1>2, <2>1, OneOpen
  <2> QED BY <2>1
<1>6. PICK k : \A h \in Hook : Open(todo[c], h) => h = k
  BY <1>5
<1>7. Uneven' \subseteq Uneven \union {k}
  <2>1. \A h \in Hook : h # k => (h \in Gapped' <=> h \in Gapped)
    BY <1>3, <1>4, <1>6 DEF Gapped
  <2> QED BY <1>1, <2>1 DEF Uneven, Odd
<1>8. Cardinality(Uneven') <= Cardinality(Uneven) + 1
  BY <1>7, UnevenFinite, OneMore
<1>9. Cardinality(Uneven') <= Allowed * faults'
  <2>1. Cardinality(Uneven) <= Allowed * faults
    BY DEF SInv, PairInv
  <2>2. CASE layout = "keys"
    BY <1>1, <1>2, <1>8, <2>1, <2>2, UnevenFinite DEF Allowed
  <2>3. CASE layout = "rows"
    BY <1>1, <1>2, <1>8, <2>1, <2>3, UnevenFinite DEF Allowed
  <2> QED BY <1>2, <2>2, <2>3
<1>10. PairInv'
  BY <1>1, <1>9, NothingLeft, PairStep DEF SInv
<1>11. TidyInv'
  BY <1>1, <1>2 DEF TidyInv
<1> QED BY <1>10, <1>11

(* The call of a caller that has something to write.                       *)
LEMMA InCall ==
  ASSUME CallInv, NEW c \in Caller, todo[c] # <<>> \/ call[c] # NoCall
  PROVE  /\ call[c] # NoCall /\ call[c] \in Calls /\ RunOf(call[c].x) \in Run
         /\ \A a \in Caller : a # c /\ RunOf(call[a].x) = RunOf(call[c].x) => todo[a] = <<>>
<1>1. \A a \in Caller : todo[a] # <<>> => call[a] # NoCall
  BY DEF CallInv
<1>2. call[c] # NoCall /\ call[c] \in Calls
  BY <1>1 DEF CallInv
<1>3. call[c].x \in Run \union Step \union Hook \union Wait
  BY <1>2, CallTyped
<1>4. RunOf(call[c].x) \in Run
  BY <1>3, RunOfTyped
<1>5. \A a \in Caller : a # c /\ RunOf(call[a].x) = RunOf(call[c].x) => todo[a] = <<>>
  BY <1>1, <1>2 DEF CallInv
<1> QED BY <1>2, <1>4, <1>5

(* Hooks that were even stay so, when the gaps of these are the same.      *)
LEMMA SameGaps ==
  ASSUME db' = db, \A h \in Hook : EvenIn(db, h, Opened(h)) => (Opened(h)' <=> Opened(h))
  PROVE  Cardinality(Uneven') <= Cardinality(Uneven)
<1>1. \A h \in Hook : /\ h \in Gapped <=> Opened(h)
                      /\ h \in Gapped' <=> Opened(h)'
  BY DEF Gapped
<1>2. \A h \in Hook : EvenIn(db, h, h \in Gapped) => EvenIn(db, h, h \in Gapped')
  BY <1>1 DEF EvenIn
<1>3. Uneven' \subseteq Uneven
  BY <1>2 DEF Uneven, Odd
<1> QED BY <1>3, UnevenFinite, Smaller

LEMMA ValidateTidy ==
  ASSUME SInv, NEW c \in Caller, Validate(c)
  PROVE  PairInv' /\ TidyInv'
<1> DEFINE r == RunOf(call[c].x)
<1>1. /\ layout \in {"keys", "rows"} /\ db \in Data /\ faults \in Nat
      /\ todo[c] = <<>> /\ call[c] \in Calls /\ r \in Run
  <2>1. CallInv
    BY DEF SInv, IInv
  <2> QED BY <2>1, InCall DEF CallInv, Validate
<1>2. PICK cmds \in Plans(call[c], db) : todo' = [todo EXCEPT ![c] = cmds]
  BY DEF Validate
<1>3. /\ layout' = layout /\ db' = db /\ faults' = faults /\ call' = call
      /\ todo'[c] = cmds /\ \A a \in Caller : a # c => todo'[a] = todo[a]
  BY <1>2 DEF Validate, SInv, IInv, CallInv
<1>4. Validated(db, cmds, r)
  BY <1>1, PlansValidated
<1>5. Apt(cmds, r) /\ \A h \in Hook : ~Open(cmds, h)
  BY <1>4 DEF Validated, Begins
<1>6. \A i \in 1..Len(cmds) :
        /\ cmds[i].op \notin {"list", "unlist", "del"}
        /\ cmds[i].op = "put" => cmds[i].x = "waits"
        /\ Fits(cmds[i], r)
  BY <1>4 DEF Validated, Begins, Begin
<1>7. Keyed(cmds, db)
  BY <1>5, <1>6, FreeingOpen DEF Keyed
<1>8. \A h \in Hook : Opened(h)' <=> Opened(h)
  <2>1. \A h \in Hook : ~Open(todo[c], h) /\ ~Open(todo'[c], h)
    BY <1>1, <1>3, <1>5, NothingLeft
  <2>2. \A h \in Hook : \A a \in Caller : Open(todo'[a], h) <=> Open(todo[a], h)
    BY <1>3, <2>1
  <2> QED BY <2>2 DEF Opened
<1>9. PairInv'
  <2>1. Cardinality(Uneven') <= Cardinality(Uneven)
    BY <1>3, <1>8, SameGaps
  <2>2. Cardinality(Uneven) <= Allowed * faults
    BY DEF SInv, PairInv
  <2>3. Allowed * faults \in Nat
    BY <1>1 DEF Allowed
  <2>4. Cardinality(Uneven') <= Allowed * faults'
    BY <1>3, <2>1, <2>2, <2>3, UnevenFinite
  <2>5. PairInv
    BY DEF SInv
  <2> HIDE DEF r
  <2>6. Apt(todo'[c], RunOf(call'[c].x)) /\ Keyed(todo'[c], db)
    BY <1>3, <1>5, <1>7 DEF r
  <2> QED BY <1>3, <2>4, <2>5, <2>6, PairStep
<1>10. ASSUME faults = 0
       PROVE  Tidy(cmds, r, db)
  <2>1. ASSUME NEW i \in 1..Len(cmds), cmds[i].op = "set"
        PROVE  db.run[r] \notin RunTerminal
    <3> DEFINE w == cmds[i].v.x
    <3>1. w \in Wait /\ In(db.waits, w) /\ RunOf(w) = r
      BY <1>4, <1>6, <2>1 DEF Validated, Fits
    <3>2. TabOf(w) = "waits" /\ db[TabOf(w)] = db.waits
      BY <3>1, KindOf DEF TabOf
    <3>3. ASSUME db.run[r] \in RunTerminal
          PROVE  FALSE
      <4>1. In(db[TabOf(w)], w)
        BY <3>1, <3>2
      <4>2. PICK a \in Caller : Removing(todo[a], w)
        BY <1>10, <3>1, <3>3, <4>1 DEF SInv, TidyInv
      <4>3. PICK j \in 1..Len(todo[a]) : Removes(todo[a][j], w)
        BY <4>2 DEF Removing
      <4>4. Fits(todo[a][j], RunOf(call[a].x))
        BY <4>3 DEF SInv, PairInv, Apt
      <4>5. RunOf(call[a].x) = r
        BY <3>1, <4>3, <4>4, RemovesFits
      <4>6. todo[a] = <<>>
        <5>1. CASE a = c
          BY <1>1, <5>1
        <5>2. CASE a # c
          <6>1. call[c] # NoCall
            BY DEF Validate
          <6> QED BY <4>5, <5>2, <6>1, InCall DEF SInv, IInv
        <5> QED BY <5>1, <5>2
      <4> QED BY <4>2, <4>6, NothingLeft
    <3> QED BY <3>3
  <2>2. ASSUME NEW i \in 1..Len(cmds), cmds[i].op \in Adding
        PROVE  db.run[r] \notin RunTerminal
    BY <1>4, <1>6, <2>1, <2>2 DEF Adding, Validated
  <2> QED BY <1>4, <1>6, <2>2 DEF Tidy, Validated
<1>11. TidyInv'
  <2>1. TidyInv
    BY DEF SInv
  <2> HIDE DEF r
  <2>2. faults = 0 => Tidy(todo'[c], RunOf(call'[c].x), db)
    BY <1>3, <1>10 DEF r
  <2> QED BY <1>1, <1>3, <2>1, <2>2, NothingLeft, TidyStep
<1> QED BY <1>9, <1>11

(* The positions of what a read is followed by.                            *)
LEMMA JoinTail ==
  ASSUME NEW S, NEW cmds \in Seq(S), cmds # <<>>, NEW q \in Seq(S)
  PROVE  LET s == q \o Tail(cmds) IN
         /\ Len(q) \in Nat
         /\ \A i \in 1..Len(s) :
              \/ i \in 1..Len(q) /\ s[i] = q[i]
              \/ \E k \in 1..Len(cmds) : k # 1 /\ s[i] = cmds[k] /\ i = Len(q) + k - 1
         /\ \A i \in 1..Len(q) : i \in 1..Len(s) /\ s[i] = q[i]
         /\ \A k \in 1..Len(cmds) : k # 1 =>
              Len(q) + k - 1 \in 1..Len(s) /\ s[Len(q) + k - 1] = cmds[k]
<1> DEFINE t == Tail(cmds)
           s == q \o t
<1>1. /\ t \in Seq(S) /\ Len(t) = Len(cmds) - 1 /\ Len(cmds) \in Nat \ {0}
      /\ \A i \in 1..Len(t) : t[i] = cmds[i + 1]
  BY TailAt
<1>2. /\ Len(s) = Len(q) + Len(t) /\ Len(q) \in Nat
      /\ \A i \in 1..Len(q) : s[i] = q[i]
      /\ \A i \in 1..Len(t) : s[Len(q) + i] = t[i]
  BY <1>1, JoinAt
<1> HIDE DEF s, t
<1>3. ASSUME NEW i \in 1..Len(s)
      PROVE  \/ i \in 1..Len(q) /\ s[i] = q[i]
             \/ \E k \in 1..Len(cmds) : k # 1 /\ s[i] = cmds[k] /\ i = Len(q) + k - 1
  <2>1. CASE i <= Len(q)
    BY <1>2, <2>1
  <2>2. CASE i > Len(q)
    <3>1. i - Len(q) \in 1..Len(t) /\ i = Len(q) + (i - Len(q))
      BY <1>1, <1>2, <2>2
    <3>2. PICK j \in 1..Len(t) : i = Len(q) + j
      BY <3>1
    <3>3. s[i] = cmds[j + 1]
      BY <1>1, <1>2, <3>2
    <3>4. j + 1 \in 1..Len(cmds) /\ j + 1 # 1 /\ i = Len(q) + (j + 1) - 1
      BY <1>1, <1>2, <3>2
    <3> QED BY <3>3, <3>4
  <2> QED BY <1>1, <1>2, <2>1, <2>2
<1>4. \A i \in 1..Len(q) : i \in 1..Len(s) /\ s[i] = q[i]
  BY <1>1, <1>2
<1>5. ASSUME NEW k \in 1..Len(cmds), k # 1
      PROVE  Len(q) + k - 1 \in 1..Len(s) /\ s[Len(q) + k - 1] = cmds[k]
  <2>1. k - 1 \in 1..Len(t) /\ t[k - 1] = cmds[k] /\ Len(q) + k - 1 = Len(q) + (k - 1)
    BY <1>1, <1>2, <1>5
  <2>2. s[Len(q) + (k - 1)] = t[k - 1]
    BY <1>2, <2>1
  <2>3. Len(q) + (k - 1) \in 1..Len(s)
    BY <1>1, <1>2, <2>1
  <2> QED BY <2>1, <2>2, <2>3
<1> QED BY <1>2, <1>3, <1>4, <1>5 DEF s, t

LEMMA ReadPairs ==
  ASSUME SInv, NEW c \in Caller, todo[c] # <<>>, Head(todo[c]).op \in Reading,
         NEW r, r = RunOf(call[c].x), NEW q, Becomes(db, Head(todo[c]), q, r),
         layout' = layout, db' = db, faults' = faults, call' = call,
         todo'[c] = q \o Tail(todo[c]),
         \A a \in Caller : a # c => todo'[a] = todo[a]
  PROVE  PairInv'
<1> DEFINE cmds == todo[c]
           cmd == Head(cmds)
           s == q \o Tail(cmds)
<1>1. /\ layout \in {"keys", "rows"} /\ faults \in Nat
      /\ Apt(cmds, r) /\ (layout = "keys" => Keyed(cmds, db)) /\ cmds # <<>>
      /\ Apt(q, r)
  BY DEF SInv, IInv, CallInv, PairInv, Becomes
<1>2. cmds \in Seq(Command) /\ q \in Seq(Command)
  BY <1>1 DEF Apt
<1>3. cmd.op \in Reading /\ Becomes(db, cmd, q, r) /\ cmd \in Command /\ Fits(cmd, r)
  BY <1>1, AptTail
<1>4. todo'[c] = s /\ call'[c] = call[c]
  OBVIOUS
<1> HIDE DEF cmds, cmd
<1>5. /\ Apt(s, r)
      /\ \A h \in Hook : Open(s, h) <=> Open(q, h)
  <2>1. cmd.op = "claim" => \A i \in 1..Len(q) : q[i].op \in Adding \union {"append"}
    BY <1>3 DEF Becomes, Adding
  <2>2. cmd.op # "claim" => \A i \in 1..Len(q) : q[i].op \notin Adding
    BY <1>3 DEF Becomes
  <2> QED BY <1>1, <1>3, <2>1, <2>2, AptJoin DEF cmd
<1>6. \A h \in Hook : Open(s, h) <=> cmd.op = "unclaim" /\ cmd.x = h /\ In(db.tokens, h)
  BY <1>3, <1>5 DEF Becomes
<1>7. /\ Len(q) \in Nat
      /\ \A i \in 1..Len(s) :
           \/ i \in 1..Len(q) /\ s[i] = q[i]
           \/ \E k \in 1..Len(cmds) : k # 1 /\ s[i] = cmds[k] /\ i = Len(q) + k - 1
      /\ \A i \in 1..Len(q) : i \in 1..Len(s) /\ s[i] = q[i]
      /\ \A k \in 1..Len(cmds) : k # 1 =>
           Len(q) + k - 1 \in 1..Len(s) /\ s[Len(q) + k - 1] = cmds[k]
  BY <1>1, <1>2, JoinTail, ZenonT(40)
<1> HIDE DEF s
<1>8. layout = "keys" => Keyed(s, db)
  <2>1. ASSUME layout = "keys", NEW i \in 1..Len(s), s[i].op = "del", s[i].x = "hooks"
        PROVE  i = 1 /\ In(db.hooks, s[i].v.x)
    <3>1. CASE i \in 1..Len(q) /\ s[i] = q[i]
      BY <1>3, <2>1, <3>1 DEF Becomes
    <3>2. CASE \E k \in 1..Len(cmds) : k # 1 /\ s[i] = cmds[k]
      BY <1>1, <2>1, <3>2 DEF Keyed
    <3> QED BY <1>7, <3>1, <3>2
  <2>2. ASSUME layout = "keys", NEW h \in Hook, Freeing(s, h)
        PROVE  FALSE
    <3>1. cmd.op = "unclaim"
      BY <1>6, <2>2, FreeingOpen
    <3> QED BY <1>3, <2>2, <3>1 DEF Fits
  <2> QED BY <2>1, <2>2 DEF Keyed
<1>9. ASSUME NEW h \in Hook, EvenIn(db, h, Opened(h))
      PROVE  Opened(h)' <=> Opened(h)
  <2>1. Open(s, h) => Open(cmds, h)
    <3>1. ASSUME Open(s, h)
          PROVE  Open(cmds, h)
      <4>1. Shuts(cmd, h)
        BY <1>6, <3>1 DEF Shuts
      <4> QED BY <1>1, <1>2, <4>1, OpenHead DEF cmd
    <3> QED BY <3>1
  <2>2. Open(cmds, h) => Open(s, h)
    <3>1. ASSUME Open(cmds, h)
          PROVE  Open(s, h)
      <4>1. cmd.op # "unlist"
        BY <1>3 DEF Reading
      <4>2. Shuts(cmd, h)
        BY <1>1, <1>2, <3>1, <4>1, OpenHead DEF cmd
      <4>3. cmd.op = "unclaim"
        BY <1>3, <4>2, Kinds
      <4>4. cmd.x = h
        BY <4>2, <4>3 DEF Shuts
      <4>5. In(db.tokens, h)
        <5>1. Opened(h)
          BY <3>1 DEF Opened, cmds
        <5> QED BY <1>9, <5>1 DEF EvenIn
      <4> QED BY <1>6, <4>3, <4>4, <4>5
    <3> QED BY <3>1
  <2>3. \A a \in Caller : Open(todo'[a], h) <=> Open(todo[a], h)
    <3>1. ASSUME NEW a \in Caller
          PROVE  Open(todo'[a], h) <=> Open(todo[a], h)
      <4>1. CASE a = c
        BY <1>4, <2>1, <2>2, <4>1 DEF cmds
      <4>2. CASE a # c
        BY <4>2
      <4> QED BY <4>1, <4>2
    <3> QED BY <3>1
  <2> QED BY <2>3 DEF Opened
<1>10. Cardinality(Uneven') <= Allowed * faults'
  <2>1. Cardinality(Uneven') <= Cardinality(Uneven)
    BY <1>9, SameGaps
  <2>2. Cardinality(Uneven) <= Allowed * faults
    BY DEF SInv, PairInv
  <2>3. Allowed * faults \in Nat
    BY <1>1 DEF Allowed
  <2> QED BY <2>1, <2>2, <2>3, UnevenFinite
<1>11. PairInv
  BY DEF SInv
<1>12. Apt(todo'[c], RunOf(call'[c].x)) /\ (layout = "keys" => Keyed(todo'[c], db))
  BY <1>4, <1>5, <1>8
<1> QED BY <1>10, <1>11, <1>12, PairStep

LEMMA ReadTidies ==
  ASSUME SInv, NEW c \in Caller, todo[c] # <<>>, Head(todo[c]).op \in Reading,
         NEW r, r = RunOf(call[c].x), NEW q, Becomes(db, Head(todo[c]), q, r),
         layout' = layout, db' = db, faults' = faults, call' = call,
         todo'[c] = q \o Tail(todo[c]),
         \A a \in Caller : a # c => todo'[a] = todo[a]
  PROVE  TidyInv'
<1>1. SUFFICES ASSUME faults = 0
               PROVE  TidyInv'
  BY DEF TidyInv
<1> DEFINE cmds == todo[c]
           cmd == Head(cmds)
           s == q \o Tail(cmds)
<1>2. /\ Apt(cmds, r) /\ cmds # <<>> /\ Apt(q, r) /\ Tidy(cmds, r, db)
      /\ cmds \in Seq(Command) /\ q \in Seq(Command)
  BY <1>1 DEF SInv, PairInv, TidyInv, Becomes, Apt
<1>3. /\ cmd.op \in Reading /\ Becomes(db, cmd, q, r) /\ cmd \in Command /\ Fits(cmd, r)
      /\ cmd = cmds[1] /\ 1 \in 1..Len(cmds)
  <2>1. cmd \in Command /\ Fits(cmd, r)
    BY <1>2, AptTail
  <2>2. cmd = cmds[1] /\ Len(cmds) \in Nat \ {0}
    BY <1>2, TailAt
  <2> QED BY <2>1, <2>2
<1>4. todo'[c] = s /\ call'[c] = call[c]
  OBVIOUS
<1> HIDE DEF cmds, cmd
<1>5. /\ Len(q) \in Nat
      /\ \A i \in 1..Len(s) :
           \/ i \in 1..Len(q) /\ s[i] = q[i]
           \/ \E k \in 1..Len(cmds) : k # 1 /\ s[i] = cmds[k] /\ i = Len(q) + k - 1
      /\ \A i \in 1..Len(q) : i \in 1..Len(s) /\ s[i] = q[i]
      /\ \A k \in 1..Len(cmds) : k # 1 =>
           Len(q) + k - 1 \in 1..Len(s) /\ s[Len(q) + k - 1] = cmds[k]
  BY <1>2, JoinTail, ZenonT(40)
<1> HIDE DEF s
(* A hook that is there is listed while its run reads the list.            *)
<1>6. ASSUME NEW x \in Hook \union Wait, In(db[TabOf(x)], x), Removes(cmd, x)
      PROVE  \E i \in 1..Len(q) : Removes(q[i], x)
  <2>1. ASSUME layout = "keys", cmd.op = "hooks"
        PROVE  x \in db.byRun
    <3>1. x \in Hook /\ TabOf(x) = "hooks" /\ RunOf(x) = r
      BY <1>3, <1>6, <2>1, RemovesFits DEF Removes, TabOf
    <3>2. In(db.hooks, x)
      <4>1. db[TabOf(x)] = db.hooks
        BY <3>1
      <4> QED BY <1>6, <4>1
    <3>3. ASSUME NEW a \in Caller, Listing(todo[a], x)
          PROVE  FALSE
      <4>1. PICK i \in 1..Len(todo[a]) : todo[a][i].op = "list" /\ todo[a][i].x = x
        BY <3>3 DEF Listing
      <4>2. RunOf(call[a].x) = r
        BY <3>1, <4>1 DEF SInv, PairInv, Apt, Fits
      <4>3. todo[a] # <<>>
        BY <3>3, NothingLeft
      <4>4. a = c
        BY <4>2, <4>3, InCall DEF SInv, IInv
      <4>5. cmd.op \in Adding \union {"append"}
        <5>1. i \in 1..Len(cmds) /\ cmds[i].op \in Adding
          BY <4>1, <4>4 DEF cmds, Adding
        <5> QED BY <1>2, <1>3, <5>1 DEF Apt, Proper
      <4> QED BY <2>1, <4>5 DEF Adding
    <3>4. x \in db.byRun \/ \E a \in Caller : Listing(todo[a], x)
      BY <1>1, <2>1, <3>1, <3>2 DEF SInv, TidyInv
    <3> QED BY <3>3, <3>4
  <2> QED BY <1>3, <1>6, <2>1 DEF Becomes
<1>7. Tidy(s, r, db)
  <2>1. ASSUME NEW i \in 1..Len(s), s[i].op \in Adding
        PROVE  db.run[r] \notin RunTerminal
    <3>1. CASE i \in 1..Len(q) /\ s[i] = q[i]
      <4>1. cmd.op = "claim"
        BY <1>3, <2>1, <3>1 DEF Becomes
      <4>2. cmds[1].op \in Adding
        BY <1>3, <4>1 DEF Adding
      <4> QED BY <1>2, <1>3, <4>2 DEF Tidy
    <3>2. CASE \E k \in 1..Len(cmds) : k # 1 /\ s[i] = cmds[k]
      BY <1>2, <2>1, <3>2 DEF Tidy
    <3> QED BY <1>5, <3>1, <3>2
  <2>2. ASSUME NEW i \in 1..Len(s), s[i].op = "put", s[i].x = "waits"
        PROVE  FALSE
    <3>1. CASE i \in 1..Len(q) /\ s[i] = q[i]
      BY <1>3, <2>2, <3>1 DEF Becomes, Adding
    <3>2. CASE \E k \in 1..Len(cmds) : k # 1 /\ s[i] = cmds[k]
      BY <1>2, <2>2, <3>2 DEF Tidy
    <3> QED BY <1>5, <3>1, <3>2
  <2>3. ASSUME NEW i \in 1..Len(s), s[i].op = "unlist", In(db.hooks, s[i].x)
        PROVE  \E j \in 1..Len(s) : j < i /\ Removes(s[j], s[i].x)
    <3>1. CASE i \in 1..Len(q) /\ s[i] = q[i]
      <4>1. PICK j \in 1..Len(q) : j < i /\ Removes(q[j], s[i].x)
        BY <1>3, <2>3, <3>1 DEF Becomes
      <4> QED BY <1>5, <4>1
    <3>2. CASE \E k \in 1..Len(cmds) : k # 1 /\ s[i] = cmds[k] /\ i = Len(q) + k - 1
      <4>1. PICK k \in 1..Len(cmds) : k # 1 /\ s[i] = cmds[k] /\ i = Len(q) + k - 1
        BY <3>2
      <4>2. PICK l \in 1..Len(cmds) : l < k /\ Removes(cmds[l], s[i].x)
        BY <1>2, <2>3, <4>1 DEF Tidy
      <4>3. CASE l # 1
        <5>1. Len(q) + l - 1 \in 1..Len(s) /\ s[Len(q) + l - 1] = cmds[l]
          BY <1>5, <4>2, <4>3
        <5>2. Len(q) + l - 1 < i
          BY <1>5, <4>1, <4>2
        <5> QED BY <4>2, <5>1, <5>2
      <4>4. CASE l = 1
        <5>1. s[i].x \in Hook
          <6>1. cmds[k] \in Command
            BY <1>2
          <6> QED BY <2>3, <4>1, <6>1, Zenon DEF Command
        <5>2. In(db[TabOf(s[i].x)], s[i].x)
          <6>1. TabOf(s[i].x) = "hooks"
            BY <5>1 DEF TabOf
          <6>2. db[TabOf(s[i].x)] = db.hooks
            BY <6>1
          <6> QED BY <2>3, <6>2
        <5>3. PICK j \in 1..Len(q) : Removes(q[j], s[i].x)
          BY <1>3, <1>6, <4>2, <4>4, <5>1, <5>2
        <5>4. j \in 1..Len(s) /\ s[j] = q[j] /\ j < i
          BY <1>5, <4>1, <5>3
        <5> QED BY <5>3, <5>4
      <4> QED BY <4>3, <4>4
    <3> QED BY <1>5, <3>1, <3>2
  <2> QED BY <2>1, <2>2, <2>3 DEF Tidy
<1>8. ASSUME NEW x \in Hook \union Wait, In(db[TabOf(x)], x), Removing(cmds, x)
      PROVE  Removing(s, x)
  <2>1. PICK k \in 1..Len(cmds) : Removes(cmds[k], x)
    BY <1>8 DEF Removing
  <2>2. CASE k # 1
    BY <1>5, <2>1, <2>2 DEF Removing
  <2>3. CASE k = 1
    <3>1. PICK i \in 1..Len(q) : Removes(q[i], x)
      BY <1>3, <1>6, <1>8, <2>1, <2>3
    <3> QED BY <1>5, <3>1 DEF Removing
  <2> QED BY <2>2, <2>3
<1>9. ASSUME NEW h \in Hook, Listing(cmds, h)
      PROVE  Listing(s, h)
  <2>1. PICK k \in 1..Len(cmds) : cmds[k].op = "list" /\ cmds[k].x = h
    BY <1>9 DEF Listing
  <2>2. k # 1
    BY <1>3, <2>1 DEF Reading
  <2>3. Len(q) + k - 1 \in 1..Len(s) /\ s[Len(q) + k - 1] = cmds[k]
    BY <1>5, <2>1, <2>2
  <2> QED BY <2>1, <2>3 DEF Listing
<1>10. TidyInv
  BY DEF SInv
<1>11. /\ Tidy(todo'[c], RunOf(call'[c].x), db)
       /\ \A x \in Hook \union Wait : In(db[TabOf(x)], x) /\ Removing(todo[c], x) =>
            Removing(todo'[c], x)
       /\ \A h \in Hook : Listing(todo[c], h) => Listing(todo'[c], h)
  BY <1>4, <1>7, <1>8, <1>9 DEF cmds
<1> QED BY <1>10, <1>11, TidyStep

(* A command and the gaps of all the calls.                                *)
LEMMA GapAfter ==
  ASSUME SInv, NEW c \in Caller, todo[c] # <<>>, Head(todo[c]).op \notin Reading,
         todo'[c] = Tail(todo[c]), \A a \in Caller : a # c => todo'[a] = todo[a]
  PROVE  Gap(Head(todo[c]), Gapped, Gapped')
<1> DEFINE cmds == todo[c]
           cmd == Head(cmds)
           r == RunOf(call[c].x)
<1>1. \A a \in Caller : Apt(todo[a], RunOf(call[a].x))
  BY DEF SInv, PairInv
<1>2. Apt(cmds, r) /\ cmds \in Seq(Command) /\ Paired(cmds)
  BY <1>1 DEF Apt
<1>3. cmd \in Command /\ Fits(cmd, r)
  BY <1>2, AptTail
<1>4. ASSUME NEW h \in Hook, NEW a \in Caller, a # c, RunOf(h) = r
      PROVE  ~Open(todo[a], h)
  <2>1. RunOf(call[a].x) = r => todo[a] = <<>>
    BY <1>4, InCall DEF SInv, IInv
  <2> QED BY <1>1, <1>4, <2>1, OpenFits
<1>5. ASSUME NEW h \in Hook
      PROVE  /\ h \in Gapped' <=> Opens(cmd, h) \/ (h \in Gapped /\ ~Shuts(cmd, h))
             /\ Shuts(cmd, h) => h \in Gapped
             /\ Opens(cmd, h) => h \notin Gapped
  <2>1. Open(Tail(cmds), h) <=> Opens(cmd, h) \/ (Open(cmds, h) /\ ~Shuts(cmd, h))
    BY <1>2, OpenTail
  <2>2. /\ Shuts(cmd, h) => Open(cmds, h)
        /\ Open(cmds, h) /\ cmd.op # "unlist" => Shuts(cmd, h)
    BY <1>2, OpenHead
  <2>3. /\ h \in Gapped <=> Open(cmds, h) \/ \E a \in Caller : a # c /\ Open(todo[a], h)
        /\ h \in Gapped' <=> Open(Tail(cmds), h) \/ \E a \in Caller : a # c /\ Open(todo[a], h)
    <3>1. h \in Gapped <=> \E a \in Caller : Open(todo[a], h)
      BY DEF Gapped, Opened
    <3>2. h \in Gapped' <=> \E a \in Caller : Open(todo'[a], h)
      BY DEF Gapped, Opened
    <3> HIDE DEF cmds
    <3>3. todo'[c] = Tail(cmds) /\ todo[c] = cmds
      BY DEF cmds
    <3> QED BY <3>1, <3>2, <3>3
  <2>4. Opens(cmd, h) \/ Shuts(cmd, h) => RunOf(h) = r
    BY <1>3 DEF Opens, Shuts, Fits
  <2>5. Opens(cmd, h) => ~Shuts(cmd, h) /\ cmd.op # "unlist"
    BY Kinds
  <2> HIDE DEF cmds, cmd, r
  <2>6. Opens(cmd, h) \/ Shuts(cmd, h) => ~\E a \in Caller : a # c /\ Open(todo[a], h)
    BY <1>4, <2>4
  <2> QED BY <2>1, <2>2, <2>3, <2>5, <2>6
<1> QED BY <1>5 DEF Gap

LEMMA WritePairs ==
  ASSUME SInv, NEW c \in Caller, Write(c), Head(todo[c]).op \notin Reading
  PROVE  PairInv'
<1> DEFINE cmds == todo[c]
           cmd == Head(cmds)
           r == RunOf(call[c].x)
           D == Apply(db, cmd)
<1>1. /\ cmds # <<>> /\ layout' = layout /\ call' = call /\ db' = D
      /\ todo'[c] = Tail(cmds) /\ \A a \in Caller : a # c => todo'[a] = todo[a]
      /\ IF Harms(db, cmd) THEN faults' = faults + 1 ELSE faults' = faults
  BY DEF Write, OneFault, SInv, IInv, CallInv
<1>2. /\ layout \in {"keys", "rows"} /\ db \in Data /\ faults \in Nat
      /\ \A a \in Caller : Apt(todo[a], RunOf(call[a].x))
      /\ layout = "keys" =>
           /\ PerKey(db.hooks, "hooks") /\ PerKey(db.tokens, "tokens") /\ PerKey(db.waits, "waits")
           /\ \A a \in Caller : Keyed(todo[a], db)
      /\ Cardinality(Uneven) <= Allowed * faults
  BY DEF SInv, IInv, CallInv, PairInv
<1>3. /\ Apt(cmds, r) /\ Apt(Tail(cmds), r) /\ cmd \in Command /\ Fits(cmd, r)
      /\ cmds \in Seq(Command) /\ cmd.op \notin Reading
  BY <1>1, <1>2, AptTail DEF Apt
<1>4. cmd = cmds[1] /\ 1 \in 1..Len(cmds)
  <2>1. Head(cmds) = cmds[1] /\ Len(cmds) \in Nat \ {0}
    BY <1>1, <1>3, TailAt
  <2> QED BY <2>1
<1>5. Gap(cmd, Gapped, Gapped')
  BY <1>1, GapAfter
<1> HIDE DEF cmds, cmd, r, D
<1>6. ASSUME layout = "keys"
      PROVE  /\ PerKey(D.hooks, "hooks") /\ PerKey(D.tokens, "tokens") /\ PerKey(D.waits, "waits")
             /\ \A a \in Caller : Keyed(todo'[a], D)
  <2>1. ASSUME NEW tab \in {"hooks", "tokens", "waits"}, PerKey(db[tab], tab), Alters(cmd, tab)
        PROVE  PerKey(D[tab], tab)
    <3>1. cmd.v.x # None
      BY <1>3, <2>1 DEF Fits, Alters
    <3> QED BY <1>2, <1>3, <1>6, <2>1, <3>1, KeysEffect DEF D
  <2>2. /\ ~Alters(cmd, "hooks") => D.hooks = db.hooks
        /\ ~Alters(cmd, "tokens") => D.tokens = db.tokens
        /\ ~Alters(cmd, "waits") => D.waits = db.waits
    BY <1>2, <1>3, TablesAfter DEF D
  <2>3. PerKey(D.hooks, "hooks")
    <3>1. PerKey(db["hooks"], "hooks") /\ db["hooks"] = db.hooks /\ D["hooks"] = D.hooks
      BY <1>2, <1>6
    <3>2. Alters(cmd, "hooks") => PerKey(D["hooks"], "hooks")
      BY <2>1, <3>1
    <3> QED BY <1>2, <1>6, <2>2, <3>1, <3>2
  <2>4. PerKey(D.tokens, "tokens")
    <3>1. PerKey(db["tokens"], "tokens") /\ db["tokens"] = db.tokens /\ D["tokens"] = D.tokens
      BY <1>2, <1>6
    <3>2. Alters(cmd, "tokens") => PerKey(D["tokens"], "tokens")
      BY <2>1, <3>1
    <3> QED BY <1>2, <1>6, <2>2, <3>1, <3>2
  <2>5. PerKey(D.waits, "waits")
    <3>1. PerKey(db["waits"], "waits") /\ db["waits"] = db.waits /\ D["waits"] = D.waits
      BY <1>2, <1>6
    <3>2. Alters(cmd, "waits") => PerKey(D["waits"], "waits")
      BY <2>1, <3>1
    <3> QED BY <1>2, <1>6, <2>2, <3>1, <3>2
  <2>6. ASSUME NEW a \in Caller
        PROVE  Keyed(todo'[a], D)
    <3>1. CASE a = c
      <4>1. Keyed(cmds, db) /\ PerKey(db.hooks, "hooks")
        BY <1>2, <1>6 DEF cmds
      <4>2. Keyed(Tail(cmds), D)
        BY <1>1, <1>2, <1>3, <1>6, <4>1, KeyedTail DEF cmd, D
      <4> QED BY <1>1, <3>1, <4>2
    <3>2. CASE a # c
      <4>1. CASE RunOf(call[a].x) = r
        <5>1. todo[a] = <<>>
          BY <1>1, <3>2, <4>1, InCall DEF SInv, IInv, cmds, r
        <5> QED BY <1>1, <3>2, <5>1, NothingLeft
      <4>2. CASE RunOf(call[a].x) # r
        <5>1. Keyed(todo[a], db) /\ PerKey(db.hooks, "hooks") /\ Apt(todo[a], RunOf(call[a].x))
          BY <1>2, <1>6
        <5>2. Keyed(todo[a], D)
          BY <1>2, <1>3, <1>6, <4>2, <5>1, KeyedOther DEF D
        <5> QED BY <1>1, <3>2, <5>2
      <4> QED BY <4>1, <4>2
    <3> QED BY <3>1, <3>2
  <2> QED BY <2>3, <2>4, <2>5, <2>6
<1>7. Cardinality(Uneven') <= Allowed * faults'
  <2>1. layout = "keys" =>
          /\ PerKey(db.hooks, "hooks") /\ PerKey(db.tokens, "tokens")
          /\ cmd.op = "del" /\ cmd.x = "hooks" => In(db.hooks, cmd.v.x)
          /\ cmd.op = "del" /\ cmd.x = "tokens" => ~In(db.hooks, cmd.v.x)
    <3>1. SUFFICES ASSUME layout = "keys"
                   PROVE  /\ cmd.op = "del" /\ cmd.x = "hooks" => In(db.hooks, cmd.v.x)
                          /\ cmd.op = "del" /\ cmd.x = "tokens" => ~In(db.hooks, cmd.v.x)
      BY <1>2
    <3>2. Keyed(cmds, db)
      BY <1>2, <3>1 DEF cmds
    <3>3. cmd.op = "del" /\ cmd.x = "hooks" => In(db.hooks, cmd.v.x)
      BY <1>4, <3>2 DEF Keyed
    <3>4. ASSUME cmd.op = "del", cmd.x = "tokens"
          PROVE  ~In(db.hooks, cmd.v.x)
      <4>1. Unlists(cmds, 0, 1)
        BY DEF Unlists
      <4>2. Freeing(cmds, cmd.v.x)
        BY <1>4, <3>4, <4>1 DEF Freeing
      <4>3. cmd.v.x \in Hook
        <5>1. Alters(cmd, "tokens") /\ cmd.v.x # None
          BY <1>3, <3>4 DEF Alters, Fits
        <5> QED BY <1>3, <5>1, CmdRow
      <4> QED BY <3>2, <4>2, <4>3 DEF Keyed
    <3> QED BY <3>3, <3>4
  <2>2. Cardinality(Odd(Apply(db, cmd), Gapped')) <=
          Cardinality(Odd(db, Gapped)) + (IF Harms(db, cmd) THEN Allowed ELSE 0)
    BY <1>2, <1>3, <1>5, <2>1, OddAfter
  <2>3. Cardinality(Uneven') <= Cardinality(Uneven) + (IF Harms(db, cmd) THEN Allowed ELSE 0)
    BY <1>1, <2>2 DEF Uneven, D
  <2>4. CASE layout = "keys"
    BY <1>1, <1>2, <2>3, <2>4, UnevenFinite DEF Allowed, cmd, cmds
  <2>5. CASE layout = "rows"
    BY <1>1, <1>2, <2>3, <2>5, UnevenFinite DEF Allowed, cmd, cmds
  <2> QED BY <1>2, <2>4, <2>5
<1>8. ASSUME NEW a \in Caller
      PROVE  Apt(todo'[a], RunOf(call'[a].x))
  <2>1. CASE a = c
    BY <1>1, <1>3, <2>1 DEF r
  <2>2. CASE a # c
    BY <1>1, <1>2, <2>2
  <2> QED BY <2>1, <2>2
<1> QED BY <1>1, <1>6, <1>7, <1>8, SameLayout DEF PairInv

LEMMA WriteTidies ==
  ASSUME SInv, NEW c \in Caller, Write(c), Head(todo[c]).op \notin Reading
  PROVE  TidyInv'
<1>1. SUFFICES ASSUME faults' = 0
               PROVE  TidyInv'
  BY DEF TidyInv
<1> DEFINE cmds == todo[c]
           cmd == Head(cmds)
           r == RunOf(call[c].x)
           D == Apply(db, cmd)
<1>2. /\ cmds # <<>> /\ layout' = layout /\ call' = call /\ db' = D
      /\ todo'[c] = Tail(cmds) /\ \A a \in Caller : a # c => todo'[a] = todo[a]
      /\ faults = 0 /\ ~Harms(db, cmd)
  <2>1. faults \in Nat
    BY DEF SInv, IInv, CallInv
  <2> QED BY <1>1, <2>1 DEF Write, OneFault, SInv, IInv, CallInv
<1>3. /\ \A w \in Wait : One(db.waits, w)
      /\ \A x \in Hook \union Wait : db.run[RunOf(x)] \in RunTerminal /\ In(db[TabOf(x)], x) =>
           \E a \in Caller : Removing(todo[a], x)
      /\ \A a \in Caller : Tidy(todo[a], RunOf(call[a].x), db)
      /\ layout = "keys" => \A h \in Hook : In(db.hooks, h) =>
           h \in db.byRun \/ \E a \in Caller : Listing(todo[a], h)
  BY <1>2 DEF SInv, TidyInv
<1>4. /\ layout \in {"keys", "rows"} /\ db \in Data
      /\ \A a \in Caller : Apt(todo[a], RunOf(call[a].x))
      /\ layout = "keys" => PerKey(db.hooks, "hooks") /\ PerKey(db.waits, "waits")
      /\ r \in Run /\ cmds \in Seq(Command)
  <2>1. CallInv
    BY DEF SInv, IInv
  <2>2. r \in Run
    BY <1>2, <2>1, InCall
  <2> QED BY <2>1, <2>2 DEF CallInv, SInv, PairInv
<1>5. \A h \in Hook : One(db.hooks, h)
  <2>1. Cardinality(Uneven) <= 0
    <3>1. Cardinality(Uneven) <= Allowed * faults
      BY DEF SInv, PairInv
    <3>2. Allowed * faults = 0
      BY <1>2 DEF Allowed
    <3> QED BY <3>1, <3>2
  <2>2. Uneven = {}
    BY <2>1, UnevenFinite, FS_EmptySet
  <2> QED BY <2>2 DEF Uneven, Odd, EvenIn
<1>6. Apart(db, cmds, r) /\ Tidy(cmds, r, db)
  BY <1>2, <1>3, <1>4, <1>5 DEF Apart
<1> HIDE DEF cmds, cmd, r, D
<1>7. ASSUME NEW w \in Wait
      PROVE  One(D.waits, w)
  <2>1. (cmd.op = "put" /\ cmd.x = "waits" /\ cmd.v.x = w => ~In(db.waits, w)) => One(D.waits, w)
    BY <1>4, <1>6, HookAfter DEF D, cmd
  <2>2. cmd = cmds[1] /\ 1 \in 1..Len(cmds)
    <3>1. Head(cmds) = cmds[1] /\ Len(cmds) \in Nat \ {0}
      BY <1>2, <1>4, TailAt
    <3> QED BY <3>1 DEF cmd
  <2>3. cmd.op = "put" /\ cmd.x = "waits" => ~In(db.waits, cmd.v.x)
    BY <1>6, <2>2 DEF Tidy
  <2> QED BY <2>1, <2>3
<1>8. ASSUME NEW x \in Hook \union Wait, D.run[RunOf(x)] \in RunTerminal, In(D[TabOf(x)], x)
      PROVE  \E a \in Caller : Removing(todo'[a], x)
  <2>1. \/ Removing(Tail(cmds), x)
        \/ /\ db.run[RunOf(x)] \in RunTerminal /\ In(db[TabOf(x)], x)
           /\ ~Removes(cmd, x)
    BY <1>4, <1>6, <1>8, LeftAfter DEF D, cmd
  <2>2. CASE Removing(Tail(cmds), x)
    BY <1>2, <2>2
  <2>3. CASE /\ db.run[RunOf(x)] \in RunTerminal /\ In(db[TabOf(x)], x)
             /\ ~Removes(cmd, x)
    <3>1. PICK a \in Caller : Removing(todo[a], x)
      BY <1>3, <2>3
    <3>2. CASE a = c
      <4>1. Removing(Tail(cmds), x)
        BY <1>2, <1>4, <2>3, <3>1, <3>2, TailShows DEF cmds, cmd
      <4> QED BY <1>2, <4>1
    <3>3. CASE a # c
      BY <1>2, <3>1, <3>3
    <3> QED BY <3>2, <3>3
  <2> QED BY <2>1, <2>2, <2>3
<1>9. ASSUME NEW a \in Caller
      PROVE  Tidy(todo'[a], RunOf(call'[a].x), D)
  <2>1. CASE a = c
    <3>1. Tidy(Tail(cmds), r, D)
      BY <1>4, <1>6, TidyTail DEF D, cmd
    <3> QED BY <1>2, <2>1, <3>1 DEF r
  <2>2. CASE a # c /\ todo[a] = <<>>
    BY <1>2, <2>2, NothingLeft
  <2>3. CASE a # c /\ todo[a] # <<>>
    <3> DEFINE q == RunOf(call[a].x)
    <3>1. q # r /\ q \in Run
      <4>1. CallInv
        BY DEF SInv, IInv
      <4> QED BY <1>2, <2>3, <4>1, InCall DEF r, cmds
    <3>2. Apt(todo[a], q) /\ Tidy(todo[a], q, db)
      BY <1>3, <1>4
    <3> HIDE DEF q
    <3>3. Tidy(todo[a], q, D)
      BY <1>4, <1>6, <3>1, <3>2, TidyOther DEF D, cmd
    <3> QED BY <1>2, <2>3, <3>3 DEF q
  <2> QED BY <2>1, <2>2, <2>3
<1>10. ASSUME layout = "keys", NEW h \in Hook, In(D.hooks, h)
       PROVE  h \in D.byRun \/ \E a \in Caller : Listing(todo'[a], h)
  <2>1. \/ h \in D.byRun \/ Listing(Tail(cmds), h)
        \/ In(db.hooks, h) /\ h \notin db.byRun /\ ~Listing(cmds, h)
    BY <1>6, <1>10, ListedAfter DEF D, cmd
  <2>2. CASE In(db.hooks, h) /\ h \notin db.byRun /\ ~Listing(cmds, h)
    <3>1. PICK a \in Caller : Listing(todo[a], h)
      BY <1>3, <1>10, <2>2
    <3>2. a # c
      BY <2>2, <3>1 DEF cmds
    <3> QED BY <1>2, <3>1, <3>2
  <2> QED BY <1>2, <2>1, <2>2
<1> QED BY <1>2, <1>7, <1>8, <1>9, <1>10 DEF TidyInv

LEMMA StrayNext == SInv /\ [Next]_vars => SInv'
<1>1. SUFFICES ASSUME SInv, [Next]_vars
               PROVE  PairInv' /\ TidyInv'
  BY NextKeeps DEF SInv
<1>2. CallInv
  BY <1>1 DEF SInv, IInv
<1>3. ASSUME NEW c \in Caller, Create(c)
      PROVE  PairInv' /\ TidyInv'
  <2>1. todo[c] = <<>> /\ todo'[c] = <<>> /\ layout' = layout /\ db' = db /\ faults' = faults
        /\ \A a \in Caller : a # c => todo'[a] = todo[a] /\ call'[a] = call[a]
    BY <1>2, <1>3 DEF Create, CallInv
  <2> QED BY <1>1, <2>1, EmptyKeeps
<1>4. ASSUME NEW c \in Caller, Validate(c)
      PROVE  PairInv' /\ TidyInv'
  BY <1>1, <1>4, ValidateTidy
<1>5. ASSUME NEW c \in Caller, Write(c), Head(todo[c]).op \in Reading
      PROVE  PairInv' /\ TidyInv'
  <2> DEFINE cmd == Head(todo[c])
             r == RunOf(call[c].x)
             q == Expand(db, cmd)
  <2>1. /\ todo[c] # <<>> /\ layout' = layout /\ db' = db /\ faults' = faults /\ call' = call
        /\ todo'[c] = q \o Tail(todo[c]) /\ \A a \in Caller : a # c => todo'[a] = todo[a]
        /\ layout \in {"keys", "rows"} /\ db \in Data
    BY <1>2, <1>5 DEF Write, CallInv
  <2>2. cmd \in Command /\ Fits(cmd, r)
    BY <1>1, <2>1, AptTail DEF SInv, PairInv
  <2>3. Becomes(db, cmd, q, r)
    BY <1>5, <2>1, <2>2, ExpandBecomes
  <2> HIDE DEF q, r
  <2>4. r = RunOf(call[c].x)
    BY DEF r
  <2> QED BY <1>1, <1>5, <2>1, <2>3, <2>4, ReadPairs, ReadTidies
<1>6. ASSUME NEW c \in Caller, Write(c), Head(todo[c]).op \notin Reading
      PROVE  PairInv' /\ TidyInv'
  BY <1>1, <1>6, WritePairs, WriteTidies
<1>7. ASSUME NEW c \in Caller, Return(c)
      PROVE  PairInv' /\ TidyInv'
  <2>1. todo[c] = <<>> /\ todo'[c] = <<>> /\ layout' = layout /\ db' = db /\ faults' = faults
        /\ \A a \in Caller : a # c => todo'[a] = todo[a] /\ call'[a] = call[a]
    BY <1>2, <1>7 DEF Return, Reset, CallInv
  <2> QED BY <1>1, <2>1, EmptyKeeps
<1>8. ASSUME NEW c \in Caller, Fail(c)
      PROVE  PairInv' /\ TidyInv'
  BY <1>1, <1>8, FailKeeps
<1>9. CASE UNCHANGED vars
  <2>1. /\ layout' = layout /\ db' = db /\ call' = call /\ todo' = todo /\ faults' = faults
    BY <1>9 DEF vars
  <2>2. Uneven' = Uneven
    BY <2>1 DEF Uneven, Gapped, Opened
  <2>3. PairInv'
    BY <1>1, <2>1, <2>2, SameLayout DEF SInv, PairInv
  <2>4. TidyInv'
    BY <1>1, <2>1 DEF SInv, TidyInv
  <2> QED BY <2>3, <2>4
<1> QED BY <1>1, <1>3, <1>4, <1>5, <1>6, <1>7, <1>8, <1>9 DEF Next

LEMMA StrayInit == Init => SInv
<1>1. SUFFICES ASSUME Init
               PROVE  SInv
  OBVIOUS
<1>2. /\ layout \in {"keys", "rows"} /\ faults = 0 /\ db \in Data /\ Matched(db)
      /\ \A c \in Caller : todo[c] = <<>>
  BY <1>1, StartsAssumption, PolledStoreAssumption DEF Init
<1>3. /\ \A m, n \in DOMAIN db.hooks :
           db.hooks[m].x # None /\ (db.hooks[m].x = db.hooks[n].x => m = n)
      /\ \A m, n \in DOMAIN db.tokens :
           db.tokens[m].x # None /\ (db.tokens[m].x = db.tokens[n].x => m = n)
      /\ \A m, n \in DOMAIN db.waits :
           db.waits[m].x # None /\ (db.waits[m].x = db.waits[n].x => m = n)
  <2>1. \A tab \in {"hooks", "tokens", "waits"} : \A m, n \in DOMAIN db[tab] :
          db[tab][m].x # None /\ (db[tab][m].x = db[tab][n].x => m = n)
    BY <1>2 DEF Matched
  <2> QED BY <2>1
<1>4. \A x : One(db.hooks, x) /\ One(db.tokens, x) /\ One(db.waits, x)
  BY <1>3 DEF One
<1>5. \A h \in Hook :
        /\ In(db.hooks, h) <=> In(db.tokens, h)
        /\ In(db.hooks, h) <=> h \in db.byRun
  <2>1. db.hooks \in Seq(HookRow) /\ db.tokens \in Seq(HookRow)
    BY <1>2 DEF Data
  <2>2. \A h \in Hook : /\ Has(db.hooks, h) <=> In(db.hooks, h)
                        /\ Has(db.tokens, h) <=> In(db.tokens, h)
    BY <2>1, Seen
  <2> QED BY <1>2, <2>2 DEF Matched
<1>6. ASSUME NEW x \in Hook \union Wait, db.run[RunOf(x)] \in RunTerminal, In(db[TabOf(x)], x)
      PROVE  FALSE
  <2>1. db.hooks \in Seq(HookRow) /\ db.waits \in Seq(WaitRow)
    BY <1>2 DEF Data
  <2>2. ~Has(db.hooks, x) /\ ~Has(db.waits, x)
    BY <1>2, <1>6 DEF Matched
  <2>3. ~In(db.hooks, x) /\ ~In(db.waits, x)
    BY <2>1, <2>2, Seen
  <2>4. db[TabOf(x)] = db.hooks \/ db[TabOf(x)] = db.waits
    BY DEF TabOf
  <2> QED BY <1>6, <2>3, <2>4
<1>7. PairInv
  <2>1. layout = "keys" =>
          /\ PerKey(db.hooks, "hooks") /\ PerKey(db.tokens, "tokens") /\ PerKey(db.waits, "waits")
    <3>1. \A m, n \in DOMAIN db.tokens :
            HookToken[db.tokens[m].x] = HookToken[db.tokens[n].x] => m = n
      BY <1>2 DEF Matched
    <3> QED BY <1>3, <3>1 DEF PerKey, Key
  <2>2. Gapped = {}
    BY <1>2, NothingLeft DEF Gapped, Opened
  <2>3. Uneven = {}
    BY <1>4, <1>5, <2>2 DEF Uneven, Odd, EvenIn
  <2>4. Cardinality(Uneven) = 0 /\ Allowed * faults = 0
    BY <1>2, <2>3, FS_EmptySet DEF Allowed
  <2> QED BY <1>2, <2>1, <2>4, NothingLeft DEF PairInv
<1>8. TidyInv
  BY <1>2, <1>4, <1>5, <1>6, NothingLeft DEF TidyInv
<1> QED BY <1>1, <1>7, <1>8, InitHolds DEF SInv

(* A hook and its claim go together: whatever is cut short, claimed by two *)
(* at once, or written over the row of another leaves, per such fault, one *)
(* hook without its claim or one claim without its hook, or one of each on *)
(* the spreadsheet; and without a fault a run that has ended has neither   *)
(* hooks nor waits.                                                        *)
THEOREM StraysCounted == Spec => []OneStrayPerFault
<1>1. SInv => OneStrayPerFault
  <2>1. SUFFICES ASSUME SInv, Quiet
                 PROVE  /\ Cardinality(Stray) <= (IF layout = "keys" THEN 1 ELSE 2) * faults
                        /\ faults = 0 => Leftover = {}
    BY DEF OneStrayPerFault
  <2>2. /\ \A c \in Caller : todo[c] = <<>>
        /\ db.hooks \in Seq(HookRow) /\ db.tokens \in Seq(HookRow) /\ db.waits \in Seq(WaitRow)
        /\ faults \in Nat /\ layout \in {"keys", "rows"}
    BY <2>1 DEF Quiet, SInv, IInv, CallInv, Data
  <2>3. \A x : /\ Has(db.hooks, x) <=> In(db.hooks, x)
               /\ Has(db.tokens, x) <=> In(db.tokens, x)
               /\ Has(db.waits, x) <=> In(db.waits, x)
    BY <2>2, Seen
  <2>4. \A h \in Hook : h \notin Gapped
    BY <2>2, NothingLeft DEF Gapped, Opened
  <2>5. Stray \subseteq Uneven
    <3>1. ASSUME NEW h \in Stray
          PROVE  h \in Uneven
      <4>1. h \in Hook /\ ~(In(db.hooks, h) <=> In(db.tokens, h))
        BY <2>3 DEF Stray, Has
      <4>2. ~EvenIn(db, h, h \in Gapped)
        BY <2>4, <4>1 DEF EvenIn
      <4> QED BY <4>1, <4>2 DEF Uneven, Odd
    <3> QED BY <3>1
  <2>6. Cardinality(Stray) <= Allowed * faults
    <3>1. Cardinality(Stray) <= Cardinality(Uneven) /\ Cardinality(Stray) \in Nat
      BY <2>5, UnevenFinite, Smaller
    <3>2. Cardinality(Uneven) <= Allowed * faults
      BY <2>1 DEF SInv, PairInv
    <3>3. Allowed * faults \in Nat
      BY <2>2 DEF Allowed
    <3> QED BY <3>1, <3>2, <3>3, UnevenFinite
  <2>7. ASSUME faults = 0, NEW x \in Leftover
        PROVE  FALSE
    <3>1. /\ x \in Hook \union Wait /\ db.run[RunOf(x)] \in RunTerminal
          /\ In(db.hooks, x) \/ In(db.waits, x)
      BY <2>3 DEF Leftover
    <3>2. x # None
      BY <3>1, KindOf
    <3>3. (In(db.hooks, x) => x \in Hook) /\ (In(db.waits, x) => x \in Wait)
      <4>1. ASSUME In(db.hooks, x)
            PROVE  x \in Hook
        <5>1. PICK n \in DOMAIN db.hooks : db.hooks[n].x = x
          BY <4>1 DEF In
        <5>2. db.hooks[n] \in HookRow
          BY <2>2, <5>1
        <5> QED BY <3>2, <5>1, <5>2, Zenon DEF HookRow
      <4>2. ASSUME In(db.waits, x)
            PROVE  x \in Wait
        <5>1. PICK n \in DOMAIN db.waits : db.waits[n].x = x
          BY <4>2 DEF In
        <5>2. db.waits[n] \in WaitRow
          BY <2>2, <5>1
        <5> QED BY <3>2, <5>1, <5>2, Zenon DEF WaitRow
      <4> QED BY <4>1, <4>2
    <3>4. In(db[TabOf(x)], x)
      <4>1. CASE x \in Hook
        <5>1. db[TabOf(x)] = db.hooks
          BY <4>1 DEF TabOf
        <5>2. x \notin Wait
          BY <4>1, KindOf
        <5> QED BY <3>1, <3>3, <5>1, <5>2
      <4>2. CASE x \notin Hook
        <5>1. db[TabOf(x)] = db.waits
          BY <4>2 DEF TabOf
        <5> QED BY <3>1, <3>3, <4>2, <5>1
      <4> QED BY <4>1, <4>2
    <3>5. PICK c \in Caller : Removing(todo[c], x)
      BY <2>1, <2>7, <3>1, <3>4 DEF SInv, TidyInv
    <3> QED BY <2>2, <3>5, NothingLeft
  <2> QED BY <2>6, <2>7 DEF Allowed
<1>2. Init => SInv
  BY StrayInit
<1>3. SInv /\ [Next]_vars => SInv'
  BY StrayNext
<1> QED BY <1>1, <1>2, <1>3, PTL DEF Spec
=============================================================================
