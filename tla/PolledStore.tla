----------------------------- MODULE PolledStore -----------------------------
(***************************************************************************)
(* The event stores without transactions, compare-and-set or locks: the    *)
(* key-value one of packages/world-edgeone (src/kv/storage.ts, layout      *)
(* "keys") and the one on a spreadsheet of packages/world-sheets           *)
(* (src/storage.ts, layout "rows").  events.create is the same in both     *)
(* but for the tables of hooks, token claims and waits, which all runs     *)
(* share: the one finds and deletes their entries by key, the other by     *)
(* the number a row had when it was read.                                  *)
(*                                                                         *)
(* One process, as both are meant to be run: its RunMutex lets one call    *)
(* per run in at a time.  Reads of what the mutex protects are one step,   *)
(* every write is a step, and so is every read of a shared table that a    *)
(* write then relies on.  Steps and waits have no time and no attempts.    *)
(* A read returns what has been written by then; of the time that writes   *)
(* of the key-value store may take to reach the nodes that are read        *)
(* (world-edgeone/README.md:271) nothing is said.                          *)
(***************************************************************************)
EXTENDS SheetRows

CONSTANTS
  Run, Step, Hook, Wait, Token, StepRun, HookRun, WaitRun, HookToken,
  Caller,
  Layouts,    \* "keys" and "rows"
  Starts,     \* the data to start from
  MaxCalls,   \* bound: calls
  MaxFaults,  \* bound: calls cut short, rows written that are another's by
              \* now, and tokens taken twice, together
  None

ASSUME PolledStoreAssumption ==
  /\ StepRun \in [Step -> Run] /\ HookRun \in [Hook -> Run]
  /\ WaitRun \in [Wait -> Run] /\ HookToken \in [Hook -> Token]
  /\ Run \intersect (Step \union Hook \union Wait) = {}  \* ids have prefixes
  /\ Step \intersect (Hook \union Wait) = {} /\ Hook \intersect Wait = {}
  /\ Layouts \subseteq {"keys", "rows"}
  /\ IsFiniteSet(Hook)
  /\ {MaxCalls, MaxFaults} \subseteq Nat
  /\ None \notin Run \union Step \union Hook \union Wait

VARIABLES
  layout,  \* which of the stores this is
  db,      \* the entities, the tables and the logs
  call,    \* per caller: the call it is in
  stage,   \* per caller: "read" or "write"
  todo,    \* per caller: what is left of the call
  calls, faults  \* counters for the bounds

vars == <<layout, db, call, stage, todo, calls, faults>>

-----------------------------------------------------------------------------
RunTerminal == {"completed", "failed", "cancelled"}
RunStatus == {"none", "pending", "running"} \union RunTerminal
StepStatus == {"none", "pending", "running", "completed", "failed"}

EventCall(type, x) == [type |-> type, x |-> x]
NoCall == EventCall("none", None)

RunTypes == {"run_created", "run_started", "run_completed", "run_failed", "run_cancelled"}
StepTypes == {"step_created", "step_started", "step_completed", "step_failed",
              "step_retrying"}
HookTypes == {"hook_created", "hook_received", "hook_disposed"}
WaitTypes == {"wait_created", "wait_completed"}

Calls ==
  {EventCall(t, x) : t \in RunTypes, x \in Run} \union {EventCall(t, x) : t \in StepTypes, x \in Step}
    \union {EventCall(t, x) : t \in HookTypes, x \in Hook}
    \union {EventCall(t, x) : t \in WaitTypes, x \in Wait}

RunOf(x) ==
  IF x \in Run THEN x ELSE IF x \in Step THEN StepRun[x]
  ELSE IF x \in Hook THEN HookRun[x] ELSE WaitRun[x]

(* An entry of a table: of a hook, of the claim of a hook on its token, or *)
(* of a wait.                                                              *)
Entry(x, st) == [x |-> x, st |-> st]
Blank == Entry(None, "")
HookRow == [x : Hook \union {None}, st : {"live", "claim", ""}]
WaitRow == [x : Wait \union {None}, st : {"waiting", "completed", ""}]

EventType == RunTypes \union StepTypes \union HookTypes \union WaitTypes
               \union {"hook_conflict"}
Event == [type : EventType, on : Run \union Step \union Hook \union Wait]

Data ==
  [run : [Run -> RunStatus],
   byStatus : [RunStatus -> SUBSET Run],  \* "keys" only, as is byRun
   step : [Step -> StepStatus],
   hooks : Seq(HookRow), tokens : Seq(HookRow), waits : Seq(WaitRow),
   byRun : SUBSET Hook,
   log : [Run -> Seq(Event)]]

NoData ==
  [run |-> [r \in Run |-> "none"],
   byStatus |-> [st \in RunStatus |-> {}],
   step |-> [s \in Step |-> "none"],
   hooks |-> <<>>, tokens |-> <<>>, waits |-> <<>>,
   byRun |-> {},
   log |-> [r \in Run |-> <<>>]]

(* What a scan for x finds first, as a set of at most one row.             *)
Find(rows, x) ==
  {j \in Range(getAllRows(rows)) :
     j.row.x = x /\ \A n \in 1..j.at - 1 : rows[n].x # x}

Has(rows, x) == Find(rows, x) # {}

-----------------------------------------------------------------------------
(* Calls of the store, one record each.                                    *)

Cmd(op, x, v) == [op |-> op, x |-> x, v |-> v, at |-> 0]
Put(tab, x, st) == Cmd("put", tab, Entry(x, st))
Set(tab, j, st) == [op |-> "set", x |-> tab, v |-> Entry(j.row.x, st), at |-> j.at]
Del(tab, j) == [op |-> "del", x |-> tab, v |-> j.row, at |-> j.at]
Record(type, x) == <<Cmd("append", RunOf(x), [type |-> type, on |-> x])>>

(* writeRun of "keys" moves the run to the index of its new status.        *)
(* (Mutant: the old entry goes last.)                                      *)
WriteRunThenUnindex(r, from, to) ==
  IF layout = "rows" THEN <<Cmd("run", r, to)>>
  ELSE <<Cmd("run", r, to), Cmd("index", r, to)>>
         \o (IF from = "none" THEN <<>> ELSE <<Cmd("unindex", r, from)>>)
WriteRun(r, from, to) ==
  IF layout = "rows" THEN <<Cmd("run", r, to)>>
  ELSE (IF from = "none" THEN <<>> ELSE <<Cmd("unindex", r, from)>>)
         \o <<Cmd("run", r, to), Cmd("index", r, to)>>

(* A token claim is one per token in "keys", one per hook in "rows".       *)
Key(tab, x) == IF tab = "tokens" /\ layout = "keys" /\ x # None THEN HookToken[x] ELSE x
Without(d, tab, x) ==
  LET same == {n \in DOMAIN d[tab] : Key(tab, d[tab][n].x) = Key(tab, x)} IN
  IF same = {} THEN d[tab] ELSE RemoveAt(d[tab], CHOOSE n \in same : TRUE)

Apply(d, cmd) ==
  CASE cmd.op = "run"     -> [d EXCEPT !.run[cmd.x] = cmd.v]
    [] cmd.op = "index"   -> [d EXCEPT !.byStatus[cmd.v] = @ \union {cmd.x}]
    [] cmd.op = "unindex" -> [d EXCEPT !.byStatus[cmd.v] = @ \ {cmd.x}]
    [] cmd.op = "step"    -> [d EXCEPT !.step[cmd.x] = cmd.v]
    [] cmd.op = "list"    -> [d EXCEPT !.byRun = @ \union {cmd.x}]
    [] cmd.op = "unlist"  -> [d EXCEPT !.byRun = @ \ {cmd.x}]
    [] cmd.op = "append"  -> [d EXCEPT !.log[cmd.x] = Append(@, cmd.v)]
    [] cmd.op = "put" /\ layout = "rows" -> [d EXCEPT ![cmd.x] = Append(@, cmd.v)]
    [] cmd.op = "set" /\ layout = "rows" -> [d EXCEPT ![cmd.x] = updateRow(@, cmd.at, cmd.v, Blank)]
    [] cmd.op = "del" /\ layout = "rows" -> [d EXCEPT ![cmd.x] = deleteRow(@, cmd.at, Blank)]
    [] cmd.op \in {"put", "set"} /\ layout = "keys" ->
         [d EXCEPT ![cmd.x] = Append(Without(d, cmd.x, cmd.v.x), cmd.v)]
    [] cmd.op = "del" /\ layout = "keys" -> [d EXCEPT ![cmd.x] = Without(d, cmd.x, cmd.v.x)]

(* A write that hits the row of another, or takes a token that is taken.   *)
Taken(d, h) == \E n \in DOMAIN d.tokens :
                 d.tokens[n].x # None /\ HookToken[d.tokens[n].x] = HookToken[h]
Harms(d, cmd) ==
  \/ cmd.op \in {"set", "del"} /\ layout = "rows"
       /\ ~\E n \in DOMAIN d[cmd.x] : n = cmd.at /\ d[cmd.x][n].x = cmd.v.x
  \/ cmd.op = "put" /\ cmd.x = "tokens" /\ Taken(d, cmd.v.x)

(* Reads, and what they then come to.                                      *)
Reading == {"claim", "unclaim", "dispose", "clean", "hooks", "waits"}

(* The rows of a run in a table, from the bottom up.                       *)
Mine(d, tab, r) ==
  LET mine == {n \in DOMAIN d[tab] : d[tab][n].x # None /\ RunOf(d[tab][n].x) = r}
      Nth(k) == CHOOSE n \in mine : Cardinality({m \in mine : m >= n}) = k IN
  [k \in 1..Cardinality(mine) |-> getAllRows(d[tab])[Nth(k)]]

(* (Mutant: the claim is not released, only the listing of the hook.)      *)
HookGoneOnly(j) == <<Del("hooks", j), Cmd("unlist", j.row.x, "")>>
HookGone(j) ==
  <<Del("hooks", j), IF layout = "rows" THEN Cmd("unclaim", j.row.x, "") ELSE Del("tokens", j)>>

Expand(d, cmd) ==
  CASE cmd.op = "claim" ->
         IF Taken(d, cmd.x) THEN Record("hook_conflict", cmd.x)
         ELSE <<Put("tokens", cmd.x, "claim"), Put("hooks", cmd.x, "live")>>
                \o (IF layout = "keys" THEN <<Cmd("list", cmd.x, "")>> ELSE <<>>)
                \o Record("hook_created", cmd.x)
    [] cmd.op = "unclaim" ->
         IF ~Has(d.tokens, cmd.x) THEN <<>>
         ELSE <<Del("tokens", CHOOSE j \in Find(d.tokens, cmd.x) : TRUE)>>
    [] cmd.op \in {"clean", "dispose"} ->
         IF ~Has(d.hooks, cmd.x) THEN <<>>
         ELSE LET gone == HookGone(CHOOSE j \in Find(d.hooks, cmd.x) : TRUE) IN
              IF cmd.op = "clean" \/ layout = "rows" THEN gone
              ELSE <<Head(gone), Cmd("unlist", cmd.x, "")>> \o Tail(gone)
    [] cmd.op = "hooks" /\ layout = "rows" ->
         LET mine == Mine(d, "hooks", cmd.x) IN
         [i \in 1..2 * Len(mine) |-> HookGone(mine[(i + 1) \div 2])[((i + 1) % 2) + 1]]
    [] cmd.op = "hooks" /\ layout = "keys" ->
         LET mine == SetToSeq({h \in d.byRun : HookRun[h] = cmd.x}) IN
         [i \in 1..2 * Len(mine) |->
            Cmd(IF i % 2 = 1 THEN "clean" ELSE "unlist", mine[(i + 1) \div 2], "")]
    [] cmd.op = "waits" ->
         LET mine == Mine(d, "waits", cmd.x) IN [n \in DOMAIN mine |-> Del("waits", mine[n])]

-----------------------------------------------------------------------------
(* Validation: the set of todo lists a call may go on with, empty when it  *)
(* is rejected.                                                            *)

Accept(cond, cmds) == IF cond THEN {cmds} ELSE {}

EndStatus(type) ==
  IF type = "run_completed" THEN "completed" ELSE IF type = "run_failed" THEN "failed"
  ELSE "cancelled"

(* An event for a run that is not there is recorded all the same, but for  *)
(* run_failed.                                                             *)
RunPlans(r, type, seen) ==
  LET to == EndStatus(type) IN
  CASE type = "run_created" ->
         Accept(seen = "none", WriteRun(r, "none", "pending") \o Record(type, r))
    [] type = "run_started" ->
         Accept(seen = "none", Record(type, r))
           \union Accept(seen = "running", <<>>)
           \union Accept(seen = "pending", WriteRun(r, "pending", "running") \o Record(type, r))
    [] OTHER ->
         Accept(seen \in {"pending", "running"},
                WriteRun(r, seen, to) \o <<Cmd("hooks", r, ""), Cmd("waits", r, "")>>
                  \o Record(type, r))
           \union Accept(\/ seen = "none" /\ to # "failed"
                         \/ seen = "cancelled" /\ to = "cancelled", Record(type, r))

(* writeStep, then the event.  (Mutant: the event first.)                  *)
EventThenStep(s, type, st) == Record(type, s) \o <<Cmd("step", s, st)>>
StepThenEvent(s, type, st) == <<Cmd("step", s, st)>> \o Record(type, s)

(* A step goes on whatever has become of its run.                          *)
StepOpen(st) == st \in {"pending", "running"}
StepPlans(s, type, seen, st) ==
  CASE type = "step_created" ->
         Accept(seen \notin RunTerminal /\ st = "none", StepThenEvent(s, type, "pending"))
    [] type = "step_started" -> Accept(StepOpen(st), StepThenEvent(s, type, "running"))
    [] type = "step_completed" -> Accept(StepOpen(st), StepThenEvent(s, type, "completed"))
    [] type = "step_failed" -> Accept(StepOpen(st), StepThenEvent(s, type, "failed"))
    [] type = "step_retrying" -> Accept(StepOpen(st), StepThenEvent(s, type, "pending"))

HookPlans(h, type, seen, live) ==
  CASE type = "hook_created" -> Accept(seen \notin RunTerminal, <<Cmd("claim", h, "")>>)
    [] type = "hook_received" -> Accept(live, Record(type, h))
    [] type = "hook_disposed" ->
         Accept(live, <<Cmd("dispose", h, "")>> \o Record(type, h))

WaitPlans(w, type, seen, found) ==
  IF type = "wait_created"
  THEN Accept(seen \notin RunTerminal /\ found = {},
              <<Put("waits", w, "waiting")>> \o Record(type, w))
  ELSE {<<Set("waits", j, "completed")>> \o Record(type, w) :
          j \in {k \in found : k.row.st = "waiting"}}

Plans(e, d) ==
  LET seen == d.run[RunOf(e.x)] IN
  CASE e.type \in RunTypes -> RunPlans(e.x, e.type, seen)
    [] e.type \in StepTypes -> StepPlans(e.x, e.type, seen, d.step[e.x])
    [] e.type \in HookTypes -> HookPlans(e.x, e.type, seen, Has(d.hooks, e.x))
    [] e.type \in WaitTypes -> WaitPlans(e.x, e.type, seen, Find(d.waits, e.x))

-----------------------------------------------------------------------------
(* The positions in the log at which an event settles a step or ends a run *)
(* (a cancellation may be recorded twice).                                 *)
Closing == {"step_completed", "step_failed", "run_completed", "run_failed"}
ClosedAt(d, x) ==
  {n \in 1..Len(d.log[RunOf(x)]) :
     d.log[RunOf(x)][n].on = x /\ d.log[RunOf(x)][n].type \in Closing}
StatusIn(d, x) == IF x \in Run THEN d.run[x] ELSE d.step[x]

Applied(d) ==
  \A x \in Step \union Run :
    /\ Cardinality(ClosedAt(d, x)) <= 1
    /\ ClosedAt(d, x) # {} => StatusIn(d, x) \in RunTerminal

(* No run in the index of a status it has not, and those in no index.      *)
IndexSound(d) ==
  \A r \in Run : \A st \in RunStatus : r \in d.byStatus[st] => st = d.run[r] /\ st # "none"
Hidden(d) == {r \in Run : d.run[r] # "none" /\ r \notin d.byStatus[d.run[r]]}

(* Hooks and claims in pairs, no token claimed twice, no row left over.     *)
Matched(d) ==
  /\ \A tab \in {"hooks", "tokens", "waits"} : \A m, n \in DOMAIN d[tab] :
       d[tab][m].x # None /\ (d[tab][m].x = d[tab][n].x => m = n)
  /\ \A m, n \in DOMAIN d.tokens : HookToken[d.tokens[m].x] = HookToken[d.tokens[n].x] => m = n
  /\ \A h \in Hook : (Has(d.hooks, h) <=> Has(d.tokens, h)) /\ (Has(d.hooks, h) <=> h \in d.byRun)
  /\ \A x \in Hook \union Wait :
       Has(d.hooks, x) \/ Has(d.waits, x) => d.run[RunOf(x)] \notin RunTerminal

(* Calls that are over and went well have left what a behaviour starts     *)
(* from.                                                                   *)
ASSUME StartsAssumption ==
  \A d \in Starts :
    d \in Data /\ Applied(d) /\ IndexSound(d) /\ Hidden(d) = {} /\ Matched(d)

Init ==
  /\ layout \in Layouts
  /\ db \in Starts
  /\ call = [c \in Caller |-> NoCall]
  /\ stage = [c \in Caller |-> "read"]
  /\ todo = [c \in Caller |-> <<>>]
  /\ calls = 0 /\ faults = 0

Busy(r) == \E c \in Caller : call[c] # NoCall /\ RunOf(call[c].x) = r

OneFault == faults < MaxFaults /\ faults' = faults + 1

(* createEvent enters the mutex of the run.  The runtime completes no run  *)
(* but one that run_started has returned.                                  *)
Create(c) ==
  /\ call[c] = NoCall /\ calls < MaxCalls
  /\ calls' = calls + 1
  /\ \E e \in Calls :
       /\ ~Busy(RunOf(e.x))
       /\ e.type = "run_completed" => db.run[e.x] # "none"
       /\ call' = [call EXCEPT ![c] = e]
  /\ UNCHANGED <<layout, db, stage, todo, faults>>

Reset(c) ==
  /\ call' = [call EXCEPT ![c] = NoCall]
  /\ stage' = [stage EXCEPT ![c] = "read"]
  /\ todo' = [todo EXCEPT ![c] = <<>>]

(* createImpl up to its first write.                                       *)
Validate(c) ==
  /\ call[c] # NoCall /\ stage[c] = "read"
  /\ \E cmds \in Plans(call[c], db) : todo' = [todo EXCEPT ![c] = cmds]
  /\ stage' = [stage EXCEPT ![c] = "write"]
  /\ UNCHANGED <<layout, db, call, calls, faults>>

Write(c) ==
  /\ todo[c] # <<>>
  /\ LET cmd == Head(todo[c]) IN
       IF cmd.op \in Reading
       THEN /\ todo' = [todo EXCEPT ![c] = Expand(db, cmd) \o Tail(@)]
            /\ UNCHANGED <<db, faults>>
       ELSE /\ todo' = [todo EXCEPT ![c] = Tail(@)]
            /\ db' = Apply(db, cmd)
            /\ IF Harms(db, cmd) THEN OneFault ELSE UNCHANGED faults
  /\ UNCHANGED <<layout, call, stage, calls>>

(* Accepted and written, or rejected.                                      *)
Return(c) ==
  /\ call[c] # NoCall
  /\ \/ stage[c] = "write" /\ todo[c] = <<>>
     \/ stage[c] = "read" /\ Plans(call[c], db) = {}
  /\ Reset(c)
  /\ UNCHANGED <<layout, db, calls, faults>>

(* A call of the store throws; when the process dies, all its calls do.    *)
Fail(c) ==
  /\ todo[c] # <<>> /\ OneFault /\ Reset(c)
  /\ UNCHANGED <<layout, db, calls>>

Next == \E c \in Caller : Create(c) \/ Validate(c) \/ Write(c) \/ Return(c) \/ Fail(c)

Spec == Init /\ [][Next]_vars

-----------------------------------------------------------------------------
Quiet == \A c \in Caller : todo[c] = <<>>

(* The entity first, the event last, and no transaction: a call cut short  *)
(* in between and retried never settles a step twice or ends a run twice,  *)
(* and what a replay finds settled reads as settled.                       *)
LogIsApplied == Applied(db)

(* Recovery lists the runs by status.  A run is never listed under a       *)
(* status it no longer has, and one cut-short call hides at most one run.  *)
IndexIsTrue ==
  layout = "keys" => /\ IndexSound(db)
                     /\ Quiet => Cardinality(Hidden(db)) <= faults

(* Hooks and claims go together.  Whatever is cut short or claimed by two  *)
(* at once leaves one hook without its claim, or one claim without its     *)
(* hook, for ever; a deletion that hits the row of another one of each.    *)
(* Nothing else does, and without a fault a run that has ended has neither *)
(* hooks nor waits.                                                        *)
Stray == {h \in Hook : Has(db.hooks, h) # Has(db.tokens, h)}
Leftover ==
  {x \in Hook \union Wait : db.run[RunOf(x)] \in RunTerminal /\ (Has(db.hooks, x) \/ Has(db.waits, x))}
OneStrayPerFault ==
  Quiet => /\ Cardinality(Stray) <= (IF layout = "keys" THEN 1 ELSE 2) * faults
           /\ faults = 0 => Leftover = {}
=============================================================================
