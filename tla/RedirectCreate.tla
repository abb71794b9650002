--------------------------- MODULE RedirectCreate ---------------------------
(***************************************************************************)
(* events.create of packages/world-redirect taken apart: the call takes    *)
(* the run's lock (RunLocks), reads the run, reads the entity the event is *)
(* about and validates, and then issues its Redis writes one at a time.    *)
(* What a call has decided to write is its todo list; it ends with the     *)
(* append to the event log.                                                *)
(*                                                                         *)
(* RedirectEvents has each accepted call as one step.  ImplementsEvents    *)
(* states that the calls taken apart amount to that.                       *)
(***************************************************************************)
EXTENDS RunLocks, Sequences, SequencesExt

CONSTANTS Step, Hook, Wait, Token, StepRun, HookRun, WaitRun, HookToken,
          Scenes,       \* what was created before, one call after the other,
                        \* the event types that callers pass, how many calls
                        \* (a bound), and whether anything may go wrong
          MaxFailures,  \* bound: Redis commands that fail
          MaxLog        \* no log gets as long as this

ASSUME CreateAssumption ==
    /\ StepRun \in [Step -> Run]
    /\ HookRun \in [Hook -> Run]
    /\ WaitRun \in [Wait -> Run]
    /\ HookToken \in [Hook -> Token]
    /\ Run \intersect (Step \union Hook \union Wait) = {}  \* ids have prefixes
    /\ Step \intersect (Hook \union Wait) = {} /\ Hook \intersect Wait = {}
    /\ IsFiniteSet(Hook) /\ IsFiniteSet(Wait)
    /\ \A sc \in Scenes : sc.calls \in Nat /\ sc.faults \in BOOLEAN
    /\ MaxFailures \in Nat

VARIABLES
    scene,    \* the scene that is played
    db,       \* Redis: entities, indexes and logs
    call,     \* per caller: the event it is creating
    stage,    \* per caller: "load", "check" or "write"
    seenRun,  \* per caller: the status in currentRun, "none" when null
    todo,     \* per caller: the Redis commands still to issue
    decided,  \* ghost: db once the accepted call has written everything
    calls, failures  \* bound counters

createVars == <<scene, db, call, stage, seenRun, todo, decided, calls, failures>>
vars == <<lockVars, createVars>>

RunTerminal == {"completed", "failed", "cancelled"}
RunStatus == {"none", "pending", "running"} \union RunTerminal
StepStatus == {"none", "pending", "running", "completed", "failed"}
StepEntity == [status : StepStatus, attempt : Nat, early : BOOLEAN]
NoStep == [status |-> "none", attempt |-> 0, early |-> FALSE]
WaitStatus == {"none", "waiting", "completed"}

EventCall(type, x, extra) == [type |-> type, x |-> x, extra |-> extra]
NoCall == EventCall("none", None, FALSE)

\* The run an entity, or the event of a call, belongs to.
HomeOf(x) ==
    IF x \in Run THEN x
    ELSE IF x \in Step THEN StepRun[x]
    ELSE IF x \in Hook THEN HookRun[x] ELSE WaitRun[x]
RunOf(c) == HomeOf(c.x)

RunTypes == {"run_created", "run_started", "run_completed", "run_failed", "run_cancelled"}
StepTypes == {"step_created", "step_started", "step_completed", "step_failed",
              "step_retrying"}
HookTypes == {"hook_created", "hook_received", "hook_disposed"}
WaitTypes == {"wait_created", "wait_completed"}

\* extra: run_started carries the creation data; retryAfter is in the future.
Calls == {c \in [type : scene.types, x : Run \union Step \union Hook \union Wait,
                 extra : BOOLEAN] :
            /\ c.extra => c.type \in {"run_started", "step_retrying"}
            /\ \/ c.type \in RunTypes /\ c.x \in Run
               \/ c.type \in StepTypes /\ c.x \in Step
               \/ c.type \in HookTypes /\ c.x \in Hook
               \/ c.type \in WaitTypes /\ c.x \in Wait}

EventType == RunTypes \union StepTypes \union HookTypes \union WaitTypes
               \union {"hook_conflict"}
Event == [type : EventType, on : Run \union Step \union Hook \union Wait]

Data ==
    [run : [Run -> RunStatus],
     byStatus : [RunStatus -> SUBSET Run],
     step : [Step -> StepEntity],
     hook : SUBSET Hook,
     byRun : SUBSET Hook,
     claim : [Token -> Hook \union {None}],
     wait : [Wait -> WaitStatus],
     log : [Run -> Seq(Event)],
     byId : [Step \union Hook \union Wait -> Nat]]

NoData ==
    [run |-> [r \in Run |-> "none"],
     byStatus |-> [st \in RunStatus |-> {}],
     step |-> [s \in Step |-> NoStep],
     hook |-> {},
     byRun |-> {},
     claim |-> [t \in Token |-> None],
     wait |-> [w \in Wait |-> "none"],
     log |-> [r \in Run |-> <<>>],
     byId |-> [x \in Step \union Hook \union Wait |-> 0]]

----------------------------------------------------------------------------
(* Redis commands, one record each, and what each does.                    *)

Cmd(op, x, v) == [op |-> op, x |-> x, v |-> v]

\* writeRun.  (Mutant: of the previous status indexes only one is ever left.)
WriteRunKeepsIndex(r, from, to) ==
    <<Cmd("run", r, to)>>
      \o (IF from # "pending" THEN <<>> ELSE <<Cmd("unindex", r, from)>>)
      \o <<Cmd("index", r, to)>>
WriteRun(r, from, to) ==
    <<Cmd("run", r, to)>>
      \o (IF from = "none" THEN <<>> ELSE <<Cmd("unindex", r, from)>>)
      \o <<Cmd("index", r, to)>>

\* appendEvent: the log, and the index by correlation id.
Record(r, type, x) ==
    <<Cmd("append", r, [type |-> type, on |-> x])>>
      \o (IF x \in Run THEN <<>> ELSE <<Cmd("byId", x, "")>>)

DeleteHook(h) ==
    <<Cmd("unhook", h, ""), Cmd("unlist", h, ""), Cmd("free", HookToken[h], "")>>

Apply(d, cmd) ==
    CASE cmd.op = "run"     -> [d EXCEPT !.run[cmd.x] = cmd.v]
      [] cmd.op = "index"   -> [d EXCEPT !.byStatus[cmd.v] = @ \union {cmd.x}]
      [] cmd.op = "unindex" -> [d EXCEPT !.byStatus[cmd.v] = @ \ {cmd.x}]
      [] cmd.op = "step"    -> [d EXCEPT !.step[cmd.x] = cmd.v]
      [] cmd.op = "wait"    -> [d EXCEPT !.wait[cmd.x] = cmd.v]
      [] cmd.op = "hook"    -> [d EXCEPT !.hook = @ \union {cmd.x}]
      [] cmd.op = "unhook"  -> [d EXCEPT !.hook = @ \ {cmd.x}]
      [] cmd.op = "list"    -> [d EXCEPT !.byRun = @ \union {cmd.x}]
      [] cmd.op = "unlist"  -> [d EXCEPT !.byRun = @ \ {cmd.x}]
      [] cmd.op = "take"    -> [d EXCEPT !.claim[HookToken[cmd.x]] = cmd.x]
      [] cmd.op = "free"    -> [d EXCEPT !.claim[cmd.x] = None]
      [] cmd.op = "append"  -> [d EXCEPT !.log[cmd.x] = Append(@, cmd.v)]
      [] cmd.op = "byId"    -> [d EXCEPT !.byId[cmd.x] = @ + 1]

\* Commands that read first, and what they then come to.
Reading == {"claim", "dispose", "cleanup"}

\* terminalCleanup's two halves.  The code runs them under Promise.all; they
\* touch different keys, and are taken one after the other here.
HooksGone(d, r) ==
    LET mine == SetToSeq({h \in d.byRun \intersect d.hook : HookRun[h] = r}) IN
    [i \in 1 .. 3 * Len(mine) |-> DeleteHook(mine[(i + 2) \div 3])[((i + 2) % 3) + 1]]
WaitsGone(r) ==
    LET mine == SetToSeq({w \in Wait : WaitRun[w] = r}) IN
    [i \in 1 .. Len(mine) |-> Cmd("wait", mine[i], "none")]

\* SET NX on the token decides between the hook and a conflict.
Expand(d, cmd) ==
    CASE cmd.op = "claim" ->
           IF d.claim[HookToken[cmd.x]] = None
           THEN <<Cmd("take", cmd.x, ""), Cmd("hook", cmd.x, ""), Cmd("list", cmd.x, "")>>
                  \o Record(HookRun[cmd.x], "hook_created", cmd.x)
           ELSE Record(HookRun[cmd.x], "hook_conflict", cmd.x)
      [] cmd.op = "dispose" -> IF cmd.x \in d.hook THEN DeleteHook(cmd.x) ELSE <<>>
      [] cmd.op = "cleanup" -> HooksGone(d, cmd.x) \o WaitsGone(cmd.x)

\* All that is still to come of a todo list.
Finish(d, cmds) ==
    FoldLeft(LAMBDA e, cmd : IF cmd.op \in Reading
                             THEN FoldLeft(Apply, e, Expand(e, cmd)) ELSE Apply(e, cmd),
             d, cmds)

----------------------------------------------------------------------------
(* Validation: the set of todo lists a call may go on with, empty when it  *)
(* is rejected.                                                            *)

Accept(cond, cmds) == IF cond THEN {cmds} ELSE {}

EndStatus(type) ==
    IF type = "run_completed" THEN "completed"
    ELSE IF type = "run_failed" THEN "failed" ELSE "cancelled"

RunPlans(r, type, seen, withData) ==
    CASE type = "run_created" ->
           Accept(seen = "none", WriteRun(r, "none", "pending") \o Record(r, type, r))
      [] type = "run_started" ->
           Accept(seen = "running", <<>>)
             \union Accept(seen = "pending",
                           WriteRun(r, "pending", "running") \o Record(r, type, r))
             \union Accept(seen = "none" /\ ~withData, Record(r, type, r))
             \union Accept(seen = "none" /\ withData,
                           WriteRun(r, "none", "pending") \o Record(r, "run_created", r)
                             \o WriteRun(r, "pending", "running") \o Record(r, type, r))
      [] OTHER ->
           LET to == EndStatus(type) IN
           Accept(seen \in {"pending", "running"},
                  WriteRun(r, seen, to) \o <<Cmd("cleanup", r, "")>> \o Record(r, type, r))
             \union Accept(\/ seen = "none" /\ to # "failed"
                           \/ seen = "cancelled" /\ to = "cancelled", Record(r, type, r))

\* writeStep, then the event.  (Mutant: the event first.)
EventThenStep(s, type, e) == Record(StepRun[s], type, s) \o <<Cmd("step", s, e)>>
StepThenEvent(s, type, e) == <<Cmd("step", s, e)>> \o Record(StepRun[s], type, s)

StepPlans(s, type, seen, e, later) ==
    LET Then(new) == StepThenEvent(s, type, new)
        open == e.status \in {"pending", "running"}
        inTime == seen \in RunTerminal => e.status = "running"
    IN
    CASE type = "step_created" ->
           Accept(seen \notin RunTerminal /\ e.status = "none",
                  Then([NoStep EXCEPT !.status = "pending"]))
      [] type = "step_started" ->
           Accept(open /\ inTime /\ ~e.early,
                  Then([status |-> "running", attempt |-> e.attempt + 1, early |-> FALSE]))
      [] type = "step_completed" -> Accept(open, Then([e EXCEPT !.status = "completed"]))
      [] type = "step_failed" ->
           Accept(open /\ inTime, Then([e EXCEPT !.status = "failed"]))
      [] type = "step_retrying" ->
           Accept(open, Then([e EXCEPT !.status = "pending", !.early = later]))

HookPlans(h, type, seen, live) ==
    CASE type = "hook_created" -> Accept(seen \notin RunTerminal, <<Cmd("claim", h, "")>>)
      [] type = "hook_received" -> Accept(live, Record(HookRun[h], type, h))
      [] type = "hook_disposed" ->
           Accept(live, <<Cmd("dispose", h, "")>> \o Record(HookRun[h], type, h))

WaitPlans(w, type, seen, status) ==
    IF type = "wait_created"
    THEN Accept(seen \notin RunTerminal /\ status = "none",
                <<Cmd("wait", w, "waiting")>> \o Record(WaitRun[w], type, w))
    ELSE Accept(status = "waiting",
                <<Cmd("wait", w, "completed")>> \o Record(WaitRun[w], type, w))

\* What a call makes of the run status it loaded and the entity it reads in d.
Plans(e, seen, d) ==
    CASE e.type \in RunTypes -> RunPlans(e.x, e.type, seen, e.extra)
      [] e.type \in StepTypes -> StepPlans(e.x, e.type, seen, d.step[e.x], e.extra)
      [] e.type \in HookTypes -> HookPlans(e.x, e.type, seen, e.x \in d.hook)
      [] e.type \in WaitTypes -> WaitPlans(e.x, e.type, seen, d.wait[e.x])

\* currentRun: two event types do not load it.
Load(e, d) ==
    IF e.type \in {"step_completed", "step_retrying"} THEN "none" ELSE d.run[RunOf(e)]

\* The data after accepted calls, one after the other.
After(history) ==
    FoldLeft(LAMBDA d, e : Finish(d, CHOOSE cmds \in Plans(e, Load(e, d), d) : TRUE),
             NoData, history)

\* The positions in the log at which an event settles a step.
Settling == {"step_completed", "step_failed"}
SettledAt(d, s) ==
    {i \in 1 .. Len(d.log[StepRun[s]]) :
       d.log[StepRun[s]][i].on = s /\ d.log[StepRun[s]][i].type \in Settling}

\* The run is in the index of its status and in no other.
RunIndexed(d, r) ==
    \A st \in RunStatus : r \in d.byStatus[st] <=> st = d.run[r] /\ st # "none"

\* The log of a run has only its events.
LogIsOwn(d, r) == \A i \in DOMAIN d.log[r] : HomeOf(d.log[r][i].on) = r

\* The events about an entity.
Mentions(d, x) == {i \in DOMAIN d.log[HomeOf(x)] : d.log[HomeOf(x)][i].on = x}

\* Each run is in the index of its status, live hooks are listed under their
\* run, and the index by correlation id has as many entries as the logs.
Indexed(d) ==
    /\ \A r \in Run : RunIndexed(d, r) /\ LogIsOwn(d, r)
    /\ d.byRun = d.hook
    /\ \A x \in DOMAIN d.byId : d.byId[x] = Cardinality(Mentions(d, x))

\* What accepted calls leave, one after the other: data of the right types,
\* indexed, in which a step that an event has settled reads as settled, and by
\* one event.
ASSUME ScenesAssumption ==
    \A sc \in Scenes :
      LET d == After(sc.history) IN
      /\ d \in Data
      /\ Indexed(d)
      /\ \A s \in Step :
           /\ SettledAt(d, s) # {} => d.step[s].status \in {"completed", "failed"}
           /\ \A i, j \in SettledAt(d, s) : i = j

Init ==
    /\ LockInit
    /\ scene \in Scenes
    /\ db = After(scene.history)
    /\ call = [c \in Caller |-> NoCall]
    /\ stage = [c \in Caller |-> "load"]
    /\ seenRun = [c \in Caller |-> "none"]
    /\ todo = [c \in Caller |-> <<>>]
    /\ decided = db
    /\ calls = 0 /\ failures = 0

----------------------------------------------------------------------------
\* The callers in the middle of their writes.
Writers == {c \in Caller : todo[c] # <<>>}

\* The caller has nothing more to do, or stops short.  (Mutant: it keeps its
\* place.)
ResetCallOnly(c) ==
    /\ call' = [call EXCEPT ![c] = NoCall]
    /\ UNCHANGED <<stage, seenRun, todo>>
Reset(c) ==
    /\ call' = [call EXCEPT ![c] = NoCall]
    /\ stage' = [stage EXCEPT ![c] = "load"]
    /\ seenRun' = [seenRun EXCEPT ![c] = "none"]
    /\ todo' = [todo EXCEPT ![c] = <<>>]

\* createEvent: enter withLock.
Create(c) ==
    /\ calls < scene.calls
    /\ calls' = calls + 1
    /\ \E e \in Calls :
         /\ Call(c, RunOf(e))
         /\ call' = [call EXCEPT ![c] = e]
    /\ UNCHANGED <<scene, db, stage, seenRun, todo, decided, failures>>

TakeLock(c) ==
    /\ Acquire(c) \/ (scene.faults /\ GiveUp(c))
    /\ UNCHANGED createVars

\* getRun, except for the two event types that skip it.
LoadRun(c) ==
    /\ phase[c] = "inside" /\ stage[c] = "load"
    /\ seenRun' = [seenRun EXCEPT ![c] = Load(call[c], db)]
    /\ stage' = [stage EXCEPT ![c] = "check"]
    /\ UNCHANGED <<lockVars, scene, db, call, todo, decided, calls, failures>>

\* Accepted.
Validate(c) ==
    /\ phase[c] = "inside" /\ stage[c] = "check"
    /\ \E cmds \in Plans(call[c], seenRun[c], db) :
         /\ todo' = [todo EXCEPT ![c] = cmds]
         /\ decided' = Finish(db, cmds)
    /\ stage' = [stage EXCEPT ![c] = "write"]
    /\ UNCHANGED <<lockVars, scene, db, call, seenRun, calls, failures>>

\* The next Redis command.
Write(c) ==
    /\ phase[c] = "inside" /\ stage[c] = "write" /\ todo[c] # <<>>
    /\ LET cmd == Head(todo[c])
           more == Tail(todo[c]) IN
       \/ /\ cmd.op \notin Reading
          /\ db' = Apply(db, cmd)
          /\ todo' = [todo EXCEPT ![c] = more]
       \/ /\ cmd.op \in Reading
          /\ LET cmds == Expand(db, cmd) IN
             IF cmds # <<>> /\ Head(cmds).op = "take"
             THEN /\ db' = Apply(db, Head(cmds))
                  /\ todo' = [todo EXCEPT ![c] = Tail(cmds) \o more]
             ELSE /\ todo' = [todo EXCEPT ![c] = cmds \o more]
                  /\ UNCHANGED db
    /\ UNCHANGED <<lockVars, scene, call, stage, seenRun, decided, calls, failures>>

\* Accepted and written, or rejected.
Return(c) ==
    /\ phase[c] = "inside"
    /\ \/ stage[c] = "write" /\ todo[c] = <<>>
       \/ stage[c] = "check" /\ Plans(call[c], seenRun[c], db) = {}
    /\ Leave(c)
    /\ Reset(c)
    /\ UNCHANGED <<scene, db, decided, calls, failures>>

\* A Redis command throws: the call rejects with what it has written so far.
Fail(c) ==
    /\ phase[c] = "inside"
    /\ scene.faults /\ failures < MaxFailures
    /\ failures' = failures + 1
    /\ Leave(c)
    /\ Reset(c)
    /\ UNCHANGED <<scene, db, decided, calls>>

Die(h) ==
    LET dead == {c \in Caller : HostOf[c] = h} IN
    /\ scene.faults /\ CrashHost(h)
    /\ call' = [c \in Caller |-> IF c \in dead THEN NoCall ELSE call[c]]
    /\ stage' = [c \in Caller |-> IF c \in dead THEN "load" ELSE stage[c]]
    /\ seenRun' = [c \in Caller |-> IF c \in dead THEN "none" ELSE seenRun[c]]
    /\ todo' = [c \in Caller |-> IF c \in dead THEN <<>> ELSE todo[c]]
    /\ UNCHANGED <<scene, db, decided, calls, failures>>

KeyExpires(r) == scene.faults /\ Expire(r) /\ UNCHANGED createVars

\* The clock passes a step's retryAfter.
RetryDue(s) ==
    /\ db.step[s].early
    /\ db' = [db EXCEPT !.step[s].early = FALSE]
    /\ decided' = Finish(db', IF Writers = {} THEN <<>>
                              ELSE todo[CHOOSE c \in Caller : c \in Writers])
    /\ UNCHANGED <<lockVars, scene, call, stage, seenRun, todo, calls, failures>>

Next ==
    \/ \E c \in Caller :
         \/ Create(c)
         \/ TakeLock(c)
         \/ LoadRun(c)
         \/ Validate(c)
         \/ Write(c)
         \/ Return(c)
         \/ Fail(c)
    \/ \E h \in Host : Die(h)
    \/ \E r \in Run : KeyExpires(r)
    \/ \E s \in Step : RetryDue(s)

Spec == Init /\ [][Next]_vars

----------------------------------------------------------------------------
TypeOK ==
    /\ LockTypeOK
    /\ db \in Data
    /\ call \in [Caller -> Calls \union {NoCall}]
    /\ stage \in [Caller -> {"load", "check", "write"}]
    /\ \A c \in Caller : phase[c] # "inside" => stage[c] = "load" /\ todo[c] = <<>>
    /\ calls \in 0 .. scene.calls
    /\ failures \in 0 .. MaxFailures

Faultless == expiries = 0 /\ giveUps = 0 /\ crashes = 0 /\ failures = 0

\* A call counts as done once it is decided.
Events == INSTANCE RedirectEvents
            WITH run <- decided.run, step <- decided.step, hook <- decided.hook,
                 claim <- decided.claim, wait <- decided.wait, log <- decided.log,
                 MaxLog <- [r \in Run |-> MaxLog]

\* As long as no lock was lost and nothing failed, the interleaved calls of all
\* processes amount to the atomic ones: every call is validated against what it
\* then changes, and what it decides to change is what the event store
\* prescribes.
ImplementsEvents == [][Faultless' => [Events!Next]_Events!vars]_vars

\* ... and what was decided is what Redis holds when nobody is writing.
DecidedIsWritten == Faultless /\ Writers = {} => db = decided

\* When nobody is writing, what is listed by status, by run and by correlation
\* id agrees with the entities and the logs.
IndexesMatch == Faultless /\ Writers = {} => Indexed(db)

\* Crashes, failing Redis commands and the retries that follow never settle a
\* step twice while the lock holds: README.md:72, short of its TTL.
SettledByOneEvent ==
    expiries = 0 /\ giveUps = 0 =>
      \A s \in Step : Cardinality(SettledAt(db, s)) <= 1

\* The log is never ahead of the entities: what a replay finds settled reads as
\* settled, however a call was cut short.
LogIsApplied ==
    expiries = 0 /\ giveUps = 0 =>
      \A s \in Step : SettledAt(db, s) # {} => db.step[s].status \in {"completed", "failed"}

=============================================================================
