---------------------------- MODULE WorkflowRuns ----------------------------
(***************************************************************************)
(* A workflow run end to end: the runtime of the generated flow.mjs        *)
(* (@workflow/core, bundled in examples/standalone) between the event      *)
(* store, whose calls are the atomic steps of RedirectEvents, and a queue. *)
(*                                                                         *)
(* An invocation of the workflow handler loads the run's log, replays the  *)
(* workflow function over it, creates the steps, hooks and waits the       *)
(* function now asks for, hands the steps to the queue except one it runs  *)
(* itself, and starts over.  Every call of the store or the queue is a     *)
(* step of its own; between two of them other invocations of the same run  *)
(* may act, and what an invocation knows is the prefix of the log it read. *)
(*                                                                         *)
(* The queue is abstract: a message is scheduled or in the hands of one    *)
(* worker (RedirectQueue and KVQueue say what that costs).  Delays are not *)
(* modelled: a message may be delivered before what it waits for is due.   *)
(***************************************************************************)
EXTENDS Naturals, Sequences, FiniteSets

CONSTANTS
    Run, Step, Hook, Wait, Token, StepRun, HookRun, WaitRun, HookToken,
    MaxLog,
    Programs,     \* the stages of the workflow functions, per run
    Worker,       \* handler invocations at a time
    MaxRetries,   \* stepFn.maxRetries, per step
    Keyed,        \* does the queue honour idempotency keys?
    Losses,       \* may the message of a worker that fails be lost (TRUE),
                  \* come back (FALSE), or both?
    MaxEarly,     \* bound: run_started events recorded before run_created
    MaxStarts,    \* bound: further hosts started
    MaxFailures,  \* bound: workers that fail
    MaxFaults,    \* bound: both together
    None

\* A stage awaits all its operations, or (race) the first of them.
Op == Step \union Hook \union Wait

ASSUME RunsAssumption ==
    /\ \A f \in Programs :
         /\ f \in [Run -> Seq([ops : SUBSET Op, race : BOOLEAN])]
         /\ \A r \in Run : \A i \in 1 .. Len(f[r]) : f[r][i].ops # {}
    /\ MaxRetries \in [Step -> Nat]
    /\ {Keyed} \union Losses \subseteq BOOLEAN
    /\ {MaxEarly, MaxStarts, MaxFailures, MaxFaults} \subseteq Nat
    /\ None \notin Run \union Op

VARIABLES
    run, step, hook, claim, wait, log,  \* the event store
    program,  \* the program each run executes
    due,      \* the waits whose resumeAt has passed
    msgs,     \* how often each message is scheduled
    key,      \* the idempotency keys taken
    worker,   \* the handler invocations
    start,    \* what start() still has to do for a run
    resume,   \* hooks: "no", "event" (payload recorded), "done" (run queued)
    faults    \* hosts started and workers failed so far; the runs that lost a
              \* message and were not re-enqueued since; the steps stranded
              \* between their key and their message

store == <<run, step, hook, claim, wait, log>>
outside == <<program, due, start, resume, faults>>
vars == <<run, step, hook, claim, wait, log, program, due, msgs, key, worker, start, resume, faults>>

Events == INSTANCE RedirectEvents

Message == [kind : {"start", "run"}, on : Run] \union [kind : {"step"}, on : Step]
StartMsg(r) == [kind |-> "start", on |-> r]
RunMsg(r) == [kind |-> "run", on |-> r]
StepMsg(s) == [kind |-> "step", on |-> s]
RunOf(m) == IF m.kind = "step" THEN StepRun[m.on] ELSE m.on

\* step: the one to execute, in which attempt; bg: it is what the message asks
\* for; end, pending: how the last replay ended and what the function then
\* waited for; todo: what is left of a loop; own: the steps created in it;
\* conflict: a hook was refused; placing: the step whose key was just taken.
Idle == [pc |-> "idle", msg |-> None, step |-> None, attempt |-> 0, bg |-> FALSE,
         end |-> "open", pending |-> {}, todo |-> {}, own |-> {}, conflict |-> FALSE,
         placing |-> None]

Init ==
    /\ Events!Init
    /\ program \in Programs
    /\ due = {}
    /\ msgs = [m \in Message |-> 0]
    /\ key = {}
    /\ worker = [p \in Worker |-> Idle]
    /\ start = [r \in Run |-> {"create", "queue"}]
    /\ resume = [h \in Hook |-> "no"]
    /\ faults = [starts |-> 0, failures |-> 0, lost |-> {}, stranded |-> {}]

----------------------------------------------------------------------------
\* Replay.  The workflow function has asked for the operations of the stages
\* up to the current one.
Requested(r, i) == UNION {program[r][j].ops : j \in 1 .. i}

Fulfilled(stage, got) ==
    IF stage.race THEN stage.ops \intersect got # {} ELSE stage.ops \subseteq got

Resolving == {"step_completed", "wait_completed", "hook_received"}
Rejecting == {"step_failed", "hook_conflict"}
Settling == {"step_completed", "step_failed", "wait_completed"}

\* got: resolved; finished: no longer subscribed to events.  An event that
\* nobody consumes means a corrupted log.
Consume(r, q, e) ==
    LET known == e.on \in Requested(r, q.stage) \ q.finished
        got == IF e.type \in Resolving THEN q.got \union {e.on} ELSE q.got
        finished == IF e.type \in Settling THEN q.finished \union {e.on} ELSE q.finished
        current == program[r][q.stage]
        last == q.stage = Len(program[r]) IN
    IF q.end # "open" \/ e.type \in {"run_created", "run_started"} THEN q
    ELSE IF ~known THEN [q EXCEPT !.end = "corrupt"]
    ELSE IF e.type \in Rejecting /\ e.on \in current.ops THEN [q EXCEPT !.end = "threw"]
    ELSE IF ~Fulfilled(current, got) THEN [q EXCEPT !.got = got, !.finished = finished]
    ELSE [stage |-> IF last THEN q.stage ELSE q.stage + 1, got |-> got,
          finished |-> finished, end |-> IF last THEN "done" ELSE "open"]

\* (Evaluated strictly, one event after the other.)
Replay(r, events) ==
    LET after[i \in 0 .. Len(events)] ==
          IF i = 0 THEN [stage |-> 1, got |-> {}, finished |-> {}, end |-> "open"]
          ELSE CHOOSE q \in {Consume(r, p, events[i]) : p \in {after[i - 1]}} : TRUE
    IN  after[Len(events)]

EventsOf(events, types) == {e \in {events[i] : i \in 1 .. Len(events)} : e.type \in types}
Subjects(events, types) == {e.on : e \in EventsOf(events, types)}

Creating == {"step_created", "hook_created", "hook_conflict", "wait_created"}
Ending == {"run_completed", "run_failed", "run_cancelled"}
HasEnded(events) == EventsOf(events, Ending) # {}

----------------------------------------------------------------------------
Put(m) == msgs' = [msgs EXCEPT ![m] = @ + 1]
Become(p, w) == worker' = [worker EXCEPT ![p] = w]

\* The handler returns; with timeoutSeconds, its message is rescheduled.
Return(p) == Become(p, Idle) /\ UNCHANGED <<msgs, key>>
ReturnLater(p) == Become(p, Idle) /\ Put(worker[p].msg) /\ UNCHANGED key

\* start(): the event and the message, in either order.  The message carries
\* the run's input from specVersion 3 on; that of the world is 2.
StartCreates(r) ==
    /\ "create" \in start[r]
    /\ start' = [start EXCEPT ![r] = @ \ {"create"}]
    /\ IF run[r] = "none" THEN Events!RunCreated(r) ELSE UNCHANGED store
    /\ UNCHANGED <<program, due, msgs, key, worker, resume, faults>>

StartQueues(r) ==
    /\ "queue" \in start[r]
    /\ start' = [start EXCEPT ![r] = @ \ {"queue"}]
    /\ Put(StartMsg(r))
    /\ UNCHANGED <<store, program, due, key, worker, resume, faults>>

\* resumeHook: the payload first, then the message.
ResumeRecords(h) ==
    /\ resume[h] = "no"
    /\ Events!HookReceived(h)
    /\ resume' = [resume EXCEPT ![h] = "event"]
    /\ UNCHANGED <<program, due, msgs, key, worker, start, faults>>

ResumeQueues(h) ==
    /\ resume[h] = "event"
    /\ resume' = [resume EXCEPT ![h] = "done"]
    /\ Put(RunMsg(HookRun[h]))
    /\ UNCHANGED <<store, program, due, key, worker, start, faults>>

WaitDue(w) ==
    /\ wait[w] = "waiting" /\ w \notin due
    /\ due' = due \union {w}
    /\ UNCHANGED <<store, program, msgs, key, worker, start, resume, faults>>

RetryDue(s) == Events!RetryDue(s) /\ UNCHANGED <<outside, msgs, key, worker>>

----------------------------------------------------------------------------
\* A run message goes through run_started first, a step message through the
\* run's status.
Deliver(p, m) ==
    /\ worker[p] = Idle /\ msgs[m] > 0
    /\ msgs' = [msgs EXCEPT ![m] = @ - 1]
    /\ Become(p, [Idle EXCEPT !.msg = m, !.pc = IF m.kind = "step" THEN "check" ELSE "start"])
    /\ UNCHANGED <<store, outside, key>>

\* run_started makes a pending run running, and is refused on an ended one.
\* On one that is missing it is recorded all the same; no run is returned, and
\* the setup fails.
RunStarts(p) ==
    LET w == worker[p]
        r == RunOf(w.msg)
        Go(pc) == Become(p, [w EXCEPT !.pc = pc]) /\ UNCHANGED <<msgs, key>> IN
    /\ w.pc = "start"
    /\ \/ run[r] = "none" /\ Len(log[r]) < MaxEarly /\ Events!RunStarted(r) /\ Go("abort")
       \/ run[r] = "pending" /\ Events!RunStarted(r) /\ Go("load")
       \/ run[r] = "running" /\ Go("load") /\ UNCHANGED store
       \/ Events!Ended(r) /\ Return(p) /\ UNCHANGED store
    /\ UNCHANGED outside

\* recordFatalRunError: the run fails, if it has been created by now and has
\* not ended; if it is still missing, the message will be delivered again.
Aborts(p) ==
    LET r == RunOf(worker[p].msg) IN
    /\ worker[p].pc = "abort"
    /\ \/ Events!RunEnds(r, "failed") /\ Return(p)
       \/ Events!Ended(r) /\ Return(p) /\ UNCHANGED store
       \/ run[r] = "none" /\ ReturnLater(p) /\ UNCHANGED store
    /\ UNCHANGED outside

ChecksRun(p) ==
    LET w == worker[p] IN
    /\ w.pc = "check"
    /\ IF run[RunOf(w.msg)] = "running"
       THEN Become(p, [w EXCEPT !.pc = "begin", !.step = w.msg.on, !.bg = TRUE])
            /\ UNCHANGED <<msgs, key>>
       ELSE Return(p)
    /\ UNCHANGED <<store, outside>>

\* executeStep is over: an inline one is followed by another replay, one that
\* the message asked for only if no created step is unsettled.
Executed(w) == [w EXCEPT !.pc = IF w.bg THEN "review" ELSE "load", !.attempt = 0]

\* A step to be tried again: its own message comes back, or gets one.
TryLater(p) ==
    IF worker[p].bg THEN ReturnLater(p)
    ELSE Become(p, Idle) /\ Put(StepMsg(worker[p].step)) /\ UNCHANGED key

StepBegins(p) ==
    LET w == worker[p]
        s == w.step
        Refused == ~(Events!StepOpen(s) /\ Events!StepInTime(s)) IN
    /\ w.pc = "begin"
    /\ \/ /\ Events!StepStarted(s)
          /\ Become(p, [w EXCEPT !.pc = "body", !.attempt = step'[s].attempt])
          /\ UNCHANGED <<msgs, key>>
       \/ /\ Events!StepOpen(s) /\ Refused /\ w.bg  \* "gone"
          /\ Return(p) /\ UNCHANGED store
       \/ /\ Refused /\ ~(Events!StepOpen(s) /\ w.bg)
          /\ Become(p, Executed(w)) /\ UNCHANGED <<store, msgs, key>>
       \/ /\ ~Refused /\ step[s].early
          /\ TryLater(p) /\ UNCHANGED store
    /\ UNCHANGED outside

\* The body succeeds, fails for good (a FatalError, or any other in the last
\* attempt), or is to be retried; what the store refuses because the step is
\* settled is skipped.
LastAttempt(w) == w.attempt >= MaxRetries[w.step] + 1

\* Beyond the last attempt, a step that has failed before is not run any more.
Exhausted(w) ==
    /\ w.attempt > MaxRetries[w.step] + 1
    /\ Events!At(RunOf(w.msg), {"step_retrying"}, w.step) # {}

StepSucceeds(p) ==
    LET w == worker[p] IN
    /\ w.pc = "body" /\ ~Exhausted(w)
    /\ IF Events!StepOpen(w.step) THEN Events!StepCompleted(w.step) ELSE UNCHANGED store
    /\ Become(p, Executed(w))
    /\ UNCHANGED <<outside, msgs, key>>

StepThrows(p) ==
    LET w == worker[p]
        s == w.step IN
    /\ w.pc = "body"
    /\ \/ /\ ~Events!StepOpen(s)
          /\ Become(p, Executed(w)) /\ UNCHANGED <<store, msgs, key>>
       \/ /\ Events!StepFailed(s)
          /\ Become(p, Executed(w)) /\ UNCHANGED <<msgs, key>>
       \/ /\ Events!StepOpen(s) /\ ~Events!StepInTime(s)
          /\ ReturnLater(p) /\ UNCHANGED store
       \/ /\ ~LastAttempt(w)
          /\ \E early \in BOOLEAN : Events!StepRetrying(s, early)
          /\ TryLater(p)
    /\ UNCHANGED outside

\* "Background step done but other steps pending."  (Mutant: a step that failed
\* is still pending.)
StepsUncompleted(events) ==
    ~(Subjects(events, {"step_created"}) \subseteq Subjects(events, {"step_completed"}))
StepsUnsettled(events) ==
    ~(Subjects(events, {"step_created"})
        \subseteq Subjects(events, {"step_completed", "step_failed"}))

Reviews(p) ==
    LET w == worker[p] IN
    /\ w.pc = "review"
    /\ IF StepsUnsettled(log[RunOf(w.msg)])
       THEN Return(p)
       ELSE Become(p, [w EXCEPT !.pc = "load"]) /\ UNCHANGED <<msgs, key>>
    /\ UNCHANGED <<store, outside>>

----------------------------------------------------------------------------
\* A step of its own is run inline when no wait is pending; the other pending
\* steps go to the queue.  (Mutant: only those this suspension created.)
Inline(w) ==
    IF w.pending \intersect Wait = {} /\ w.own # {} THEN CHOOSE s \in w.own : TRUE
    ELSE None
ForQueueOwned(w) == w.own \ {Inline(w)}
ForQueue(w) == (w.pending \intersect Step) \ {Inline(w)}

\* What an invocation does when the loop it is in has nothing left to do.
Queued(w) ==
    IF w.pc # "queue" \/ w.todo # {} THEN w
    ELSE IF w.step = None THEN [w EXCEPT !.pc = "leave"]
    ELSE [w EXCEPT !.pc = "begin", !.pending = {}, !.own = {}]
Onward(w) ==
    IF w.pc # "create" \/ w.todo # {} THEN Queued(w)
    ELSE IF w.end # "open" THEN [w EXCEPT !.pc = "end"]
    ELSE IF w.conflict THEN [w EXCEPT !.pc = "leave"]
    ELSE Queued([w EXCEPT !.pc = "queue", !.todo = ForQueue(w), !.step = Inline(w)])

\* The replay of what has been read, up to the loop that creates what it asks
\* for: a suspension, or the drain of what is left when the function is over.
Replays(p, events) ==
    LET r == RunOf(worker[p].msg) IN
    \E q \in {Replay(r, events)} :
      LET pending == Requested(r, q.stage) \ q.finished IN
      Become(p, Onward([worker[p] EXCEPT
        !.pc = "create", !.step = None, !.bg = FALSE, !.conflict = FALSE, !.own = {},
        !.end = q.end, !.pending = pending, !.todo = pending \ Subjects(events, Creating)]))

WaitsToComplete(events) ==
    (Wait \intersect Subjects(events, {"wait_created"}) \intersect due)
      \ Subjects(events, {"wait_completed"})

Loads(p) ==
    LET events == log[RunOf(worker[p].msg)]
        waits == WaitsToComplete(events) IN
    /\ worker[p].pc = "load"
    /\ \/ HasEnded(events) /\ Return(p)
       \/ /\ ~HasEnded(events) /\ waits = {}
          /\ Replays(p, events) /\ UNCHANGED <<msgs, key>>
       \/ /\ ~HasEnded(events) /\ waits # {}
          /\ Become(p, [worker[p] EXCEPT !.pc = "wake", !.todo = waits])
          /\ UNCHANGED <<msgs, key>>
    /\ UNCHANGED <<store, outside>>

\* An invocation that has run for two minutes leaves the rest to another.
Yields(p) ==
    /\ worker[p].pc = "load" /\ worker[p].step # None
    /\ Become(p, Idle)
    /\ Put(RunMsg(RunOf(worker[p].msg)))
    /\ UNCHANGED <<store, outside, key>>

\* The wait of a run that has ended is gone, and the handler gives up.
CompletesWait(p, x) ==
    LET w == worker[p] IN
    /\ w.pc = "wake" /\ x \in w.todo
    /\ \/ /\ wait[x] # "none"
          /\ IF wait[x] = "waiting" THEN Events!WaitCompleted(x) ELSE UNCHANGED store
          /\ Become(p, [w EXCEPT !.todo = @ \ {x}]) /\ UNCHANGED <<msgs, key>>
       \/ /\ wait[x] = "none"
          /\ Return(p) /\ UNCHANGED store
    /\ UNCHANGED outside

Reloads(p) ==
    /\ worker[p].pc = "wake" /\ worker[p].todo = {}
    /\ Replays(p, log[RunOf(worker[p].msg)])
    /\ UNCHANGED <<store, outside, msgs, key>>

\* handleSuspension: hooks first, then steps and waits.  What another
\* invocation has created meanwhile, or the end of the run forbids, is skipped.
CreatesHook(p, h) ==
    LET w == worker[p]
        Done(conflict) ==
          Become(p, Onward([w EXCEPT !.todo = @ \ {h}, !.conflict = @ \/ conflict])) IN
    /\ w.pc = "create" /\ h \in w.todo
    /\ \/ Events!HookCreated(h) /\ Done(FALSE)
       \/ Events!HookConflict(h) /\ Done(TRUE)
       \/ Events!Ended(HookRun[h]) /\ Done(FALSE) /\ UNCHANGED store
    /\ UNCHANGED <<outside, msgs, key>>

Creates(p, o) ==
    LET w == worker[p]
        Done(mine) == Become(p, Onward([w EXCEPT !.todo = @ \ {o}, !.own = @ \union mine])) IN
    /\ w.pc = "create" /\ o \in w.todo \ Hook /\ w.todo \intersect Hook = {}
    /\ \/ o \in Step /\ Events!StepCreated(o) /\ Done({o})
       \/ o \in Wait /\ Events!WaitCreated(o) /\ Done({})
       \/ /\ \/ Events!Ended(RunOf(w.msg))
             \/ o \in Step /\ step[o] # Events!NoStep
             \/ o \in Wait /\ wait[o] # "none"
          /\ Done({}) /\ UNCHANGED store
    /\ UNCHANGED <<outside, msgs, key>>

\* The function is over: the run ends, unless it already has.
EndsRun(p) ==
    LET w == worker[p]
        r == RunOf(w.msg) IN
    /\ w.pc = "end"
    /\ IF Events!RunActive(r)
       THEN Events!RunEnds(r, IF w.end = "done" THEN "completed" ELSE "failed")
       ELSE UNCHANGED store
    /\ Return(p)
    /\ UNCHANGED outside

\* With a key, it is taken first, and the message is written in a second step;
\* an enqueue whose key is taken is swallowed.
TakesKey(p, s) ==
    LET w == worker[p] IN
    /\ w.pc = "queue" /\ s \in w.todo
    /\ Keyed /\ s \notin key
    /\ key' = key \union {s}
    /\ Become(p, [w EXCEPT !.pc = "place", !.todo = @ \ {s}, !.placing = s])
    /\ UNCHANGED <<store, outside, msgs>>

PlacesStep(p) ==
    LET w == worker[p] IN
    /\ w.pc = "place"
    /\ Put(StepMsg(w.placing))
    /\ Become(p, Onward([w EXCEPT !.pc = "queue", !.placing = None]))
    /\ UNCHANGED <<store, outside, key>>

QueuesStep(p, s) ==
    LET w == worker[p] IN
    /\ w.pc = "queue" /\ s \in w.todo
    /\ IF Keyed THEN s \in key /\ UNCHANGED msgs ELSE Put(StepMsg(s))
    /\ Become(p, Onward([w EXCEPT !.todo = @ \ {s}]))
    /\ UNCHANGED <<store, outside, key>>

\* The invocation is over; it asks to be called again after a conflict and
\* when the next wait is due.
Leaves(p) ==
    LET w == worker[p] IN
    /\ w.pc = "leave"
    /\ IF w.conflict \/ w.pending \intersect Wait # {} THEN ReturnLater(p) ELSE Return(p)
    /\ UNCHANGED <<store, outside>>

----------------------------------------------------------------------------
\* A host starts and re-enqueues every run that has not ended.
HostStarts ==
    /\ faults.starts < MaxStarts /\ faults.starts + faults.failures < MaxFaults
    /\ faults' = [faults EXCEPT !.starts = @ + 1,
                                  !.lost = {r \in @ : ~Events!RunActive(r)}]
    /\ msgs' = [m \in Message |->
                  IF m.kind = "run" /\ Events!RunActive(m.on) THEN msgs[m] + 1 ELSE msgs[m]]
    /\ UNCHANGED <<store, program, due, key, worker, start, resume>>

\* The handler stops halfway.  When a call threw, the wrapper reschedules the
\* message; when the process died, the message comes back if its claim was a
\* lease, and is lost if it was a ZREM.
Fails(p) ==
    /\ faults.failures < MaxFailures /\ faults.starts + faults.failures < MaxFaults
    /\ worker[p] # Idle
    /\ \E lost \in Losses :
         /\ faults' = [faults EXCEPT !.failures = @ + 1,
              !.lost = IF lost THEN @ \union {RunOf(worker[p].msg)} ELSE @,
              !.stranded = @ \union ({worker[p].placing} \ {None})]
         /\ IF lost THEN Return(p) ELSE ReturnLater(p)
    /\ UNCHANGED <<store, program, due, start, resume>>

\* One invocation: of the handler for a message, for a step, for a replay.
WorkerStep(p) ==
    \/ RunStarts(p) \/ Aborts(p) \/ ChecksRun(p)
    \/ StepBegins(p) \/ StepSucceeds(p) \/ StepThrows(p) \/ Reviews(p)
    \/ Loads(p) \/ Yields(p) \/ Reloads(p) \/ EndsRun(p) \/ Leaves(p)
    \/ \E x \in Wait : CompletesWait(p, x)
    \/ \E h \in Hook : CreatesHook(p, h)
    \/ \E o \in Op : Creates(p, o)
    \/ \E s \in Step : TakesKey(p, s) \/ QueuesStep(p, s)
    \/ PlacesStep(p)

Environment ==
    \/ \E r \in Run : StartCreates(r) \/ StartQueues(r)
    \/ \E h \in Hook : ResumeRecords(h) \/ ResumeQueues(h)
    \/ \E w \in Wait : WaitDue(w)
    \/ \E s \in Step : RetryDue(s)

Next ==
    \/ Environment
    \/ \E p \in Worker : WorkerStep(p)
    \/ \E p \in Worker, m \in Message : Deliver(p, m)
    \/ HostStarts
    \/ \E p \in Worker : Fails(p)

Spec == Init /\ [][Next]_vars

\* Invocations go on, time passes, start() and resumeHook go through, payloads
\* arrive, and the dispatcher takes what is scheduled in the order of its time,
\* so that no message is overtaken for ever.
Fairness ==
    /\ WF_vars(Environment)
    /\ \A p \in Worker : WF_vars(WorkerStep(p))
    /\ \A m \in Message : SF_vars(\E p \in Worker : Deliver(p, m))

FairSpec == Spec /\ Fairness

----------------------------------------------------------------------------
\* The events of a run before it ended.
History(r) == SubSeq(log[r], 1, CHOOSE n \in 0 .. Len(log[r]) :
    /\ ~HasEnded(SubSeq(log[r], 1, n))
    /\ n = Len(log[r]) \/ HasEnded(SubSeq(log[r], 1, n + 1)))

\* start()'s message was delivered before run_created was recorded.
StartedEarly(r) == log[r] # <<>> /\ log[r][1].type = "run_started"


\* Nothing happens any more to r unless something from outside does.
Quiet(r) ==
    /\ start[r] = {}
    /\ \A m \in Message : RunOf(m) = r => msgs[m] = 0
    /\ \A p \in Worker : worker[p] = Idle
    /\ \A h \in Hook : HookRun[h] = r => resume[h] # "event"
AwaitsPayload(r) ==
    \E h \in hook : HookRun[h] = r /\ resume[h] = "no"

\* As long as a run has not ended some message or some invocation will carry it
\* on, or it waits for the payload of a hook: no invocation relies on another
\* that relies on it.  Only a step whose enqueue failed after its key was taken
\* makes a run hang.
Hangs(r) == Quiet(r) /\ ~Events!Ended(r) /\ ~AwaitsPayload(r)
HangsOnlyIfStranded ==
    \A r \in Run : Hangs(r) => \E s \in faults.stranded : StepRun[s] = r

\* The same when messages are lost with the process that had them, once a host
\* that started after that has re-enqueued the run:
\* docs/03-world-contract.md:451.
RecoveredRunsGoOn == \A r \in Run : Hangs(r) => r \in faults.lost

\* Every run that is started ends, through retries, concurrent invocations and
\* waits.
RunsEnd == \A r \in Run : <>Events!Ended(r)
=============================================================================
