--------------------------- MODULE RedirectEvents ---------------------------
(***************************************************************************)
(* The event store of packages/world-redirect (src/storage.ts over         *)
(* src/entities.ts): events.create validates an event against the run,     *)
(* step, hook and wait entities, updates the entity the event is about and *)
(* appends the event to the run's log.  Each accepted call is one atomic   *)
(* step here, which is what the per-run lock is there to ensure (see       *)
(* RedirectCreate for the calls taken apart); a rejected call changes      *)
(* nothing and is no step.                                                 *)
(*                                                                         *)
(* Correlation ids are derived from the run's replay, so a step, hook or   *)
(* wait belongs to one run, and a hook always comes with the same token.   *)
(***************************************************************************)
EXTENDS Naturals, Sequences, FiniteSets

CONSTANTS
    Run, Step, Hook, Wait, Token,
    StepRun, HookRun, WaitRun,  \* the run each of them belongs to
    HookToken,  \* the token a hook asks for
    MaxLog,     \* bound: events, per run
    None        \* no hook

ASSUME EventsAssumption ==
    /\ StepRun \in [Step -> Run]
    /\ HookRun \in [Hook -> Run]
    /\ WaitRun \in [Wait -> Run]
    /\ HookToken \in [Hook -> Token]
    /\ MaxLog \in [Run -> Nat]
    /\ None \notin Hook

VARIABLES
    run,    \* run entity: its status, "none" when there is none
    step,   \* step entities
    hook,   \* the hook entities that exist
    claim,  \* hook-token keys: the hook a token is claimed for
    wait,   \* wait entities
    log     \* the events of a run, in order

vars == <<run, step, hook, claim, wait, log>>

RunTerminal == {"completed", "failed", "cancelled"}
StepTerminal == {"completed", "failed"}
RunStatus == {"none", "pending", "running"} \union RunTerminal
StepStatus == {"none", "pending", "running"} \union StepTerminal
WaitStatus == {"none", "waiting", "completed"}

RunEvent == {"run_created", "run_started", "run_completed", "run_failed",
             "run_cancelled"}
StepEvent == {"step_created", "step_started", "step_completed", "step_failed",
              "step_retrying"}
HookEvent == {"hook_created", "hook_conflict", "hook_received", "hook_disposed"}
WaitEvent == {"wait_created", "wait_completed"}

\* An event's type and its correlation id; run events have none, which is
\* written as the run itself.
Event == [type : RunEvent, on : Run] \union [type : StepEvent, on : Step]
           \union [type : HookEvent, on : Hook] \union [type : WaitEvent, on : Wait]

StepEntity == [status : StepStatus, attempt : Nat, early : BOOLEAN]
NoStep == [status |-> "none", attempt |-> 0, early |-> FALSE]

TypeOK ==
    /\ run \in [Run -> RunStatus]
    /\ step \in [Step -> StepEntity]
    /\ hook \subseteq Hook
    /\ claim \in [Token -> Hook \union {None}]
    /\ wait \in [Wait -> WaitStatus]
    /\ log \in [Run -> Seq(Event)]

Init ==
    /\ run = [r \in Run |-> "none"]
    /\ step = [s \in Step |-> NoStep]
    /\ hook = {}
    /\ claim = [t \in Token |-> None]
    /\ wait = [w \in Wait |-> "none"]
    /\ log = [r \in Run |-> <<>>]

----------------------------------------------------------------------------
Ended(r) == run[r] \in RunTerminal

\* appendEvent.
Append1(r, type, on) ==
    /\ Len(log[r]) < MaxLog[r]
    /\ log' = [log EXCEPT ![r] = Append(@, [type |-> type, on |-> on])]

RunCreated(r) ==
    /\ run[r] = "none"
    /\ run' = [run EXCEPT ![r] = "pending"]
    /\ Append1(r, "run_created", r)
    /\ UNCHANGED <<step, hook, claim, wait>>

\* run_started.  A running run is returned without an event; a missing one is
\* bootstrapped when the event carries the creation data, otherwise the event
\* is only recorded.
RunStarted(r) ==
    /\ \/ /\ run[r] = "pending"
          /\ run' = [run EXCEPT ![r] = "running"]
          /\ Append1(r, "run_started", r)
       \/ /\ run[r] = "none"
          /\ UNCHANGED run
          /\ Append1(r, "run_started", r)
    /\ UNCHANGED <<step, hook, claim, wait>>

ResilientStart(r) ==
    /\ run[r] = "none"
    /\ run' = [run EXCEPT ![r] = "running"]
    /\ Len(log[r]) + 1 < MaxLog[r]
    /\ log' = [log EXCEPT ![r] = @ \o <<[type |-> "run_created", on |-> r],
                                        [type |-> "run_started", on |-> r]>>]
    /\ UNCHANGED <<step, hook, claim, wait>>

\* terminalCleanup: the run's hooks with their token claims, and its waits.
\* (Mutant: only the waits.)
NoWaits(r) == [w \in Wait |-> IF WaitRun[w] = r THEN "none" ELSE wait[w]]
CleanupWaitsOnly(r) ==
    /\ wait' = NoWaits(r)
    /\ UNCHANGED <<hook, claim>>
Cleanup(r) ==
    LET gone == {h \in hook : HookRun[h] = r} IN
    /\ hook' = hook \ gone
    /\ claim' = [t \in Token |-> IF \E h \in gone : HookToken[h] = t
                                 THEN None ELSE claim[t]]
    /\ wait' = NoWaits(r)

EndEvent(status) ==
    IF status = "completed" THEN "run_completed"
    ELSE IF status = "failed" THEN "run_failed" ELSE "run_cancelled"

\* Terminal validation.  (Mutant: only existence.)
RunExists(r) == run[r] # "none"
RunActive(r) == run[r] \in {"pending", "running"}

\* run_completed, run_failed, run_cancelled on a run that has not ended.
RunEnds(r, status) ==
    /\ RunActive(r)
    /\ run' = [run EXCEPT ![r] = status]
    /\ Cleanup(r)
    /\ Append1(r, EndEvent(status), r)
    /\ UNCHANGED step

\* run_completed and run_cancelled on a missing run, and run_cancelled on a
\* cancelled one: nothing but the event.
RunEndRecorded(r, status) ==
    /\ \/ run[r] = "none" /\ status # "failed"
       \/ run[r] = "cancelled" /\ status = "cancelled"
    /\ Append1(r, EndEvent(status), r)
    /\ UNCHANGED <<run, step, hook, claim, wait>>

----------------------------------------------------------------------------
\* Nothing is created on a run that has ended.  (Mutant: no such check.)
CreateAlways(r) == TRUE
MayCreate(r) == ~Ended(r)

StepCreated(s) ==
    /\ MayCreate(StepRun[s])
    /\ step[s].status = "none"
    /\ step' = [step EXCEPT ![s] = [NoStep EXCEPT !.status = "pending"]]
    /\ Append1(StepRun[s], "step_created", s)
    /\ UNCHANGED <<run, hook, claim, wait>>

\* The validated step exists and is not terminal.  (Mutant: only existence.)
StepExists(s) == step[s].status # "none"
StepOpen(s) == step[s].status \in {"pending", "running"}

\* On a run that has ended only a running step may move.
StepInTime(s) == Ended(StepRun[s]) => step[s].status = "running"

StepStarted(s) ==
    /\ StepOpen(s) /\ StepInTime(s)
    /\ ~step[s].early
    /\ step' = [step EXCEPT ![s] = [status |-> "running", attempt |-> @.attempt + 1,
                                    early |-> FALSE]]
    /\ Append1(StepRun[s], "step_started", s)
    /\ UNCHANGED <<run, hook, claim, wait>>

\* step_completed and step_retrying skip the run validation.
StepCompleted(s) ==
    /\ StepOpen(s)
    /\ step' = [step EXCEPT ![s].status = "completed"]
    /\ Append1(StepRun[s], "step_completed", s)
    /\ UNCHANGED <<run, hook, claim, wait>>

StepFailed(s) ==
    /\ StepOpen(s) /\ StepInTime(s)
    /\ step' = [step EXCEPT ![s].status = "failed"]
    /\ Append1(StepRun[s], "step_failed", s)
    /\ UNCHANGED <<run, hook, claim, wait>>

\* early: eventData.retryAfter lies in the future.
StepRetrying(s, early) ==
    /\ StepOpen(s)
    /\ step' = [step EXCEPT ![s].status = "pending", ![s].early = early]
    /\ Append1(StepRun[s], "step_retrying", s)
    /\ UNCHANGED <<run, hook, claim, wait>>

\* The clock passes retryAfter.
RetryDue(s) ==
    /\ step[s].early
    /\ step' = [step EXCEPT ![s].early = FALSE]
    /\ UNCHANGED <<run, hook, claim, wait, log>>

----------------------------------------------------------------------------
\* What the token key holds: the run and the hook, a hook id implying its run.
\* (Mutant: the run alone.)
ClaimRun(h) == HookRun[h]
ClaimValue(h) == h

\* SET NX on the token: the winner's hook is written, the loser's event is
\* recorded as a hook_conflict.
HookCreated(h) ==
    LET r == HookRun[h]
        t == HookToken[h] IN
    /\ MayCreate(r)
    /\ claim[t] = None
    /\ claim' = [claim EXCEPT ![t] = ClaimValue(h)]
    /\ hook' = hook \union {h}
    /\ Append1(r, "hook_created", h)
    /\ UNCHANGED <<run, step, wait>>

HookConflict(h) ==
    LET r == HookRun[h] IN
    /\ MayCreate(r)
    /\ claim[HookToken[h]] # None
    /\ Append1(r, "hook_conflict", h)
    /\ UNCHANGED <<run, step, hook, claim, wait>>

HookReceived(h) ==
    /\ h \in hook
    /\ Append1(HookRun[h], "hook_received", h)
    /\ UNCHANGED <<run, step, hook, claim, wait>>

\* deleteHook: the entity and the token key.  (Mutant: the claim is kept.)
KeepClaim(h) == UNCHANGED claim
FreeClaim(h) == claim' = [claim EXCEPT ![HookToken[h]] = None]

HookDisposed(h) ==
    /\ h \in hook
    /\ hook' = hook \ {h}
    /\ FreeClaim(h)
    /\ Append1(HookRun[h], "hook_disposed", h)
    /\ UNCHANGED <<run, step, wait>>

WaitCreated(w) ==
    /\ MayCreate(WaitRun[w])
    /\ wait[w] = "none"
    /\ wait' = [wait EXCEPT ![w] = "waiting"]
    /\ Append1(WaitRun[w], "wait_created", w)
    /\ UNCHANGED <<run, step, hook, claim>>

WaitCompleted(w) ==
    /\ wait[w] = "waiting"
    /\ wait' = [wait EXCEPT ![w] = "completed"]
    /\ Append1(WaitRun[w], "wait_completed", w)
    /\ UNCHANGED <<run, step, hook, claim>>

----------------------------------------------------------------------------
RunAction(r) ==
    \/ RunCreated(r)
    \/ RunStarted(r)
    \/ ResilientStart(r)
    \/ \E status \in RunTerminal : RunEnds(r, status) \/ RunEndRecorded(r, status)

StepAction(s) ==
    \/ StepCreated(s)
    \/ StepStarted(s)
    \/ StepCompleted(s)
    \/ StepFailed(s)
    \/ \E early \in BOOLEAN : StepRetrying(s, early)
    \/ RetryDue(s)

HookAction(h) ==
    HookCreated(h) \/ HookConflict(h) \/ HookReceived(h) \/ HookDisposed(h)

WaitAction(w) == WaitCreated(w) \/ WaitCompleted(w)

Next ==
    \/ \E r \in Run : RunAction(r)
    \/ \E s \in Step : StepAction(s)
    \/ \E h \in Hook : HookAction(h)
    \/ \E w \in Wait : WaitAction(w)

Spec == Init /\ [][Next]_vars

----------------------------------------------------------------------------
\* The log positions holding an event of one of these types about on.
At(r, types, on) ==
    {i \in 1 .. Len(log[r]) : log[r][i].type \in types /\ log[r][i].on = on}

\* The type of the last of them; "none" when there is none.
Last(r, types, on) ==
    LET P == At(r, types, on) IN
    IF P = {} THEN "none"
    ELSE log[r][CHOOSE i \in P : \A j \in P : j <= i].type

\* What replaying the log makes of each entity.
RunAfter == [none |-> "none", run_created |-> "pending", run_started |-> "running",
             run_completed |-> "completed", run_failed |-> "failed",
             run_cancelled |-> "cancelled"]
StepAfter == [none |-> "none", step_created |-> "pending", step_started |-> "running",
              step_completed |-> "completed", step_failed |-> "failed",
              step_retrying |-> "pending"]
WaitAfter == [none |-> "none", wait_created |-> "waiting", wait_completed |-> "completed"]

RunReplayed(r) == RunAfter[Last(r, RunEvent, r)]

\* The entities are what replaying the run's log yields, except that a run
\* entity may be missing: every status, every attempt count, every live hook and
\* wait, also after retries, conflicts, disposals and the terminal cleanup.
ViewIsReplay ==
    /\ \A r \in Run : run[r] # "none" => run[r] = RunReplayed(r)
    /\ \A s \in Step :
         /\ step[s].status = StepAfter[Last(StepRun[s], StepEvent, s)]
         /\ step[s].attempt = Cardinality(At(StepRun[s], {"step_started"}, s))
    /\ \A h \in Hook :
         h \in hook <=>
           /\ ~Ended(HookRun[h])
           /\ Last(HookRun[h], {"hook_created", "hook_disposed"}, h) = "hook_created"
    /\ \A w \in Wait :
         wait[w] = IF Ended(WaitRun[w]) THEN "none"
                   ELSE WaitAfter[Last(WaitRun[w], WaitEvent, w)]

\* Claims and hooks stand and fall together: a claimed token leads to a live
\* hook that asked for it, and every live hook is reachable through its token,
\* so no two live hooks share one.
ClaimsMatchHooks ==
    /\ \A t \in Token : claim[t] # None => claim[t] \in hook /\ HookToken[claim[t]] = t
    /\ \A h \in hook : claim[HookToken[h]] = h

\* A run that has ended keeps no hook, no token and no wait.
EndedRunsAreClean ==
    \A r \in Run : Ended(r) =>
      /\ \A h \in hook : HookRun[h] # r
      /\ \A t \in Token : claim[t] # None => HookRun[claim[t]] # r
      /\ \A w \in Wait : WaitRun[w] = r => wait[w] = "none"

\* What is settled is settled once: no event of a step follows the one that
\* completed or failed it, through retries and after the end of the run
\* (docs/05-event-sourcing.md:126-130: terminal, no further transitions).
SettledOnce ==
    \A s \in Step :
      \A i \in At(StepRun[s], {"step_completed", "step_failed"}, s) :
        \A j \in At(StepRun[s], StepEvent, s) : j <= i

\* The end of a run is final: its status never changes again and no step, hook
\* or wait of it ever comes into being, whatever results still arrive.
EndIsFinal ==
    [][\A r \in Run : Ended(r) =>
         /\ run'[r] = run[r]
         /\ \A s \in Step : StepRun[s] = r /\ step[s].status = "none"
                             => step'[s].status = "none"
         /\ \A h \in Hook : HookRun[h] = r => h \notin hook'
         /\ \A w \in Wait : WaitRun[w] = r => wait'[w] = "none"]_vars

\* A wait id is created and completed at most once in the life of a run, though
\* the terminal cleanup deletes the entity that remembers it.
WaitIdsNotReused ==
    \A w \in Wait :
      LET n == Cardinality(At(WaitRun[w], {"wait_created"}, w)) IN
      /\ n <= 1
      /\ Cardinality(At(WaitRun[w], {"wait_completed"}, w)) <= n

=============================================================================
