--------------------------- MODULE RedirectQueue ---------------------------
(***************************************************************************)
(* The Redis work queue of packages/world-redirect (src/queue.ts): job     *)
(* hashes, the schedule sorted set, the dispatchers that claim due jobs    *)
(* with ZREM and POST them to the handler route, and the handler wrapper,  *)
(* which owns a job's completion, retry and redelivery and which continues *)
(* an in-handler enqueue through a 307 redirect ("hop").                   *)
(*                                                                         *)
(* A Slot is one fetch of dispatchOne and the requests it causes: its      *)
(* client side (client) is the dispatcher awaiting the fetch, its server   *)
(* side (pc, cur, ...) is the wrapper invocation the fetch has reached.    *)
(* Each step is at most one Redis command.                                 *)
(*                                                                         *)
(* Time is abstract: a scheduled job is "due", or will be: "later" (delay, *)
(* backoff, sleep) or "grace" (in-handler immediate enqueue).              *)
(***************************************************************************)
EXTENDS Naturals, FiniteSets

CONSTANTS
    Message,        \* the message ids that may be allocated, each at most once
    Slot,           \* concurrent dispatches; their number bounds inFlight
    Host,           \* processes running a dispatcher
    Misrouted,      \* messages whose queue name fails the handler's prefix test
    HealthCheck,    \* messages carrying __healthCheck
    MaxAttempts,    \* config.maxAttempts
    MaxHops,        \* MAX_HOPS
    MaxSleeps,      \* bound: timeoutSeconds results per message
    MaxDirect,      \* bound: direct invocations without a job record
    MaxFaults,      \* bound: fetches that fail, or are cut off at either end
    MaxLate,        \* bound: continuations that outwait their grace window
                    \* while the handler that enqueued them is still at work
    None            \* no message

ASSUME QueueAssumption ==
    /\ Misrouted \subseteq Message
    /\ HealthCheck \subseteq Message
    /\ MaxAttempts \in Nat \ {0}
    /\ MaxHops \in Nat \ {0}
    /\ MaxSleeps \in Nat
    /\ MaxDirect \in Nat
    /\ MaxFaults \in Nat
    /\ MaxLate \in Nat
    /\ None \notin Message
    /\ IsFiniteSet(Slot)
    /\ {"no", "now", "delayed"} \intersect Slot = {}

VARIABLES
    hash,       \* the job hash: "absent", "full", or "partial" (attempt only)
    attempt,    \* its attempt field
    sched,      \* the schedule sorted set: "out" when not a member
    pending,    \* writeJob done, scheduleJob not yet: by whom
    batch,      \* per host: ids drainOnce read as due and has not tried yet
    client,     \* per slot: the dispatcher's side of the fetch
    orig,       \* per slot: the message dispatchOne was called for
    sentAs,     \* per slot: the attempt dispatchOne read
    pc,         \* per slot: the wrapper's side
    cur,        \* per slot: the message the wrapper handles
    hop,        \* per slot: the hop query parameter
    seen,       \* per slot: the attempt the wrapper read
    next,       \* per slot: first of ctx.immediate
    rest,       \* per slot: the others
    fate,       \* ghost: what became of the message
    fails,      \* ghost: handler failures per message
    sleeps,     \* bound counter
    direct,     \* bound counter
    late,       \* ghost: the continuations that outwaited their grace window
    failed,     \* ghost: the messages whose fetch has failed
    faults      \* bound counter

redis == <<hash, attempt, sched>>
dispatcher == <<batch, client, orig, sentAs>>
wrapper == <<pc, cur, hop, seen, next, rest>>
ghost == <<fate, fails>>
bounds == <<sleeps, direct, late, failed, faults>>
vars == <<hash, attempt, sched, pending, batch, client, orig, sentAs, pc, cur,
          hop, seen, next, rest, fate, fails, sleeps, direct, late, failed,
          faults>>

SchedState == {"out", "grace", "later", "due"}
ClientState == {"none", "open", "bump", "requeue", "drop", "dropzrem"}
WrapperState == {"idle", "claimed", "sent", "running", "del", "zrem",
                 "promote", "redirect", "resched", "drop", "dropzrem"}
Fate == {"new", "writing", "queued", "done", "dropped"}

TypeOK ==
    /\ hash \in [Message -> {"absent", "full", "partial"}]
    /\ attempt \in [Message -> 0 .. MaxAttempts]
    /\ sched \in [Message -> SchedState]
    /\ pending \in [Message -> {"no", "now", "delayed"} \union Slot]
    /\ batch \in [Host -> SUBSET Message]
    /\ client \in [Slot -> ClientState]
    /\ orig \in [Slot -> Message \union {None}]
    /\ sentAs \in [Slot -> 0 .. MaxAttempts]
    /\ pc \in [Slot -> WrapperState]
    /\ cur \in [Slot -> Message \union {None}]
    /\ hop \in [Slot -> 0 .. MaxHops - 1]
    /\ seen \in [Slot -> 0 .. MaxAttempts]
    /\ next \in [Slot -> Message \union {None}]
    /\ rest \in [Slot -> SUBSET Message]
    /\ fate \in [Message -> Fate]
    /\ fails \in [Message -> 0 .. MaxAttempts]
    /\ sleeps \in [Message -> 0 .. MaxSleeps]
    /\ direct \in 0 .. MaxDirect
    /\ late \in SUBSET Message /\ IsFiniteSet(late) /\ Cardinality(late) <= MaxLate
    /\ failed \in SUBSET Message
    /\ faults \in 0 .. MaxFaults

Init ==
    /\ hash = [m \in Message |-> "absent"]
    /\ attempt = [m \in Message |-> 0]
    /\ sched = [m \in Message |-> "out"]
    /\ pending = [m \in Message |-> "no"]
    /\ batch = [h \in Host |-> {}]
    /\ client = [s \in Slot |-> "none"]
    /\ orig = [s \in Slot |-> None]
    /\ sentAs = [s \in Slot |-> 0]
    /\ pc = [s \in Slot |-> "idle"]
    /\ cur = [s \in Slot |-> None]
    /\ hop = [s \in Slot |-> 0]
    /\ seen = [s \in Slot |-> 0]
    /\ next = [s \in Slot |-> None]
    /\ rest = [s \in Slot |-> {}]
    /\ fate = [m \in Message |-> "new"]
    /\ fails = [m \in Message |-> 0]
    /\ sleeps = [m \in Message |-> 0]
    /\ direct = 0
    /\ late = {}
    /\ failed = {}
    /\ faults = 0

----------------------------------------------------------------------------
Scheduled(m) == sched[m] # "out"

\* Ids of drainOnce's zrangeByScore(schedule, 0, now).
Due == {m \in Message : sched[m] = "due"}

\* An in-handler immediate enqueue some live handler has still to hand over.
Recorded(m) == \E s \in Slot : next[s] = m \/ m \in rest[s]

FreeSlot(s) == pc[s] = "idle" /\ client[s] = "none"

\* The clock passes a scheduled entry's score.
TimePasses(m) ==
    /\ \/ /\ sched[m] \in {"later", "grace"}
          /\ sched[m] = "grace" => ~Recorded(m)
          /\ UNCHANGED late
       \/ /\ sched[m] = "grace" /\ Recorded(m)
          /\ Cardinality(late) < MaxLate
          /\ late' = late \union {m}
    /\ sched' = [sched EXCEPT ![m] = "due"]
    /\ UNCHANGED <<hash, attempt, pending, dispatcher, wrapper, ghost, sleeps,
                   direct, failed, faults>>

----------------------------------------------------------------------------
(* queue(): writeJob, then scheduleJob.                                    *)

\* writeJob with attempt 1, by a client ("now", "delayed") or, for a no-delay
\* enqueue inside a handler, by the slot whose handler context it finds.
WriteJob(m, by) ==
    /\ fate[m] = "new"
    /\ by \in Slot => pc[by] = "running"
    /\ hash' = [hash EXCEPT ![m] = "full"]
    /\ attempt' = [attempt EXCEPT ![m] = 1]
    /\ pending' = [pending EXCEPT ![m] = by]
    /\ fate' = [fate EXCEPT ![m] = "writing"]
    /\ UNCHANGED <<sched, dispatcher, wrapper, fails, bounds>>

\* runAt is now, now + delay, or, for a continuation, now + the grace window.
\* (Mutant: no grace window.)
RunAtNoGrace(by) == IF by = "delayed" THEN "later" ELSE "due"
RunAt(by) == IF by \in Slot THEN "grace" ELSE IF by = "delayed" THEN "later" ELSE "due"

\* scheduleJob, and queue() returns; a continuation is recorded in
\* ctx.immediate.
ScheduleJob(m) ==
    LET by == pending[m] IN
    /\ by # "no"
    /\ pending' = [pending EXCEPT ![m] = "no"]
    /\ fate' = [fate EXCEPT ![m] = "queued"]
    /\ sched' = [sched EXCEPT ![m] = RunAt(by)]
    /\ IF by \notin Slot THEN UNCHANGED <<next, rest>>
       ELSE IF next[by] = None
            THEN next' = [next EXCEPT ![by] = m] /\ UNCHANGED rest
            ELSE rest' = [rest EXCEPT ![by] = @ \union {m}] /\ UNCHANGED next
    /\ UNCHANGED <<hash, attempt, dispatcher, pc, cur, hop, seen, fails, bounds>>

----------------------------------------------------------------------------
(* drainOnce and dispatchOne.                                              *)

\* MAX_CONCURRENCY - inFlight.
Capacity == Cardinality({s \in Slot : FreeSlot(s)})

\* The due ids, up to the free capacity, are read once per drain.
ReadDue(h) ==
    /\ batch[h] = {}
    /\ \E ids \in SUBSET Due :
         /\ Cardinality(ids) = CHOOSE n \in {Cardinality(Due), Capacity} :
                                  n <= Cardinality(Due) /\ n <= Capacity
         /\ batch' = [batch EXCEPT ![h] = ids]
    /\ UNCHANGED <<redis, pending, client, orig, sentAs, wrapper, ghost, bounds>>

\* ZREM's result.  (Mutant: not looked at.)
ZremAny(m) == TRUE
ZremWins(m) == Scheduled(m)

\* ZREM is the claim; an id that another process removed first is skipped.
Claim(h, m) ==
    /\ m \in batch[h]
    /\ batch' = [batch EXCEPT ![h] = @ \ {m}]
    /\ \/ /\ ~ZremWins(m)
          /\ UNCHANGED <<sched, client, orig, pc, cur>>
       \/ /\ ZremWins(m)
          /\ sched' = [sched EXCEPT ![m] = "out"]
          /\ \E s \in Slot :
               /\ FreeSlot(s)
               /\ client' = [client EXCEPT ![s] = "open"]
               /\ orig' = [orig EXCEPT ![s] = m]
               /\ pc' = [pc EXCEPT ![s] = "claimed"]
               /\ cur' = [cur EXCEPT ![s] = m]
    /\ UNCHANGED <<hash, attempt, pending, sentAs, hop, seen, next, rest, ghost,
                   bounds>>

\* The wrapper responds, or dies: the slot's server side is at rest.  A client
\* still awaiting the response gets it.
Rest(s) ==
    /\ pc' = [pc EXCEPT ![s] = "idle"]
    /\ cur' = [cur EXCEPT ![s] = None]
    /\ hop' = [hop EXCEPT ![s] = 0]
    /\ seen' = [seen EXCEPT ![s] = 0]
    /\ next' = [next EXCEPT ![s] = None]
    /\ rest' = [rest EXCEPT ![s] = {}]

Respond(s) ==
    /\ Rest(s)
    /\ IF client[s] = "open"
       THEN /\ client' = [client EXCEPT ![s] = "none"]
            /\ orig' = [orig EXCEPT ![s] = None]
            /\ sentAs' = [sentAs EXCEPT ![s] = 0]
       ELSE UNCHANGED <<client, orig, sentAs>>

\* dispatchOne reads the job (returning if there is none) and fetches.
Send(s) ==
    /\ pc[s] = "claimed"
    /\ \/ /\ hash[cur[s]] # "full"
          /\ Respond(s)
       \/ /\ hash[cur[s]] = "full"
          /\ sentAs' = [sentAs EXCEPT ![s] = attempt[cur[s]]]
          /\ pc' = [pc EXCEPT ![s] = "sent"]
          /\ UNCHANGED <<client, orig, cur, hop, seen, next, rest>>
    /\ UNCHANGED <<redis, pending, batch, ghost, bounds>>

----------------------------------------------------------------------------
(* createQueueHandler: the wrapper.                                        *)

\* A request with ?msg= arrives: no job is a no-op 200, a health check is
\* answered and deleted, a foreign queue name is a 400, anything else runs.
Arrive(s) ==
    /\ pc[s] = "sent"
    /\ \/ /\ hash[cur[s]] # "full" \/ cur[s] \in Misrouted \ HealthCheck
          /\ Respond(s)
       \/ /\ hash[cur[s]] = "full"
          /\ cur[s] \in HealthCheck \/ cur[s] \notin Misrouted
          /\ pc' = [pc EXCEPT ![s] = IF cur[s] \in HealthCheck THEN "drop"
                                                              ELSE "running"]
          /\ seen' = [seen EXCEPT ![s] = attempt[cur[s]]]
          /\ UNCHANGED <<cur, hop, next, rest, client, orig, sentAs>>
    /\ fate' = IF pc'[s] = "drop" THEN [fate EXCEPT ![cur[s]] = "done"] ELSE fate
    /\ UNCHANGED <<redis, pending, batch, fails, bounds>>

\* A request without ?msg=: the handler runs with no durable job behind it.
ArriveDirect(s) ==
    /\ FreeSlot(s)
    /\ direct < MaxDirect
    /\ direct' = direct + 1
    /\ client' = [client EXCEPT ![s] = "open"]
    /\ pc' = [pc EXCEPT ![s] = "running"]
    /\ UNCHANGED <<redis, pending, batch, orig, sentAs, cur, hop, seen, next,
                   rest, ghost, sleeps, late, failed, faults>>

\* The handler has returned only when the enqueues it awaited have.
Awaited(s) == \A m \in Message : pending[m] # s

\* The handler returns nothing: the delivery is complete.
HandlerReturns(s) ==
    /\ pc[s] = "running"
    /\ Awaited(s)
    /\ pc' = [pc EXCEPT ![s] = IF cur[s] = None THEN "promote" ELSE "del"]
    /\ fate' = IF cur[s] = None THEN fate ELSE [fate EXCEPT ![cur[s]] = "done"]
    /\ UNCHANGED <<redis, pending, dispatcher, cur, hop, seen, next, rest, fails,
                   bounds>>

\* scheduleJob with a backoff or sleep.  (Mutant: forgotten.)
DeferForgotten(m) == UNCHANGED sched
Defer(m) == sched' = [sched EXCEPT ![m] = "later"]

\* The handler returns timeoutSeconds: scheduleJob, and a 200.
HandlerSleeps(s) ==
    /\ pc[s] = "running"
    /\ Awaited(s)
    /\ IF cur[s] = None THEN UNCHANGED <<sched, sleeps>>
       ELSE /\ sleeps[cur[s]] < MaxSleeps
            /\ sleeps' = [sleeps EXCEPT ![cur[s]] = @ + 1]
            /\ Defer(cur[s])
    /\ Respond(s)
    /\ UNCHANGED <<hash, attempt, pending, batch, ghost, direct, late,
                   failed, faults>>

\* HSET of the attempt field: on a deleted hash it creates a partial one.
\* (Mutant: the attempt read is written back.)
SetAttemptStuck(m, n) ==
    /\ attempt' = [attempt EXCEPT ![m] = n - 1]
    /\ hash' = [hash EXCEPT ![m] = IF @ = "full" THEN "full" ELSE "partial"]
SetAttempt(m, n) ==
    /\ attempt' = [attempt EXCEPT ![m] = n]
    /\ hash' = [hash EXCEPT ![m] = IF @ = "full" THEN "full" ELSE "partial"]

\* The handler throws: one attempt more, or the job is dropped.
HandlerThrows(s) ==
    /\ pc[s] = "running"
    /\ Awaited(s)
    /\ LET m == cur[s] IN
       \/ /\ m = None
          /\ Respond(s)
          /\ UNCHANGED <<hash, attempt, ghost>>
       \/ /\ m # None
          /\ fails' = [fails EXCEPT ![m] = IF @ < MaxAttempts THEN @ + 1 ELSE @]
          /\ \/ /\ seen[s] + 1 <= MaxAttempts
                /\ SetAttempt(m, seen[s] + 1)
                /\ pc' = [pc EXCEPT ![s] = "resched"]
                /\ UNCHANGED fate
             \/ /\ seen[s] + 1 > MaxAttempts
                /\ pc' = [pc EXCEPT ![s] = "drop"]
                /\ fate' = [fate EXCEPT ![m] = "dropped"]
                /\ UNCHANGED <<hash, attempt>>
          /\ UNCHANGED <<cur, hop, seen, next, rest, client, orig, sentAs>>
    /\ UNCHANGED <<sched, pending, batch, bounds>>

\* The backoff of a failed job, and a 500.
Reschedule(s) ==
    /\ pc[s] = "resched"
    /\ Defer(cur[s])
    /\ Respond(s)
    /\ UNCHANGED <<hash, attempt, pending, batch, ghost, bounds>>

\* DEL loses the attempt field with the rest of the hash.  (Mutant: only ZREM.)
KeepHash(m) == UNCHANGED <<hash, attempt>>
DelHash(m) ==
    /\ hash' = [hash EXCEPT ![m] = "absent"]
    /\ attempt' = [attempt EXCEPT ![m] = 0]

\* deleteJob: DEL, then ZREM; a completed delivery goes on to its
\* continuations, a dropped job or a health check is answered.
DeleteHash(s) ==
    /\ pc[s] \in {"del", "drop"}
    /\ DelHash(cur[s])
    /\ pc' = [pc EXCEPT ![s] = IF @ = "del" THEN "zrem" ELSE "dropzrem"]
    /\ UNCHANGED <<sched, pending, dispatcher, cur, hop, seen, next, rest, ghost,
                   bounds>>

DeleteEntry(s) ==
    /\ pc[s] \in {"zrem", "dropzrem"}
    /\ sched' = [sched EXCEPT ![cur[s]] = "out"]
    /\ \/ /\ pc[s] = "zrem"
          /\ pc' = [pc EXCEPT ![s] = "promote"]
          /\ UNCHANGED <<cur, hop, seen, next, rest, client, orig, sentAs>>
       \/ /\ pc[s] = "dropzrem"
          /\ Respond(s)
    /\ UNCHANGED <<hash, attempt, pending, batch, ghost, bounds>>

\* The extra continuations are promoted to fire now, one by one.
PromoteRest(s) ==
    /\ pc[s] = "promote"
    /\ \E m \in rest[s] :
         /\ sched' = [sched EXCEPT ![m] = "due"]
         /\ rest' = [rest EXCEPT ![s] = @ \ {m}]
    /\ UNCHANGED <<hash, attempt, pending, dispatcher, pc, cur, hop, seen, next,
                   ghost, bounds>>

\* hop + 1 < MAX_HOPS.  (Mutant: off by one.)
HopsLeftOffByOne(s) == hop[s] < MaxHops
HopsLeft(s) == hop[s] + 1 < MaxHops

\* Below the hop limit the first continuation is taken off the schedule for
\* the redirect; the ZREM's result is not looked at.
ClaimNext(s) ==
    /\ pc[s] = "promote" /\ rest[s] = {}
    /\ next[s] # None
    /\ HopsLeft(s)
    /\ sched' = [sched EXCEPT ![next[s]] = "out"]
    /\ pc' = [pc EXCEPT ![s] = "redirect"]
    /\ UNCHANGED <<hash, attempt, pending, dispatcher, cur, hop, seen, next, rest,
                   ghost, bounds>>

\* No continuation, or the hop limit: the continuation is due now.
FinishChain(s) ==
    /\ pc[s] = "promote" /\ rest[s] = {}
    /\ next[s] # None => ~HopsLeft(s)
    /\ sched' = IF next[s] = None THEN sched ELSE [sched EXCEPT ![next[s]] = "due"]
    /\ Respond(s)
    /\ UNCHANGED <<hash, attempt, pending, batch, ghost, bounds>>

\* The 307: a client still there requests the continuation, nobody else does.
Redirect(s) ==
    /\ pc[s] = "redirect"
    /\ \/ /\ client[s] = "open"
          /\ pc' = [pc EXCEPT ![s] = "sent"]
          /\ cur' = [cur EXCEPT ![s] = next[s]]
          /\ hop' = [hop EXCEPT ![s] = @ + 1]
          /\ seen' = [seen EXCEPT ![s] = 0]
          /\ next' = [next EXCEPT ![s] = None]
          /\ UNCHANGED <<rest, client, orig, sentAs>>
       \/ /\ client[s] # "open"
          /\ Respond(s)
    /\ UNCHANGED <<redis, pending, batch, ghost, bounds>>

----------------------------------------------------------------------------
(* Fetches that fail, processes that die.                                  *)

\* dispatchOne's catch: one attempt more than it read, or deleteJob.  A direct
\* caller has no catch.
Caught(s) ==
    IF orig[s] = None THEN "none"
    ELSE IF sentAs[s] + 1 <= MaxAttempts THEN "bump" ELSE "drop"

CatchesDrop(S) ==
    fate' = [m \in Message |->
               IF fate[m] = "queued"
                    /\ \E s \in S : orig[s] = m /\ sentAs[s] + 1 > MaxAttempts
               THEN "dropped" ELSE fate[m]]

\* The fetch fails, before or after the request reached a wrapper; the wrapper
\* does not learn of it.
NetError(s) ==
    /\ faults < MaxFaults
    /\ client[s] = "open" /\ pc[s] # "claimed"
    /\ faults' = faults + 1
    /\ failed' = failed \union ({orig[s]} \ {None})
    /\ client' = [client EXCEPT ![s] = Caught(s)]
    /\ CatchesDrop({s})
    /\ \/ pc[s] = "sent" /\ Rest(s)
       \/ UNCHANGED wrapper
    /\ UNCHANGED <<redis, pending, batch, orig, sentAs, fails, sleeps, direct, late>>

Dispatching == {s \in Slot : client[s] # "none"}
Serving == {s \in Slot : pc[s] \notin {"idle", "claimed"}}
Draining == {h \in Host : batch[h] # {}}
Enqueuing == {m \in Message : pending[m] # "no"}

\* A process dies, or its connection to Redis fails under what it is doing: the
\* dispatchers' sides of the slots D, the wrappers' of W, the queue() calls P and
\* the batches of H go at once.  One process has all the dispatches in flight
\* that its capacity allows, and usually runs their wrappers too, so that any
\* sets are possible; each fetch is counted.  A dispatcher that survives its
\* wrapper sees the connection break (E), or an error response, which it only
\* logs.
CutOff(H, D, W, E, P) ==
    LET ended == D \union {s \in W \ E : client[s] = "open"}
        stopped == W \union {s \in D : pc[s] = "claimed"} IN
    /\ faults < MaxFaults
    /\ faults' = faults + Cardinality(D \union W)
    /\ faults' <= MaxFaults
    /\ \A m \in Message : pending[m] \in W => m \in P
    /\ pending' = [m \in Message |-> IF m \in P THEN "no" ELSE pending[m]]
    /\ batch' = [h \in Host |-> IF h \in H THEN {} ELSE batch[h]]
    /\ client' = [s \in Slot |-> IF s \in ended THEN "none"
                                 ELSE IF s \in E THEN Caught(s) ELSE client[s]]
    /\ orig' = [s \in Slot |-> IF s \in ended THEN None ELSE orig[s]]
    /\ sentAs' = [s \in Slot |-> IF s \in ended THEN 0 ELSE sentAs[s]]
    /\ CatchesDrop(E)
    /\ pc' = [s \in Slot |-> IF s \in stopped THEN "idle" ELSE pc[s]]
    /\ cur' = [s \in Slot |-> IF s \in stopped THEN None ELSE cur[s]]
    /\ hop' = [s \in Slot |-> IF s \in stopped THEN 0 ELSE hop[s]]
    /\ seen' = [s \in Slot |-> IF s \in stopped THEN 0 ELSE seen[s]]
    /\ next' = [s \in Slot |-> IF s \in stopped THEN None ELSE next[s]]
    /\ rest' = [s \in Slot |-> IF s \in stopped THEN {} ELSE rest[s]]
    /\ UNCHANGED <<redis, fails, sleeps, direct, late, failed>>

ClientDone(s) ==
    /\ client' = [client EXCEPT ![s] = "none"]
    /\ orig' = [orig EXCEPT ![s] = None]
    /\ sentAs' = [sentAs EXCEPT ![s] = 0]

\* The catch block, one Redis command at a time.
ClientBump(s) ==
    /\ client[s] = "bump"
    /\ SetAttempt(orig[s], sentAs[s] + 1)
    /\ client' = [client EXCEPT ![s] = "requeue"]
    /\ UNCHANGED <<sched, pending, batch, orig, sentAs, wrapper, ghost, bounds>>

ClientRequeue(s) ==
    /\ client[s] = "requeue"
    /\ Defer(orig[s])
    /\ ClientDone(s)
    /\ UNCHANGED <<hash, attempt, pending, batch, wrapper, ghost, bounds>>

ClientDrop(s) ==
    /\ client[s] = "drop"
    /\ DelHash(orig[s])
    /\ client' = [client EXCEPT ![s] = "dropzrem"]
    /\ UNCHANGED <<sched, pending, batch, orig, sentAs, wrapper, ghost, bounds>>

ClientDropEntry(s) ==
    /\ client[s] = "dropzrem"
    /\ sched' = [sched EXCEPT ![orig[s]] = "out"]
    /\ ClientDone(s)
    /\ UNCHANGED <<hash, attempt, pending, batch, wrapper, ghost, bounds>>

----------------------------------------------------------------------------
HandlerEnds(s) == HandlerReturns(s) \/ HandlerSleeps(s) \/ HandlerThrows(s)

WrapperStep(s) ==
    \/ Send(s)
    \/ Arrive(s)
    \/ HandlerEnds(s)
    \/ Reschedule(s)
    \/ DeleteHash(s)
    \/ DeleteEntry(s)
    \/ PromoteRest(s)
    \/ ClaimNext(s)
    \/ FinishChain(s)
    \/ Redirect(s)

ClientStep(s) ==
    ClientBump(s) \/ ClientRequeue(s) \/ ClientDrop(s) \/ ClientDropEntry(s)

Next ==
    \/ \E m \in Message :
         \/ TimePasses(m)
         \/ \E by \in {"now", "delayed"} \union Slot : WriteJob(m, by)
         \/ ScheduleJob(m)
    \/ \E h \in Host :
         \/ ReadDue(h)
         \/ \E m \in Message : Claim(h, m)
    \/ \E s \in Slot :
         \/ WrapperStep(s)
         \/ ClientStep(s)
         \/ ArriveDirect(s)
         \/ NetError(s)
    \/ \E H \in SUBSET Draining, P \in SUBSET Enqueuing :
         \E D \in SUBSET Dispatching, W \in SUBSET Serving :
           \E E \in SUBSET {s \in W \ D : client[s] = "open"} : CutOff(H, D, W, E, P)

Spec == Init /\ [][Next]_vars

\* The clock, the dispatcher loops and every handler make progress; nothing is
\* promised of the clients that enqueue, and no fault ever has to happen.
Fairness ==
    /\ \A m \in Message : WF_vars(TimePasses(m)) /\ WF_vars(ScheduleJob(m))
    /\ \A h \in Host : WF_vars(ReadDue(h) \/ \E m \in Message : Claim(h, m))
    /\ \A s \in Slot : WF_vars(WrapperStep(s)) /\ WF_vars(ClientStep(s))

FairSpec == Spec /\ Fairness

----------------------------------------------------------------------------
\* Some process is bound to deliver m, or to put it back on the schedule.
Held(m) ==
    \E s \in Slot :
      \/ cur[s] = m /\ pc[s] \in {"claimed", "sent", "running", "resched"}
      \/ next[s] = m /\ pc[s] = "redirect"
      \/ orig[s] = m /\ client[s] \in {"bump", "requeue"}

\* What a process that dies takes with it is, for every fetch it had a part in,
\* one job at most: the one claimed, running or being redirected to, never what
\* is scheduled, waits in a batch, or was recorded by another chain.  A fetch
\* that fails loses one at most, too.  The other way to lose a job is the 400 of
\* a foreign queue name.
Lost == {m \in Message : fate[m] = "queued" /\ ~Scheduled(m) /\ ~Held(m)}

OneLossPerFetch == Cardinality(Lost \ Misrouted) <= faults

\* At most one handler invocation runs for a job, although the dispatchers and
\* the redirect chains claim jobs independently of each other, whatever dies and
\* whatever happens to other jobs: only a job whose own fetch has failed, or a
\* continuation that outwaited its grace window while the handler that enqueued
\* it was still at work, is ever delivered to two at a time.
OneRunnerPerJob ==
    \A s, t \in Slot :
      s # t /\ pc[s] = "running" /\ pc[t] = "running" /\ cur[s] # None
        => cur[s] # cur[t] \/ cur[s] \in late \union failed

\* A handler runs only for a job that is still owed a delivery, and it is told
\* the attempt number that counts the failures so far exactly.
AttemptsAccounted ==
    \A s \in Slot :
      pc[s] = "running" /\ cur[s] # None
        => fate[cur[s]] = "queued" /\ seen[s] = fails[cur[s]] + 1

\* A finished job leaves no hash behind that nothing will ever delete.
NoResidue ==
    \A m \in Message :
      /\ hash[m] # "partial"
      /\ fate[m] \in {"done", "dropped"} /\ hash[m] = "full"
           => \E s \in Slot : cur[s] = m /\ pc[s] \in {"del", "drop"}

\* Every job queue() has returned for is completed, or dropped after its last
\* attempt.
JobsSettle ==
    \A m \in Message : fate[m] = "queued" ~> fate[m] \in {"done", "dropped"}

----------------------------------------------------------------------------
\* Where a job is, seen from outside: "shared" and "lost" are no states of the
\* abstract queue.
Holders(m) ==
    {s \in Slot :
      \/ cur[s] = m /\ pc[s] \in {"claimed", "sent", "running", "resched"}
      \/ next[s] = m /\ pc[s] = "redirect"}

AbsState(m) ==
    IF fate[m] \in {"new", "writing"} THEN "new"
    ELSE IF fate[m] \in {"done", "dropped"} THEN fate[m]
    ELSE IF Scheduled(m) THEN (IF Holders(m) = {} THEN "ready" ELSE "shared")
    ELSE IF Cardinality(Holders(m)) = 1 THEN "held" ELSE "lost"

\* The queue implements the abstract one: exclusive delivery, no loss, no
\* redelivery of a completed job, exactly MaxAttempts failures before a drop.
Abstract == INSTANCE DurableQueue
              WITH state <- [m \in Message |-> AbsState(m)], tries <- fails
ImplementsDurableQueue == Abstract!AbsSpec
=============================================================================
