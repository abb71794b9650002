------------------------------- MODULE KVQueue -------------------------------
(***************************************************************************)
(* The work queue of packages/world-edgeone (src/kv/queue.ts) over a key-  *)
(* value store without compare-and-set (src/kv/adapters.ts): a job is one  *)
(* key made of the time it is due and its message id; a dispatcher lists   *)
(* the keys that are due, leases the message and POSTs to the handler      *)
(* route; the handler wrapper looks the message up again, runs the handler *)
(* and moves or deletes the key.                                           *)
(*                                                                         *)
(* A Slot is one fetch of dispatchOne: the dispatcher's side of it         *)
(* (client) and the wrapper invocation it reaches (pc).  Every await on    *)
(* the store is a step boundary; putIfNotExists is the get and the put of  *)
(* adaptNamespace.  Writes take their time to reach the readers of the     *)
(* store: a list, a get or a lookup may miss what is there and return what *)
(* has been deleted.  Time is abstract: any key may be due.                *)
(***************************************************************************)
EXTENDS Naturals, FiniteSets

CONSTANTS
  Message,       \* message ids, each used at most once
  Host,          \* processes running a dispatcher
  Slot,          \* concurrent dispatches
  MaxAttempts,   \* config.maxAttempts
  MaxTurns,      \* bound: timeoutSeconds results, failing fetches, leases that
                 \* expire in use or are taken by two hosts, lookups of a deleted
                 \* key, and events that cut fetches off, together
  None           \* no job

(* n tells the keys of one message apart: it stands for the runAt part.    *)
Job == [m : Message, n : Nat, attempt : 1..MaxAttempts]

ASSUME KVQueueAssumption ==
  /\ MaxAttempts \in Nat \ {0}
  /\ MaxTurns \in Nat
  /\ IsFiniteSet(Slot)
  /\ None \notin Job

VARIABLES
  jobs,    \* the job keys with their blobs
  gone,    \* the deleted ones, which a reader may still be given
  lease,   \* the messages with a lease key
  trying,  \* per host: the job drainOnce has read, and seen no lease of
  client,  \* per slot: the dispatcher's side
  sent,    \* per slot: the job dispatchOne was called with
  pc,      \* per slot: the wrapper's side
  cur,     \* per slot: the job its request asks for, then the one it found
  fate,    \* ghost: what became of the message
  fails,   \* ghost: handler failures per message
  turns,   \* counter for the bound MaxTurns
  calm,    \* ghost: no fetch failed, no lease expired in use or was taken by
           \* two hosts, no lookup returned a deleted key
  cut      \* ghost: the fetches that were cut off on either side

kv == <<jobs, gone, lease>>
slots == <<client, sent, pc, cur>>
bounds == <<turns, calm, cut>>
vars == <<kv, trying, slots, fate, fails, bounds>>

-----------------------------------------------------------------------------
ClientState == {"none", "open", "delete", "store", "release"}
Wrapper == {"idle", "sent", "running",
            "faildelete", "failstore", "failrelease",
            "donedelete", "donerelease",
            "sleepdelete", "sleeprelease", "sleepstore"}

Init ==
  /\ jobs = {} /\ gone = {} /\ lease = {}
  /\ trying = [h \in Host |-> None]
  /\ client = [s \in Slot |-> "none"]
  /\ sent = [s \in Slot |-> None]
  /\ pc = [s \in Slot |-> "idle"]
  /\ cur = [s \in Slot |-> None]
  /\ fate = [m \in Message |-> "new"]
  /\ fails = [m \in Message |-> 0]
  /\ turns = 0 /\ calm = TRUE /\ cut = 0

SameKey(j, k) == j.m = k.m /\ j.n = k.n

OneMore ==
  /\ turns < MaxTurns
  /\ turns' = turns + 1

(* What shakes the exclusion by leases.                                    *)
Shaken == OneMore /\ calm' = FALSE

DeleteJob(j) ==
  /\ jobs' = {k \in jobs : ~SameKey(j, k)}
  /\ gone' = gone \union (jobs \ jobs')

(* A later runAt makes another key: one that nobody has seen yet.          *)
Fresh(m, n) == \A j \in jobs \union gone : ~(j.m = m /\ j.n = n)

StoreJob(m, attempt) ==
  /\ \E n \in 1..Cardinality(jobs \union gone) + 1 :
       /\ Fresh(m, n) /\ \A i \in 1..n - 1 : ~Fresh(m, i)
       /\ jobs' = jobs \union {[m |-> m, n |-> n, attempt |-> attempt]}
  /\ UNCHANGED gone

Release(m) == lease' = lease \ {m}

-----------------------------------------------------------------------------
(* queue(): one put.                                                       *)
Enqueue(m) ==
  /\ fate[m] = "new"
  /\ StoreJob(m, 1)
  /\ fate' = [fate EXCEPT ![m] = "queued"]
  /\ UNCHANGED <<lease, trying, slots, fails, bounds>>

(* A lease is in use while its dispatch or its handler is under way.       *)
AtWork(m) ==
  \E s \in Slot : \/ client[s] # "none" /\ sent[s].m = m
                  \/ pc[s] # "idle" /\ cur[s].m = m

(* The 60 seconds of the lease are over.                                   *)
LeaseExpires(m) ==
  /\ m \in lease
  /\ IF AtWork(m) THEN Shaken ELSE UNCHANGED <<turns, calm>>
  /\ lease' = lease \ {m}
  /\ UNCHANGED <<jobs, gone, trying, slots, fate, fails, cut>>

-----------------------------------------------------------------------------
(* drainOnce: list the keys; for each that is due get the job and, in      *)
(* putIfNotExists, the lease; if there is none put it, and start a dispatch*)
(* without waiting for it.  The reads may be of any age, so they are one   *)
(* step: what a list returned some time ago is a key that is stored or has *)
(* been deleted, and a lease that was there may not be seen.  A drain that *)
(* has its dispatchBatch is one that reads no further key.                 *)
ReadJob(h, j) ==
  /\ trying[h] = None
  /\ j \in jobs \union gone
  /\ trying' = [trying EXCEPT ![h] = j]
  /\ UNCHANGED <<kv, slots, fate, fails, bounds>>

(* Mutant: the put is lost.                                                *)
LeasedNot(m) == lease
Leased(m) == lease \union {m}

(* The put, whoever did so since the get; then fetch.                      *)
LeasePut(h, s) ==
  /\ trying[h] # None /\ client[s] = "none" /\ pc[s] = "idle"
  /\ IF trying[h].m \in lease THEN Shaken ELSE UNCHANGED <<turns, calm>>
  /\ lease' = Leased(trying[h].m)
  /\ sent' = [sent EXCEPT ![s] = trying[h]]
  /\ cur' = [cur EXCEPT ![s] = trying[h]]
  /\ client' = [client EXCEPT ![s] = "open"]
  /\ pc' = [pc EXCEPT ![s] = "sent"]
  /\ trying' = [trying EXCEPT ![h] = None]
  /\ UNCHANGED <<jobs, gone, fate, fails, cut>>

-----------------------------------------------------------------------------
(* The handler wrapper.                                                    *)

Move(s, from, to) ==
  /\ pc[s] = from
  /\ pc' = [pc EXCEPT ![s] = to]
  /\ cur' = IF to = "idle" THEN [cur EXCEPT ![s] = None] ELSE cur
  /\ UNCHANGED <<client, sent, trying>>

(* findJobByMessageId returns a key of the message, due or not, or a       *)
(* deleted one.  Or it returns none, not even one that is there but not to *)
(* be seen yet (ok: true), or one of a queue name that this route's        *)
(* handler refuses (400).                                                  *)
Arrive(s) ==
  /\ pc[s] = "sent"
  /\ \/ \E j \in jobs \union gone :
          /\ j.m = cur[s].m
          /\ pc' = [pc EXCEPT ![s] = "running"]
          /\ cur' = [cur EXCEPT ![s] = j]
          /\ IF j \in gone THEN Shaken ELSE UNCHANGED <<turns, calm>>
     \/ /\ pc' = [pc EXCEPT ![s] = "idle"]
        /\ cur' = [cur EXCEPT ![s] = None]
        /\ UNCHANGED <<turns, calm>>
  /\ UNCHANGED <<kv, trying, client, sent, fate, fails, cut>>

HandlerReturns(s) ==
  /\ Move(s, "running", "donedelete")
  /\ fate' = [fate EXCEPT ![cur[s].m] = "done"]
  /\ UNCHANGED <<kv, fails, bounds>>

HandlerSleeps(s) ==
  /\ Move(s, "running", "sleepdelete")
  /\ OneMore
  /\ UNCHANGED <<kv, fate, fails, calm, cut>>

TriesAgain(j) == j.attempt + 1 <= MaxAttempts

HandlerThrows(s) ==
  LET j == cur[s] IN
  /\ Move(s, "running", "faildelete")
  /\ fails' = [fails EXCEPT ![j.m] = IF @ < MaxAttempts THEN @ + 1 ELSE @]
  /\ fate' = IF TriesAgain(j) THEN fate ELSE [fate EXCEPT ![j.m] = "dropped"]
  /\ UNCHANGED <<kv, bounds>>

WrapperDeletes(s) ==
  /\ \/ Move(s, "faildelete", IF TriesAgain(cur[s]) THEN "failstore" ELSE "failrelease")
     \/ Move(s, "donedelete", "donerelease")
     \/ Move(s, "sleepdelete", "sleeprelease")
  /\ DeleteJob(cur[s])
  /\ UNCHANGED <<lease, fate, fails, bounds>>

(* Mutant: timeoutSeconds is answered, and nothing stored.                 *)
WrapperReleasesLast(s) ==
  /\ \E from \in {"failrelease", "donerelease", "sleeprelease"} : Move(s, from, "idle")
  /\ Release(cur[s].m)
  /\ UNCHANGED <<jobs, gone, fate, fails, bounds>>

WrapperReleases(s) ==
  /\ \/ Move(s, "failrelease", "idle")
     \/ Move(s, "donerelease", "idle")
     \/ Move(s, "sleeprelease", "sleepstore")
  /\ Release(cur[s].m)
  /\ UNCHANGED <<jobs, gone, fate, fails, bounds>>

(* Mutant: a failed job keeps its attempt.                                 *)
NextAttemptForgotten(s) == cur[s].attempt
NextAttempt(s) == IF pc[s] = "failstore" THEN cur[s].attempt + 1 ELSE cur[s].attempt

WrapperStores(s) ==
  /\ Move(s, "failstore", "failrelease") \/ Move(s, "sleepstore", "idle")
  /\ StoreJob(cur[s].m, NextAttempt(s))
  /\ UNCHANGED <<lease, fate, fails, bounds>>

WrapperStep(s) ==
  \/ Arrive(s)
  \/ HandlerReturns(s) \/ HandlerSleeps(s) \/ HandlerThrows(s)
  \/ WrapperDeletes(s) \/ WrapperReleases(s) \/ WrapperStores(s)

-----------------------------------------------------------------------------
(* The dispatcher's side of a fetch.                                       *)

Step(s, from, to) ==
  /\ client[s] = from
  /\ client' = [client EXCEPT ![s] = to]
  /\ sent' = IF to = "none" THEN [sent EXCEPT ![s] = None] ELSE sent
  /\ UNCHANGED <<pc, cur, trying>>

Response(s) ==
  /\ pc[s] = "idle" /\ Step(s, "open", "none")
  /\ UNCHANGED <<kv, fate, fails, bounds>>

(* fetch rejects, whether the request got through or not.                  *)
NetError(s) ==
  /\ client[s] = "open"
  /\ Shaken
  /\ client' = [client EXCEPT ![s] = "delete"]
  /\ \/ UNCHANGED <<pc, cur>>
     \/ /\ pc[s] = "sent"
        /\ pc' = [pc EXCEPT ![s] = "idle"]
        /\ cur' = [cur EXCEPT ![s] = None]
  /\ UNCHANGED <<kv, trying, sent, fate, fails, cut>>

(* The catch block: delete the key it knew, store the next attempt.        *)
ClientDeletes(s) ==
  /\ Step(s, "delete", IF TriesAgain(sent[s]) THEN "store" ELSE "release")
  /\ DeleteJob(sent[s])
  /\ fate' = IF TriesAgain(sent[s]) \/ fate[sent[s].m] = "done" THEN fate
             ELSE [fate EXCEPT ![sent[s].m] = "dropped"]
  /\ UNCHANGED <<lease, fails, bounds>>

ClientStores(s) ==
  /\ Step(s, "store", "release")
  /\ StoreJob(sent[s].m, sent[s].attempt + 1)
  /\ UNCHANGED <<lease, fate, fails, bounds>>

ClientReleases(s) ==
  /\ Step(s, "release", "none")
  /\ Release(sent[s].m)
  /\ UNCHANGED <<jobs, gone, fate, fails, bounds>>

ClientStep(s) == Response(s) \/ ClientDeletes(s) \/ ClientStores(s) \/ ClientReleases(s)

(* A process dies, and with it the drains H, the dispatchers' sides D and  *)
(* the handlers' sides W of the fetches it had in flight: up to            *)
(* dispatchBatch per tick, and it may be host of both sides.  The fetches  *)
(* open to its handlers fail or are answered by an error: NetError or      *)
(* Response, later.  Leases and keys stay.  A call to the store that fails *)
(* has the same effect on one of them: it ends the drain, the catch block  *)
(* ("best effort") or, by an exception that nothing catches, the wrapper.  *)
CutOff(H, D, W) ==
  /\ \A h \in H : trying[h] # None
  /\ \A s \in D : client[s] # "none"
  /\ \A s \in W : pc[s] # "idle"
  /\ OneMore
  /\ cut' = cut + Cardinality(D \union W)
  /\ trying' = [h \in Host |-> IF h \in H THEN None ELSE trying[h]]
  /\ client' = [s \in Slot |-> IF s \in D THEN "none" ELSE client[s]]
  /\ sent' = [s \in Slot |-> IF s \in D THEN None ELSE sent[s]]
  /\ pc' = [s \in Slot |-> IF s \in W THEN "idle" ELSE pc[s]]
  /\ cur' = [s \in Slot |-> IF s \in W THEN None ELSE cur[s]]
  /\ UNCHANGED <<kv, fate, fails, calm>>

-----------------------------------------------------------------------------
Next ==
  \/ \E m \in Message : LeaseExpires(m) \/ Enqueue(m)
  \/ \E h \in Host :
       \/ \E j \in jobs \union gone : ReadJob(h, j)
       \/ \E s \in Slot : LeasePut(h, s)
  \/ \E s \in Slot :
       WrapperStep(s) \/ ClientStep(s) \/ NetError(s)
  \/ \E H \in SUBSET Host, D, W \in SUBSET Slot : CutOff(H, D, W)

Spec == Init /\ [][Next]_vars

-----------------------------------------------------------------------------
(* Properties *)

TypeOK ==
  /\ jobs \subseteq Job /\ gone \subseteq Job /\ lease \subseteq Message
  /\ trying \in [Host -> Job \union {None}]
  /\ client \in [Slot -> ClientState] /\ pc \in [Slot -> Wrapper]
  /\ sent \in [Slot -> Job \union {None}] /\ cur \in [Slot -> Job \union {None}]
  /\ \A s \in Slot : sent[s] = None => client[s] = "none"
  /\ \A s \in Slot : cur[s] = None => pc[s] = "idle"
  /\ fate \in [Message -> {"new", "queued", "done", "dropped"}]
  /\ fails \in [Message -> 0..MaxAttempts]
  /\ {turns, cut} \subseteq Nat /\ calm \in BOOLEAN

(* Some invocation, or the catch block of some dispatch, has taken the job *)
(* off the store and is bound to put it back.                              *)
Moving(m) ==
  \E s \in Slot :
    \/ pc[s] \in {"failstore", "sleeprelease", "sleepstore"} /\ cur[s].m = m
    \/ client[s] = "store" /\ sent[s].m = m

(* A job that was accepted and is neither completed nor out of attempts is *)
(* in the store or being moved, whatever fetches fail, leases expire, hosts*)
(* race and deleted keys are read: who deletes the key of a job is bound to*)
(* put one back.  Only the fetches that a dying process or a failing call  *)
(* to the store cuts off lose jobs, each fetch at most one.                *)
Lost == {m \in Message : fate[m] = "queued" /\ ~Moving(m) /\ \A j \in jobs : j.m # m}

OneLossPerFetch == Cardinality(Lost) <= cut

(* Until a fetch fails, a lease expires under its holder, two hosts take   *)
(* one lease or the wrapper's lookup returns a deleted key, a job has at   *)
(* most one handler running: by a dispatcher that acts on a job it read    *)
(* before somebody else moved it, or whose key is deleted, included.       *)
OneRunnerPerJob ==
  calm => \A s, t \in Slot :
    s # t /\ pc[s] = "running" /\ pc[t] = "running" => cur[s].m # cur[t].m

(* Where a job is, seen from outside.                                      *)
Holders(m) ==
  {s \in Slot : cur[s] # None /\ cur[s].m = m
                /\ pc[s] \in {"running", "faildelete", "failstore",
                              "sleepdelete", "sleeprelease", "sleepstore"}}

AbsState(m) ==
  IF fate[m] # "queued" THEN fate[m]
  ELSE IF Holders(m) = {} THEN (IF m \in Lost THEN "lost" ELSE "ready")
  ELSE IF Cardinality(Holders(m)) = 1 THEN "held" ELSE "shared"

Abstract == INSTANCE DurableQueue
              WITH state <- [m \in Message |-> AbsState(m)], tries <- fails

(* As long as nothing fails and no lookup returns a deleted key the queue  *)
(* is the abstract one, by leases alone and with hosts acting on stale     *)
(* lists and reads: exclusive delivery, no loss, no delivery of a          *)
(* completed job, exactly MaxAttempts failures before a drop.              *)
ImplementsDurableQueue ==
  /\ Abstract!AbsInit
  /\ [][(calm /\ cut = 0)' => [Abstract!AbsNext]_(Abstract!absVars)]_vars
=============================================================================
